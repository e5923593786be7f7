---------------------- MODULE ProgrammeDownload_proofs ----------------------
(***************************************************************************)
(* Proofs about ProgrammeDownload, for any sets of owners, records, files, *)
(* requests and consumers.  That a record which is shown as being          *)
(* generated is worked on rests on three things: ids are not used again    *)
(* while anything holds them, a job whose reader has caught up only gives  *)
(* way to a record other than its own, which is then the one that is shown *)
(* (what a reader that lags behind does is counted as lost), and a message *)
(* goes only when its job has said how it ended.                           *)
(***************************************************************************)
EXTENDS ProgrammeDownload, TLAPS

-----------------------------------------------------------------------------
(* Types                                                                   *)

\* Messages on their way and processes at work have an owner.
OwnersKnown ==
    /\ \A d \in Download : queue[d].at # "absent" => queue[d].owner # None
    /\ \A q \in Request : pc[q] # "idle" => for[q] # None
    /\ \A q \in Request : pc[q] = "enqueue" <=> holds[q] # None
    /\ \A c \in Consumer : pc[c] = "report" => batches[c] # 0

TypeInv == TypeOK /\ OwnersKnown

\* The values are well-typed at first.
LEMMA TypeInit == Init => TypeInv
BY ConstantAssumption
   DEF Init, TypeInv, TypeOK, OwnersKnown, Record, NoRecord, Slot, EmptySlot, Process

\* A process that rests keeps the types of what it held.
LEMMA RestTyped ==
    ASSUME TypeInv, NEW p \in Process, Rest(p)
    PROVE  /\ pc' \in [Process -> {"idle", "delete"} \cup RequestStep \cup JobStep]
           /\ holds' \in [Process -> Download \cup {None}]
           /\ for' \in [Process -> Owner \cup {None}]
           /\ batches' \in [Process -> 0 .. MaxBatches]
           /\ files' \in [Process -> SUBSET File]
           /\ pc'[p] = "idle" /\ holds'[p] = None /\ for'[p] = None
           /\ \A q \in Process \ {p} : /\ pc'[q] = pc[q]
                                       /\ holds'[q] = holds[q]
                                       /\ for'[q] = for[q]
                                       /\ batches'[q] = batches[q]
                                       /\ files'[q] = files[q]
BY ConstantAssumption DEF TypeInv, TypeOK, Rest

\* Records keep their types and owners when one is updated.
LEMMA UpdateTyped ==
    ASSUME TypeInv, NEW d \in Download, NEW r \in Record,
           r.owner = rec[d].owner, r.status # "none", Update(d, r)
    PROVE  /\ rec' \in [Download -> Record]
           /\ newest' \in [Owner -> Download \cup {None}]
           /\ \A e \in Download : rec'[e].owner = None <=> rec'[e] = NoRecord
<1>1. rec[d].owner \in Owner
  BY DEF TypeInv, TypeOK, Update, Exists, NoRecord, Record
<1>2. /\ rec' \in [Download -> Record] /\ rec'[d] = r
      /\ \A e \in Download \ {d} : rec'[e] = rec[e]
  BY DEF TypeInv, TypeOK, Update
<1>3. newest' \in [Owner -> Download \cup {None}]
  BY <1>1 DEF TypeInv, TypeOK, Update
<1>4. r.owner # None /\ r # NoRecord
  BY <1>1, ConstantAssumption DEF NoRecord
<1> QED BY <1>2, <1>3, <1>4 DEF TypeInv, TypeOK

\* Sending keeps well-formed messages.
LEMMA SendTyped ==
    ASSUME TypeInv, NEW q \in Request, pc[q] = "enqueue", Send(q)
    PROVE  /\ queue' \in [Download -> Slot]
           /\ \A d \in Download : queue'[d].at # "absent" => queue'[d].owner # None
<1>1. q \in Process /\ holds[q] \in Download /\ for[q] \in Owner
  BY DEF TypeInv, TypeOK, OwnersKnown, Process
<1> QED BY <1>1, ConstantAssumption
           DEF TypeInv, TypeOK, OwnersKnown, Send, Slot

\* The mark that a message was handled changes nothing else of it.
LEMMA HandledTyped ==
    ASSUME TypeInv, NEW c \in Consumer, pc[c] # "idle", Handled(c)
    PROVE  /\ queue' \in [Download -> Slot]
           /\ \A d \in Download : /\ queue'[d].at = queue[d].at
                                  /\ queue'[d].owner = queue[d].owner
<1>1. holds[c] \in Download /\ queue[holds[c]] \in Slot
  BY DEF TypeInv, TypeOK, Process
<1>2. queue[holds[c]].handled \in BOOLEAN
  BY <1>1 DEF Slot
<1>3. [queue[holds[c]] EXCEPT !.handled = @ \/ queue[holds[c]].at # "absent"] \in Slot
  BY <1>1, <1>2 DEF Slot
<1>4. queue' = [queue EXCEPT ![holds[c]] =
                  [queue[holds[c]] EXCEPT !.handled = @ \/ queue[holds[c]].at # "absent"]]
  BY DEF Handled
<1> QED BY <1>1, <1>3, <1>4 DEF TypeInv, TypeOK, Slot

\* The parts of the type invariant.
RecordsTyped ==
    /\ rec \in [Download -> Record]
    /\ newest \in [Owner -> Download \cup {None}]
    /\ \A d \in Download : rec[d].owner = None <=> rec[d] = NoRecord
QueueTyped ==
    /\ queue \in [Download -> Slot]
    /\ \A d \in Download : queue[d].at # "absent" => queue[d].owner # None
ProcessesTyped ==
    /\ pc \in [Process -> {"idle", "delete"} \cup RequestStep \cup JobStep]
    /\ holds \in [Process -> Download \cup {None}]
    /\ for \in [Process -> Owner \cup {None}]
    /\ batches \in [Process -> 0 .. MaxBatches]
    /\ files \in [Process -> SUBSET File]
    /\ \A c \in Consumer : pc[c] # "idle" => holds[c] # None /\ for[c] # None
    /\ \A q \in Request : pc[q] # "idle" => for[q] # None
    /\ \A q \in Request : pc[q] = "enqueue" <=> holds[q] # None
    /\ \A c \in Consumer : pc[c] = "report" => batches[c] # 0
OthersTyped ==
    /\ objects \subseteq Owner \X File
    /\ reader \in Download \cup {None}
    /\ lost \subseteq Download
    /\ failures \in 0 .. MaxFailures

\* The parts make up the type invariant.
LEMMA TypeParts ==
    TypeInv <=> RecordsTyped /\ QueueTyped /\ ProcessesTyped /\ OthersTyped
BY
   DEF TypeInv, TypeOK, OwnersKnown, RecordsTyped, QueueTyped, ProcessesTyped,
       OthersTyped

\* So do the parts of the next state.
LEMMA TypePartsNext ==
    RecordsTyped' /\ QueueTyped' /\ ProcessesTyped' /\ OthersTyped' => TypeInv'
BY
   DEF TypeInv, TypeOK, OwnersKnown, RecordsTyped, QueueTyped, ProcessesTyped,
       OthersTyped

\* Every step keeps the types.
LEMMA TypeStep == TypeInv /\ [Next]_vars => TypeInv'
<1> SUFFICES ASSUME TypeInv, [Next]_vars PROVE TypeInv'
  OBVIOUS
<1> USE ConstantAssumption
<1>0. /\ RecordsTyped /\ QueueTyped /\ ProcessesTyped /\ OthersTyped
      /\ \A q \in Request : q \in Process /\ q \notin Consumer
      /\ \A c \in Consumer : c \in Process /\ c \notin Request
  BY TypeParts DEF Process
<1>s. {"idle", "delete", "create", "enqueue", "guard", "start", "report",
       "upload", "finish", "failed"}
        = {"idle", "delete"} \cup RequestStep \cup JobStep
  BY DEF RequestStep, JobStep
<1>f. Fails => failures' \in 0 .. MaxFailures
  BY <1>0 DEF Fails, OthersTyped
<1>1. CASE UNCHANGED vars
  BY <1>1 DEF vars, processVars, TypeInv, TypeOK, OwnersKnown
<1>2. ASSUME NEW q \in Request, NEW o \in Owner, Replace(q, o) PROVE TypeInv'
  <2>1. RecordsTyped'
    BY <1>0, <1>2 DEF RecordsTyped, Replace, Record, NoRecord
  <2>2. QueueTyped'
    BY <1>0, <1>2 DEF QueueTyped, Replace
  <2>3. ProcessesTyped'
    BY <1>0, <1>s, <1>2 DEF ProcessesTyped, Replace
  <2>4. OthersTyped'
    BY <1>0, <1>2 DEF OthersTyped, Replace
  <2> QED BY <2>1, <2>2, <2>3, <2>4, TypePartsNext
<1>3. ASSUME NEW q \in Request, NEW d \in Download, Create(q, d) PROVE TypeInv'
  <2>1. RecordsTyped'
    BY <1>0, <1>3 DEF RecordsTyped, ProcessesTyped, Create, Record, NoRecord
  <2>2. QueueTyped'
    BY <1>0, <1>3 DEF QueueTyped, Create
  <2>3. ProcessesTyped'
    BY <1>0, <1>s, <1>3 DEF ProcessesTyped, Create
  <2>4. OthersTyped'
    BY <1>0, <1>3 DEF OthersTyped, Create
  <2> QED BY <2>1, <2>2, <2>3, <2>4, TypePartsNext
<1>4. ASSUME NEW q \in Request, Enqueue(q) PROVE TypeInv'
  <2>1. RecordsTyped'
    BY <1>0, <1>4 DEF RecordsTyped, Enqueue
  <2>2. QueueTyped'
    BY <1>4, SendTyped DEF QueueTyped, Enqueue
  <2>3. ProcessesTyped'
    BY <1>0, <1>4, RestTyped DEF ProcessesTyped, Enqueue
  <2>4. OthersTyped'
    BY <1>0, <1>4 DEF OthersTyped, Enqueue
  <2> QED BY <2>1, <2>2, <2>3, <2>4, TypePartsNext
<1>5. ASSUME NEW q \in Request, RequestFails(q) PROVE TypeInv'
  <2>1. RecordsTyped'
    BY <1>0, <1>5 DEF RecordsTyped, RequestFails
  <2>2. QueueTyped'
    BY <1>0, <1>5, SendTyped DEF QueueTyped, RequestFails
  <2>3. ProcessesTyped'
    BY <1>0, <1>5, RestTyped DEF ProcessesTyped, RequestFails
  <2>4. OthersTyped'
    BY <1>0, <1>f, <1>5 DEF OthersTyped, ProcessesTyped, Lose, RequestFails
  <2> QED BY <2>1, <2>2, <2>3, <2>4, TypePartsNext
<1>6. ASSUME NEW c \in Consumer, NEW d \in Download, Receive(c, d) PROVE TypeInv'
  <2>1. RecordsTyped'
    BY <1>0, <1>6 DEF RecordsTyped, Receive
  <2>2. QueueTyped'
    BY <1>0, <1>6 DEF QueueTyped, Slot, Receive
  <2>3. ProcessesTyped'
    BY <1>0, <1>s, <1>6 DEF ProcessesTyped, QueueTyped, Slot, Receive
  <2>4. OthersTyped'
    BY <1>0, <1>6 DEF OthersTyped, Receive
  <2> QED BY <2>1, <2>2, <2>3, <2>4, TypePartsNext
<1>7. ASSUME Replicate PROVE TypeInv'
  <2>1. RecordsTyped'
    BY <1>0, <1>7 DEF RecordsTyped, Replicate
  <2>2. QueueTyped'
    BY <1>0, <1>7 DEF QueueTyped, Slot, Replicate
  <2>3. ProcessesTyped'
    BY <1>0, <1>7 DEF ProcessesTyped, processVars, Replicate
  <2>4. OthersTyped'
    BY <1>0, <1>7 DEF OthersTyped, RecordsTyped, Generating, Replicate
  <2> QED BY <2>1, <2>2, <2>3, <2>4, TypePartsNext
<1>8. ASSUME NEW c \in Consumer, Guard(c) PROVE TypeInv'
  <2>1. RecordsTyped'
    BY <1>0, <1>8 DEF RecordsTyped, Guard
  <2>2. QueueTyped'
    BY <1>0, <1>8, HandledTyped DEF QueueTyped, Guard
  <2>3. ProcessesTyped'
    BY <1>0, <1>s, <1>8 DEF ProcessesTyped, Guard
  <2>4. OthersTyped'
    BY <1>0, <1>8 DEF OthersTyped, ProcessesTyped, Lose, Guard
  <2> QED BY <2>1, <2>2, <2>3, <2>4, TypePartsNext
<1>9. ASSUME NEW c \in Consumer, Start(c) PROVE TypeInv'
  <2>1. RecordsTyped'
    BY <1>0, <1>9, UpdateTyped
       DEF RecordsTyped, ProcessesTyped, Start, Update, Exists
  <2>2. QueueTyped'
    BY <1>0, <1>9 DEF QueueTyped, Start
  <2>3. ProcessesTyped'
    BY <1>0, <1>s, <1>9 DEF ProcessesTyped, Start
  <2>4. OthersTyped'
    BY <1>0, <1>9 DEF OthersTyped, Start
  <2> QED BY <2>1, <2>2, <2>3, <2>4, TypePartsNext
<1>10. ASSUME NEW c \in Consumer, Report(c) PROVE TypeInv'
  <2>1. RecordsTyped'
    BY <1>0, <1>10, UpdateTyped
       DEF RecordsTyped, ProcessesTyped, Report, Update, Exists
  <2>2. QueueTyped'
    BY <1>0, <1>10 DEF QueueTyped, Report
  <2>3. ProcessesTyped'
    BY <1>0, <1>s, <1>10 DEF ProcessesTyped, Report
  <2>4. OthersTyped'
    BY <1>0, <1>10 DEF OthersTyped, Report
  <2> QED BY <2>1, <2>2, <2>3, <2>4, TypePartsNext
<1>11. ASSUME NEW c \in Consumer, Upload(c) PROVE TypeInv'
  <2>1. RecordsTyped'
    BY <1>0, <1>11 DEF RecordsTyped, Upload
  <2>2. QueueTyped'
    BY <1>0, <1>11 DEF QueueTyped, Upload
  <2>3. ProcessesTyped'
    BY <1>0, <1>s, <1>11 DEF ProcessesTyped, Upload
  <2>4. OthersTyped'
    BY <1>0, <1>11 DEF OthersTyped, ProcessesTyped, Upload
  <2> QED BY <2>1, <2>2, <2>3, <2>4, TypePartsNext
<1>12. ASSUME NEW c \in Consumer, Finish(c) PROVE TypeInv'
  <2>1. RecordsTyped'
    <3>1. CASE UNCHANGED <<rec, newest>>
      BY <1>0, <3>1 DEF RecordsTyped
    <3>2. ASSUME Update(holds[c], [rec[holds[c]] EXCEPT !.status = "ready", !.files = files[c]])
          PROVE  RecordsTyped'
      <4> DEFINE d == holds[c]
                 r == [rec[d] EXCEPT !.status = "ready", !.files = files[c]]
      <4>1. d \in Download /\ rec[d] \in Record /\ files[c] \in SUBSET File
        BY <1>0, <1>12 DEF ProcessesTyped, RecordsTyped, Finish
      <4>2. r \in Record /\ r.owner = rec[d].owner /\ r.status # "none"
        BY <4>1 DEF Record
      <4> QED BY <3>2, <4>1, <4>2, UpdateTyped DEF RecordsTyped
    <3> QED BY <1>12, <3>1, <3>2 DEF Finish
  <2>2. QueueTyped'
    BY <1>0, <1>12, HandledTyped DEF QueueTyped, Finish
  <2>3. ProcessesTyped'
    BY <1>0, <1>s, <1>12 DEF ProcessesTyped, Finish
  <2>4. OthersTyped'
    BY <1>0, <1>12 DEF OthersTyped, Finish
  <2> QED BY <2>1, <2>2, <2>3, <2>4, TypePartsNext
<1>13. ASSUME NEW c \in Consumer, Throws(c) PROVE TypeInv'
  <2>1. RecordsTyped'
    BY <1>0, <1>13 DEF RecordsTyped, Throws
  <2>2. QueueTyped'
    BY <1>0, <1>13 DEF QueueTyped, Throws
  <2>3. ProcessesTyped'
    BY <1>0, <1>s, <1>13 DEF ProcessesTyped, JobStep, Throws
  <2>4. OthersTyped'
    BY <1>0, <1>f, <1>13 DEF OthersTyped, Throws
  <2> QED BY <2>1, <2>2, <2>3, <2>4, TypePartsNext
<1>14. ASSUME NEW c \in Consumer, MarkFailed(c) PROVE TypeInv'
  <2>1. RecordsTyped'
    <3>1. CASE UNCHANGED <<rec, newest>>
      BY <1>0, <3>1 DEF RecordsTyped
    <3>2. ASSUME Update(holds[c], [rec[holds[c]] EXCEPT !.status = "failed"])
          PROVE  RecordsTyped'
      <4> DEFINE d == holds[c]
                 r == [rec[d] EXCEPT !.status = "failed"]
      <4>1. d \in Download /\ rec[d] \in Record /\ files[c] \in SUBSET File
        BY <1>0, <1>14 DEF ProcessesTyped, RecordsTyped, MarkFailed
      <4>2. r \in Record /\ r.owner = rec[d].owner /\ r.status # "none"
        BY <4>1 DEF Record
      <4> QED BY <3>2, <4>1, <4>2, UpdateTyped DEF RecordsTyped
    <3> QED BY <1>14, <3>1, <3>2 DEF MarkFailed
  <2>2. QueueTyped'
    BY <1>0, <1>14, HandledTyped DEF QueueTyped, MarkFailed
  <2>3. ProcessesTyped'
    BY <1>0, <1>s, <1>14 DEF ProcessesTyped, MarkFailed
  <2>4. OthersTyped'
    BY <1>0, <1>f, <1>14 DEF OthersTyped, ProcessesTyped, Lose, MarkFailed
  <2> QED BY <2>1, <2>2, <2>3, <2>4, TypePartsNext
<1>15. ASSUME NEW c \in Consumer, Delete(c) PROVE TypeInv'
  <2>1. RecordsTyped'
    BY <1>0, <1>15 DEF RecordsTyped, Delete
  <2>2. QueueTyped'
    <3>1. EmptySlot \in Slot /\ EmptySlot.at = "absent"
      BY DEF Slot, EmptySlot
    <3>2. queue' = queue \/ queue' = [queue EXCEPT ![holds[c]] = EmptySlot]
      BY <1>15 DEF Delete
    <3>3. CASE queue' = queue
      BY <1>0, <3>3 DEF QueueTyped
    <3>4. CASE queue' = [queue EXCEPT ![holds[c]] = EmptySlot]
      BY <1>0, <3>1, <3>4 DEF QueueTyped
    <3> QED BY <3>2, <3>3, <3>4
  <2>3. ProcessesTyped'
    BY <1>0, <1>15, RestTyped DEF ProcessesTyped, Delete
  <2>4. OthersTyped'
    BY <1>0, <1>15 DEF OthersTyped, Delete
  <2> QED BY <2>1, <2>2, <2>3, <2>4, TypePartsNext
<1>16. ASSUME NEW c \in Consumer, JobLost(c) PROVE TypeInv'
  <2>1. RecordsTyped'
    BY <1>0, <1>16 DEF RecordsTyped, JobLost
  <2>2. QueueTyped'
    BY <1>0, <1>16 DEF QueueTyped, JobLost
  <2>3. ProcessesTyped'
    BY <1>0, <1>16, RestTyped DEF ProcessesTyped, JobLost
  <2>4. OthersTyped'
    BY <1>0, <1>f, <1>16 DEF OthersTyped, ProcessesTyped, Lose, JobLost
  <2> QED BY <2>1, <2>2, <2>3, <2>4, TypePartsNext
<1> QED
  BY <1>1, <1>2, <1>3, <1>4, <1>5, <1>6, <1>7, <1>8, <1>9, <1>10, <1>11, <1>12,
     <1>13, <1>14, <1>15, <1>16
     DEF Next, RequestProceeds, JobProceeds

\* The values of the model keep their types.
THEOREM DownloadTypeCorrect == Spec => []TypeOK
<1>1. TypeInv => TypeOK
  BY DEF TypeInv
<1> QED BY TypeInit, TypeStep, <1>1, PTL DEF Spec

-----------------------------------------------------------------------------
(* Whose records, messages and jobs                                        *)

\* A record has an owner while it exists, and is the newest of nobody else.
RecordsOwned ==
    /\ \A d \in Download : Exists(d) <=> rec[d].owner # None
    /\ \A o \in Owner : newest[o] # None => rec[newest[o]].owner = o

\* A message, and whoever works on a record, know its owner.  Only a job of the
\* administrators looks for another one.
OwnersAgree ==
    /\ \A d \in Download :
          queue[d].at # "absent" /\ Exists(d) => queue[d].owner = rec[d].owner
    /\ \A p \in Process :
          holds[p] # None /\ Exists(holds[p]) => for[p] = rec[holds[p]].owner
    /\ \A c \in Consumer : pc[c] = "guard" => for[c] = Admin

\* Nothing else holds a record whose message is about to be sent.
Sole ==
    \A q \in Request : pc[q] = "enqueue" =>
        /\ queue[holds[q]].at = "absent"
        /\ \A p \in Process \ {q} : holds[p] # holds[q]

OwnerInv == TypeInv /\ RecordsOwned /\ OwnersAgree /\ Sole

\* Nothing has an owner at first.
LEMMA OwnerInit == Init => OwnerInv
<1> SUFFICES ASSUME Init PROVE OwnerInv
  OBVIOUS
<1>1. TypeInv
  BY TypeInit
<1> QED BY <1>1, ConstantAssumption
        DEF Init, OwnerInv, RecordsOwned, OwnersAgree, Sole, Exists, NoRecord,
            EmptySlot, Process

\* What a write to a record does, and leaves alone.
LEMMA UpdateEffect ==
    ASSUME TypeInv, RecordsOwned, NEW d \in Download, NEW r \in Record,
           r.owner = rec[d].owner, r.status # "none", Update(d, r)
    PROVE  /\ rec[d].owner \in Owner /\ rec'[d] = r
           /\ newest'[rec[d].owner] = d
           /\ \A e \in Download \ {d} : rec'[e] = rec[e]
           /\ \A o \in Owner \ {rec[d].owner} : newest'[o] = newest[o]
           /\ \A e \in Download : rec'[e].owner = rec[e].owner
           /\ \A e \in Download : Exists(e)' <=> Exists(e)
           /\ RecordsOwned'
<1>1. rec[d].owner \in Owner
  BY DEF TypeInv, TypeOK, RecordsOwned, Record, Update
<1>2. /\ rec' = [rec EXCEPT ![d] = r] /\ newest' = [newest EXCEPT ![rec[d].owner] = d]
      /\ Exists(d)
  BY DEF Update
<1>3. /\ rec'[d] = r /\ newest'[rec[d].owner] = d
      /\ \A e \in Download \ {d} : rec'[e] = rec[e]
      /\ \A o \in Owner \ {rec[d].owner} : newest'[o] = newest[o]
  BY <1>1, <1>2 DEF TypeInv, TypeOK
<1>4. \A e \in Download : rec'[e].owner = rec[e].owner /\ (Exists(e)' <=> Exists(e))
  BY <1>2, <1>3 DEF Exists
<1>5. RecordsOwned'
  <2>1. \A e \in Download : Exists(e)' <=> rec'[e].owner # None
    BY <1>4 DEF RecordsOwned
  <2>2. ASSUME NEW o \in Owner, newest'[o] # None PROVE rec'[newest'[o]].owner = o
    <3>1. CASE o = rec[d].owner
      BY <3>1, <1>3
    <3>2. CASE o # rec[d].owner
      BY <3>2, <2>2, <1>3, <1>4 DEF TypeInv, TypeOK, RecordsOwned
    <3> QED BY <3>1, <3>2
  <2> QED BY <2>1, <2>2 DEF RecordsOwned
<1> QED BY <1>1, <1>3, <1>4, <1>5

\* What a job writes while it goes on, and when it ends.
LEMMA JobWrites ==
    ASSUME TypeInv, NEW c \in Consumer, pc[c] # "idle"
    PROVE  /\ holds[c] \in Download
           /\ Exists(holds[c]) =>
                 /\ rec[holds[c]] \in Record /\ rec[holds[c]].status # "none"
           /\ \A st \in {"ready", "failed"}, g \in SUBSET File :
                LET r == [rec[holds[c]] EXCEPT !.status = st, !.files = g]
                IN  r \in Record /\ r.owner = rec[holds[c]].owner /\ r.status = st
           /\ LET r == [rec[holds[c]] EXCEPT !.status = "failed"]
              IN  r \in Record /\ r.owner = rec[holds[c]].owner /\ r.status = "failed"
<1>1. holds[c] \in Download /\ rec[holds[c]] \in Record
  BY DEF TypeInv, TypeOK, Process
<1> QED BY <1>1 DEF Record, Exists


\* What keeps the owners of messages and processes.
LEMMA AgreeKept ==
    ASSUME OwnersAgree,
           \A d \in Download : Exists(d)' => Exists(d) /\ rec'[d].owner = rec[d].owner,
           \A d \in Download : queue'[d].at # "absent" =>
               queue[d].at # "absent" /\ queue'[d].owner = queue[d].owner,
           holds' \in [Process -> Download \cup {None}],
           \A p \in Process :
              holds'[p] = None \/ (holds'[p] = holds[p] /\ for'[p] = for[p]),
           \A c \in Consumer : pc'[c] = "guard" => pc[c] = "guard" /\ for'[c] = for[c]
    PROVE  OwnersAgree'
<1>1. ASSUME NEW p \in Process, holds'[p] # None, Exists(holds[p])'
      PROVE  for'[p] = rec'[holds'[p]].owner
  <2>1. holds'[p] \in Download /\ holds'[p] = holds[p] /\ for'[p] = for[p]
    BY <1>1
  <2> QED BY <1>1, <2>1 DEF OwnersAgree
<1> QED BY <1>1 DEF OwnersAgree, Exists

\* A request that is about to send has been so, and its message is untouched.
SendKept(q) ==
    pc'[q] = "enqueue" =>
        /\ pc[q] = "enqueue" /\ holds'[q] = holds[q] /\ holds[q] \in Download
        /\ queue'[holds[q]].at = queue[holds[q]].at

\* What keeps a message that is about to be sent alone.
LEMMA SoleKept ==
    ASSUME Sole, ConstantAssumption,
           \A q \in Request : SendKept(q),
           \A p \in Process : holds'[p] = holds[p] \/ holds'[p] = None
    PROVE  Sole'
BY DEF Sole, SendKept

\* Every step keeps owners apart.
LEMMA OwnerStep == OwnerInv /\ [Next]_vars => OwnerInv'
<1> SUFFICES ASSUME OwnerInv, [Next]_vars PROVE OwnerInv'
  OBVIOUS
<1> USE ConstantAssumption
<1>0. /\ TypeInv /\ RecordsOwned /\ OwnersAgree /\ Sole /\ TypeInv'
      /\ \A q \in Request : q \in Process /\ q \notin Consumer
      /\ \A c \in Consumer : c \in Process /\ c \notin Request
  BY TypeStep DEF OwnerInv, Process
<1>1. CASE UNCHANGED vars
  BY <1>0, <1>1
     DEF vars, processVars, OwnerInv, RecordsOwned, OwnersAgree, Sole, Exists
<1>2. ASSUME NEW q \in Request, NEW o \in Owner, Replace(q, o) PROVE OwnerInv'
  <2>1. RecordsOwned'
    BY <1>0, <1>2 DEF Replace, RecordsOwned, Exists, NoRecord, TypeInv, TypeOK
  <2>2. OwnersAgree'
    <3>1. \A d \in Download : Exists(d)' => Exists(d) /\ rec'[d].owner = rec[d].owner
      BY <1>0, <1>2 DEF Replace, Exists, NoRecord
    <3>2. holds[q] = None
      BY <1>0, <1>2 DEF Replace, TypeInv, OwnersKnown
    <3>3. \A p \in Process :
              holds'[p] = None \/ (holds'[p] = holds[p] /\ for'[p] = for[p])
      BY <1>0, <1>2, <3>2 DEF Replace, TypeInv, TypeOK
    <3>4. \A c \in Consumer : pc'[c] = "guard" => pc[c] = "guard" /\ for'[c] = for[c]
      BY <1>0, <1>2 DEF Replace, TypeInv, TypeOK
    <3> QED BY <1>0, <1>2, <3>1, <3>3, <3>4, AgreeKept
               DEF Replace, TypeInv, TypeOK
  <2>3. Sole'
    <3>1. \A p \in Request : SendKept(p)
      BY <1>0, <1>2
         DEF Replace, Sole, OwnersKnown, RequestStep, JobStep, TypeInv, TypeOK, SendKept
    <3>2. \A p \in Process : holds'[p] = holds[p] \/ holds'[p] = None
      BY <1>0, <1>2 DEF Replace
    <3> QED BY <1>0, <3>1, <3>2, SoleKept
  <2> QED BY <1>0, <2>1, <2>2, <2>3 DEF OwnerInv
<1>3. ASSUME NEW q \in Request, NEW d \in Download, Create(q, d) PROVE OwnerInv'
  <2>1. RecordsOwned'
    BY <1>0, <1>3 DEF Create, RecordsOwned, Exists, NoRecord, TypeInv, TypeOK
  <2>2. OwnersAgree'
    BY <1>0, <1>3 DEF Create, OwnersAgree, Exists, TypeInv, TypeOK
  <2>3. Sole'
    BY <1>0, <1>3 DEF Create, Sole, RequestStep, JobStep, TypeInv, TypeOK
  <2> QED BY <1>0, <2>1, <2>2, <2>3 DEF OwnerInv
<1>4. ASSUME NEW q \in Request, Enqueue(q) PROVE OwnerInv'
  <2>1. RecordsOwned'
    BY <1>0, <1>4 DEF Enqueue, RecordsOwned, Exists, NoRecord, TypeInv, TypeOK
  <2>2. OwnersAgree'
    <3>1. /\ holds[q] \in Download /\ for[q] \in Owner
          /\ Exists(holds[q]) => for[q] = rec[holds[q]].owner
      BY <1>0, <1>4 DEF Enqueue, OwnersAgree, OwnersKnown, TypeInv, TypeOK
    <3>2. \A d \in Download : queue'[d].at # "absent" /\ Exists(d) => queue'[d].owner = rec[d].owner
      BY <1>0, <1>4, <3>1 DEF Enqueue, Send, OwnersAgree, TypeInv, TypeOK
    <3>3. \A p \in Process :
              holds'[p] = None \/ (holds'[p] = holds[p] /\ for'[p] = for[p])
      BY <1>0, <1>4, RestTyped DEF Enqueue
    <3>4. \A c \in Consumer : pc'[c] = "guard" => pc[c] = "guard" /\ for'[c] = for[c]
      BY <1>0, <1>4, RestTyped DEF Enqueue
    <3> QED BY <1>0, <1>4, <3>2, <3>3, <3>4 DEF Enqueue, OwnersAgree, Exists
  <2>3. Sole'
    <3>1. ASSUME NEW p \in Request PROVE SendKept(p)
      <4> SUFFICES ASSUME pc'[p] = "enqueue"
                   PROVE  /\ pc[p] = "enqueue" /\ holds'[p] = holds[p]
                          /\ holds[p] \in Download
                          /\ queue'[holds[p]].at = queue[holds[p]].at
        BY DEF SendKept
      <4>1. p # q /\ pc[p] = "enqueue" /\ holds'[p] = holds[p]
        BY <1>0, <1>4, <3>1, RestTyped DEF Enqueue
      <4>2. holds[p] \in Download
        BY <1>0, <4>1 DEF TypeInv, TypeOK, OwnersKnown
      <4>3. holds[p] # holds[q]
        BY <1>0, <1>4, <4>1 DEF Enqueue, Sole
      <4> QED BY <1>0, <1>4, <4>1, <4>2, <4>3
                 DEF Enqueue, Send, TypeInv, TypeOK
    <3>2. \A p \in Process : holds'[p] = holds[p] \/ holds'[p] = None
      BY <1>0, <1>4, RestTyped DEF Enqueue
    <3> QED BY <1>0, <3>1, <3>2, SoleKept
  <2> QED BY <1>0, <2>1, <2>2, <2>3 DEF OwnerInv
<1>5. ASSUME NEW q \in Request, RequestFails(q) PROVE OwnerInv'
  <2>1. RecordsOwned'
    BY <1>0, <1>5
       DEF RequestFails, RecordsOwned, Exists, NoRecord, TypeInv, TypeOK
  <2>2. OwnersAgree'
    <3>1. CASE pc[q] = "enqueue" /\ Send(q)
      BY <1>0, <1>5, <3>1, RestTyped
         DEF RequestFails, Send, OwnersAgree, Exists, TypeInv, TypeOK
    <3>2. CASE UNCHANGED queue
      BY <1>0, <1>5, <3>2, RestTyped, AgreeKept
         DEF RequestFails, Exists, TypeInv, TypeOK
    <3> QED BY <1>5, <3>1, <3>2 DEF RequestFails
  <2>3. Sole'
    <3>1. \A p \in Request : SendKept(p)
      BY <1>0, <1>5, RestTyped
         DEF RequestFails, Send, Sole, OwnersKnown, RequestStep, JobStep,
             TypeInv, TypeOK, SendKept
    <3>2. \A p \in Process : holds'[p] = holds[p] \/ holds'[p] = None
      BY <1>0, <1>5, RestTyped DEF RequestFails, Send
    <3> QED BY <1>0, <3>1, <3>2, SoleKept
  <2> QED BY <1>0, <2>1, <2>2, <2>3 DEF OwnerInv
<1>6. ASSUME NEW c \in Consumer, NEW d \in Download, Receive(c, d) PROVE OwnerInv'
  <2>1. RecordsOwned'
    BY <1>0, <1>6 DEF Receive, RecordsOwned, Exists, NoRecord, TypeInv, TypeOK
  <2>2. OwnersAgree'
    BY <1>0, <1>6 DEF Receive, OwnersAgree, Exists, TypeInv, TypeOK
  <2>3. Sole'
    BY <1>0, <1>6 DEF Receive, Sole, RequestStep, JobStep, TypeInv, TypeOK
  <2> QED BY <1>0, <2>1, <2>2, <2>3 DEF OwnerInv
<1>7. ASSUME Replicate PROVE OwnerInv'
  <2>1. RecordsOwned'
    BY <1>0, <1>7 DEF Replicate, RecordsOwned, Exists, NoRecord, TypeInv, TypeOK
  <2>2. OwnersAgree'
    BY <1>0, <1>7, AgreeKept
       DEF Replicate, processVars, Exists, NoRecord, TypeInv, TypeOK
  <2>3. Sole'
    <3>1. \A p \in Request : SendKept(p)
      BY <1>0, <1>7
         DEF Replicate, processVars, Sole, OwnersKnown, RequestStep, JobStep,
             TypeInv, TypeOK, SendKept
    <3>2. \A p \in Process : holds'[p] = holds[p] \/ holds'[p] = None
      BY <1>0, <1>7 DEF Replicate, processVars
    <3> QED BY <1>0, <3>1, <3>2, SoleKept
  <2> QED BY <1>0, <2>1, <2>2, <2>3 DEF OwnerInv
<1>8. ASSUME NEW c \in Consumer, Guard(c) PROVE OwnerInv'
  <2>h. \A e \in Download : /\ queue'[e].at = queue[e].at
                               /\ queue'[e].owner = queue[e].owner
    BY <1>0, <1>8, HandledTyped DEF Guard
  <2>1. RecordsOwned'
    BY <1>0, <1>8, <2>h
       DEF Guard, RecordsOwned, Exists, NoRecord, TypeInv, TypeOK
  <2>2. OwnersAgree'
    BY <1>0, <1>8, <2>h, AgreeKept DEF Guard, Exists, NoRecord, TypeInv, TypeOK
  <2>3. Sole'
    <3>1. \A p \in Request : SendKept(p)
      BY <1>0, <1>8, <2>h
         DEF Guard, Sole, OwnersKnown, RequestStep, JobStep, TypeInv, TypeOK, SendKept
    <3>2. \A p \in Process : holds'[p] = holds[p] \/ holds'[p] = None
      BY <1>0, <1>8, <2>h DEF Guard
    <3> QED BY <1>0, <3>1, <3>2, SoleKept
  <2> QED BY <1>0, <2>1, <2>2, <2>3 DEF OwnerInv
<1>9. ASSUME NEW c \in Consumer, Start(c) PROVE OwnerInv'
  <2>a. /\ RecordsOwned'
        /\ \A e \in Download : rec'[e].owner = rec[e].owner /\ (Exists(e)' <=> Exists(e))
    <3>1. pc[c] # "idle"
      BY <1>9 DEF Start
    <3>2. CASE UNCHANGED <<rec, newest>>
      BY <1>0, <3>2 DEF RecordsOwned, Exists
    <3>3. ASSUME NEW r, Update(holds[c], r), r \in Record,
                 r.owner = rec[holds[c]].owner, r.status # "none"
          PROVE  /\ RecordsOwned'
                 /\ \A e \in Download : rec'[e].owner = rec[e].owner /\ (Exists(e)' <=> Exists(e))
      BY <1>0, <3>1, <3>3, JobWrites, UpdateEffect
    <3>4. Update(holds[c], rec[holds[c]])
      BY <1>9 DEF Start
    <3>5. Exists(holds[c])
      BY <3>4 DEF Update
    <3> QED BY <1>0, <3>1, <3>3, <3>4, <3>5, JobWrites
  <2>1. RecordsOwned'
    BY <1>0, <1>9, <2>a
       DEF Start, RecordsOwned, Exists, NoRecord, TypeInv, TypeOK
  <2>2. OwnersAgree'
    BY <1>0, <1>9, <2>a, AgreeKept DEF Start, Exists, NoRecord, TypeInv, TypeOK
  <2>3. Sole'
    <3>1. \A p \in Request : SendKept(p)
      BY <1>0, <1>9, <2>a
         DEF Start, Sole, OwnersKnown, RequestStep, JobStep, TypeInv, TypeOK, SendKept
    <3>2. \A p \in Process : holds'[p] = holds[p] \/ holds'[p] = None
      BY <1>0, <1>9, <2>a DEF Start
    <3> QED BY <1>0, <3>1, <3>2, SoleKept
  <2> QED BY <1>0, <2>1, <2>2, <2>3 DEF OwnerInv
<1>10. ASSUME NEW c \in Consumer, Report(c) PROVE OwnerInv'
  <2>a. /\ RecordsOwned'
        /\ \A e \in Download : rec'[e].owner = rec[e].owner /\ (Exists(e)' <=> Exists(e))
    <3>1. pc[c] # "idle"
      BY <1>10 DEF Report
    <3>2. CASE UNCHANGED <<rec, newest>>
      BY <1>0, <3>2 DEF RecordsOwned, Exists
    <3>3. ASSUME NEW r, Update(holds[c], r), r \in Record,
                 r.owner = rec[holds[c]].owner, r.status # "none"
          PROVE  /\ RecordsOwned'
                 /\ \A e \in Download : rec'[e].owner = rec[e].owner /\ (Exists(e)' <=> Exists(e))
      BY <1>0, <3>1, <3>3, JobWrites, UpdateEffect
    <3>4. Update(holds[c], rec[holds[c]])
      BY <1>10 DEF Report
    <3>5. Exists(holds[c])
      BY <3>4 DEF Update
    <3> QED BY <1>0, <3>1, <3>3, <3>4, <3>5, JobWrites
  <2>1. RecordsOwned'
    BY <1>0, <1>10, <2>a
       DEF Report, RecordsOwned, Exists, NoRecord, TypeInv, TypeOK
  <2>2. OwnersAgree'
    BY <1>0, <1>10, <2>a, AgreeKept
       DEF Report, Exists, NoRecord, TypeInv, TypeOK
  <2>3. Sole'
    <3>1. \A p \in Request : SendKept(p)
      BY <1>0, <1>10, <2>a
         DEF Report, Sole, OwnersKnown, RequestStep, JobStep, TypeInv, TypeOK, SendKept
    <3>2. \A p \in Process : holds'[p] = holds[p] \/ holds'[p] = None
      BY <1>0, <1>10, <2>a DEF Report
    <3> QED BY <1>0, <3>1, <3>2, SoleKept
  <2> QED BY <1>0, <2>1, <2>2, <2>3 DEF OwnerInv
<1>11. ASSUME NEW c \in Consumer, Upload(c) PROVE OwnerInv'
  <2>1. RecordsOwned'
    BY <1>0, <1>11 DEF Upload, RecordsOwned, Exists, NoRecord, TypeInv, TypeOK
  <2>2. OwnersAgree'
    BY <1>0, <1>11, AgreeKept DEF Upload, Exists, NoRecord, TypeInv, TypeOK
  <2>3. Sole'
    <3>1. \A p \in Request : SendKept(p)
      BY <1>0, <1>11
         DEF Upload, Sole, OwnersKnown, RequestStep, JobStep, TypeInv, TypeOK, SendKept
    <3>2. \A p \in Process : holds'[p] = holds[p] \/ holds'[p] = None
      BY <1>0, <1>11 DEF Upload
    <3> QED BY <1>0, <3>1, <3>2, SoleKept
  <2> QED BY <1>0, <2>1, <2>2, <2>3 DEF OwnerInv
<1>12. ASSUME NEW c \in Consumer, Finish(c) PROVE OwnerInv'
  <2>a. /\ RecordsOwned'
        /\ \A e \in Download : rec'[e].owner = rec[e].owner /\ (Exists(e)' <=> Exists(e))
    <3>1. pc[c] # "idle"
      BY <1>12 DEF Finish
    <3>2. CASE UNCHANGED <<rec, newest>>
      BY <1>0, <3>2 DEF RecordsOwned, Exists
    <3>3. ASSUME NEW r, Update(holds[c], r), r \in Record,
                 r.owner = rec[holds[c]].owner, r.status # "none"
          PROVE  /\ RecordsOwned'
                 /\ \A e \in Download : rec'[e].owner = rec[e].owner /\ (Exists(e)' <=> Exists(e))
      BY <1>0, <3>1, <3>3, JobWrites, UpdateEffect
    <3> QED BY <1>0, <1>12, <3>1, <3>2, <3>3, JobWrites
               DEF Finish, Update, TypeInv, TypeOK
  <2>h. \A e \in Download : /\ queue'[e].at = queue[e].at
                               /\ queue'[e].owner = queue[e].owner
    BY <1>0, <1>12, <2>a, HandledTyped DEF Finish
  <2>1. RecordsOwned'
    BY <1>0, <1>12, <2>a, <2>h
       DEF Finish, RecordsOwned, Exists, NoRecord, TypeInv, TypeOK
  <2>2. OwnersAgree'
    BY <1>0, <1>12, <2>a, <2>h, AgreeKept
       DEF Finish, Exists, NoRecord, TypeInv, TypeOK
  <2>3. Sole'
    <3>1. \A p \in Request : SendKept(p)
      BY <1>0, <1>12, <2>a, <2>h
         DEF Finish, Sole, OwnersKnown, RequestStep, JobStep, TypeInv, TypeOK, SendKept
    <3>2. \A p \in Process : holds'[p] = holds[p] \/ holds'[p] = None
      BY <1>0, <1>12, <2>a, <2>h DEF Finish
    <3> QED BY <1>0, <3>1, <3>2, SoleKept
  <2> QED BY <1>0, <2>1, <2>2, <2>3 DEF OwnerInv
<1>13. ASSUME NEW c \in Consumer, Throws(c) PROVE OwnerInv'
  <2>1. RecordsOwned'
    BY <1>0, <1>13 DEF Throws, RecordsOwned, Exists, NoRecord, TypeInv, TypeOK
  <2>2. OwnersAgree'
    BY <1>0, <1>13, AgreeKept DEF Throws, Exists, NoRecord, TypeInv, TypeOK
  <2>3. Sole'
    <3>1. \A p \in Request : SendKept(p)
      BY <1>0, <1>13
         DEF Throws, Sole, OwnersKnown, RequestStep, JobStep, TypeInv, TypeOK, SendKept
    <3>2. \A p \in Process : holds'[p] = holds[p] \/ holds'[p] = None
      BY <1>0, <1>13 DEF Throws
    <3> QED BY <1>0, <3>1, <3>2, SoleKept
  <2> QED BY <1>0, <2>1, <2>2, <2>3 DEF OwnerInv
<1>14. ASSUME NEW c \in Consumer, MarkFailed(c) PROVE OwnerInv'
  <2>a. /\ RecordsOwned'
        /\ \A e \in Download : rec'[e].owner = rec[e].owner /\ (Exists(e)' <=> Exists(e))
    <3>1. pc[c] # "idle"
      BY <1>14 DEF MarkFailed
    <3>2. CASE UNCHANGED <<rec, newest>>
      BY <1>0, <3>2 DEF RecordsOwned, Exists
    <3>3. ASSUME NEW r, Update(holds[c], r), r \in Record,
                 r.owner = rec[holds[c]].owner, r.status # "none"
          PROVE  /\ RecordsOwned'
                 /\ \A e \in Download : rec'[e].owner = rec[e].owner /\ (Exists(e)' <=> Exists(e))
      BY <1>0, <3>1, <3>3, JobWrites, UpdateEffect
    <3> QED BY <1>0, <1>14, <3>1, <3>2, <3>3, JobWrites
               DEF MarkFailed, Update, TypeInv, TypeOK
  <2>h. \A e \in Download : /\ queue'[e].at = queue[e].at
                               /\ queue'[e].owner = queue[e].owner
    BY <1>0, <1>14, <2>a, HandledTyped DEF MarkFailed
  <2>1. RecordsOwned'
    BY <1>0, <1>14, <2>a, <2>h
       DEF MarkFailed, RecordsOwned, Exists, NoRecord, TypeInv, TypeOK
  <2>2. OwnersAgree'
    BY <1>0, <1>14, <2>a, <2>h, AgreeKept
       DEF MarkFailed, Exists, NoRecord, TypeInv, TypeOK
  <2>3. Sole'
    <3>1. \A p \in Request : SendKept(p)
      BY <1>0, <1>14, <2>a, <2>h
         DEF MarkFailed, Sole, OwnersKnown, RequestStep, JobStep, TypeInv,
             TypeOK, SendKept
    <3>2. \A p \in Process : holds'[p] = holds[p] \/ holds'[p] = None
      BY <1>0, <1>14, <2>a, <2>h DEF MarkFailed
    <3> QED BY <1>0, <3>1, <3>2, SoleKept
  <2> QED BY <1>0, <2>1, <2>2, <2>3 DEF OwnerInv
<1>15. ASSUME NEW c \in Consumer, Delete(c) PROVE OwnerInv'
  <2>1. RecordsOwned'
    BY <1>0, <1>15 DEF Delete, RecordsOwned, Exists, NoRecord, TypeInv, TypeOK
  <2>2. OwnersAgree'
    <3>1. \A d \in Download : queue'[d].at # "absent" =>
              queue[d].at # "absent" /\ queue'[d].owner = queue[d].owner
      BY <1>0, <1>15 DEF Delete, Slot, EmptySlot, TypeInv, TypeOK
    <3>2. /\ \A d \in Download : Exists(d)' => Exists(d) /\ rec'[d].owner = rec[d].owner
          /\ holds' \in [Process -> Download \cup {None}]
      BY <1>0, <1>15, RestTyped DEF Delete, Exists
    <3>3. /\ \A p \in Process :
              holds'[p] = None \/ (holds'[p] = holds[p] /\ for'[p] = for[p])
      BY <1>0, <1>15, RestTyped DEF Delete
    <3>4. \A b \in Consumer : pc'[b] = "guard" => pc[b] = "guard" /\ for'[b] = for[b]
      BY <1>0, <1>15, RestTyped DEF Delete
    <3> QED BY <1>0, <3>1, <3>2, <3>3, <3>4, AgreeKept
  <2>3. Sole'
    <3>1. \A p \in Request : SendKept(p)
      BY <1>0, <1>15, RestTyped
         DEF Delete, Sole, OwnersKnown, RequestStep, JobStep, TypeInv, TypeOK, SendKept
    <3>2. \A p \in Process : holds'[p] = holds[p] \/ holds'[p] = None
      BY <1>0, <1>15, RestTyped DEF Delete
    <3> QED BY <1>0, <3>1, <3>2, SoleKept
  <2> QED BY <1>0, <2>1, <2>2, <2>3 DEF OwnerInv
<1>16. ASSUME NEW c \in Consumer, JobLost(c) PROVE OwnerInv'
  <2>1. RecordsOwned'
    BY <1>0, <1>16 DEF JobLost, RecordsOwned, Exists, NoRecord, TypeInv, TypeOK
  <2>2. OwnersAgree'
    BY <1>0, <1>16, RestTyped, AgreeKept
       DEF JobLost, Exists, NoRecord, TypeInv, TypeOK
  <2>3. Sole'
    <3>1. \A p \in Request : SendKept(p)
      BY <1>0, <1>16, RestTyped
         DEF JobLost, Sole, OwnersKnown, RequestStep, JobStep, TypeInv, TypeOK, SendKept
    <3>2. \A p \in Process : holds'[p] = holds[p] \/ holds'[p] = None
      BY <1>0, <1>16, RestTyped DEF JobLost
    <3> QED BY <1>0, <3>1, <3>2, SoleKept
  <2> QED BY <1>0, <2>1, <2>2, <2>3 DEF OwnerInv
<1> QED
  BY <1>1, <1>2, <1>3, <1>4, <1>5, <1>6, <1>7, <1>8, <1>9, <1>10, <1>11, <1>12,
     <1>13, <1>14, <1>15, <1>16
     DEF Next, RequestProceeds, JobProceeds

\* Owners are kept apart in every reachable state.
LEMMA OwnerCorrect == Spec => []OwnerInv
BY OwnerInit, OwnerStep, PTL DEF Spec

-----------------------------------------------------------------------------
(* The files of a download                                                 *)

\* Files are put before they are named: first by the job, then by the record.
FilesPut ==
    /\ ReadyFilesExist
    /\ \A c \in Consumer : \A f \in files[c] : <<for[c], f>> \in objects
    /\ \A c \in Consumer : pc[c] # "finish" => files[c] = {}

\* Nothing offers a file at first.
LEMMA FilesInit == Init => FilesPut
BY ConstantAssumption DEF Init, FilesPut, ReadyFilesExist, NoRecord, Process

\* Every step keeps files that are named in the bucket.
LEMMA FilesStep == OwnerInv /\ FilesPut /\ [Next]_vars => FilesPut'
<1> SUFFICES ASSUME OwnerInv, FilesPut, [Next]_vars PROVE FilesPut'
  OBVIOUS
<1> USE ConstantAssumption
<1>0. /\ TypeInv /\ RecordsOwned /\ OwnersAgree /\ FilesPut
      /\ \A q \in Request : q \in Process /\ q \notin Consumer
      /\ \A c \in Consumer : c \in Process /\ c \notin Request
  BY DEF OwnerInv, Process
<1>1. CASE UNCHANGED vars
  BY <1>0, <1>1 DEF vars, processVars, FilesPut, ReadyFilesExist
<1>2. ASSUME NEW q \in Request, NEW o \in Owner, Replace(q, o) PROVE FilesPut'
  <2>1. \A d1 \in Download : rec'[d1] = rec[d1] \/ rec'[d1].files = {}
    BY <1>0, <1>2 DEF Replace, NoRecord, TypeInv, TypeOK
  <2> QED BY <1>0, <1>2, <2>1
             DEF Replace, FilesPut, ReadyFilesExist, TypeInv, TypeOK
<1>3. ASSUME NEW q \in Request, NEW d \in Download, Create(q, d) PROVE FilesPut'
  <2>1. \A d1 \in Download : rec'[d1] = rec[d1] \/ rec'[d1].files = {}
    BY <1>0, <1>3 DEF Create, NoRecord, TypeInv, TypeOK
  <2> QED BY <1>0, <1>3, <2>1
             DEF Create, FilesPut, ReadyFilesExist, TypeInv, TypeOK
<1>4. ASSUME NEW q \in Request, Enqueue(q) PROVE FilesPut'
  <2>1. \A p \in Process :
              (pc'[p] = pc[p] /\ for'[p] = for[p] /\ files'[p] = files[p]) \/ files'[p] = {}
    BY <1>0, <1>4, RestTyped DEF Enqueue, Rest, TypeInv, TypeOK
  <2> QED BY <1>0, <1>4, <2>1 DEF Enqueue, FilesPut, ReadyFilesExist
<1>5. ASSUME NEW q \in Request, RequestFails(q) PROVE FilesPut'
  <2>1. \A p \in Process :
              (pc'[p] = pc[p] /\ for'[p] = for[p] /\ files'[p] = files[p]) \/ files'[p] = {}
    BY <1>0, <1>5, RestTyped DEF RequestFails, Rest, TypeInv, TypeOK
  <2> QED BY <1>0, <1>5, <2>1 DEF RequestFails, FilesPut, ReadyFilesExist
<1>6. ASSUME NEW c \in Consumer, NEW d \in Download, Receive(c, d) PROVE FilesPut'
  BY <1>0, <1>6 DEF Receive, FilesPut, ReadyFilesExist, TypeInv, TypeOK
<1>7. ASSUME Replicate PROVE FilesPut'
  BY <1>0, <1>7
     DEF Replicate, processVars, FilesPut, ReadyFilesExist, TypeInv, TypeOK
<1>8. ASSUME NEW c \in Consumer, Guard(c) PROVE FilesPut'
  BY <1>0, <1>8 DEF Guard, FilesPut, ReadyFilesExist, TypeInv, TypeOK
<1>9. ASSUME NEW c \in Consumer, Start(c) PROVE FilesPut'
  <2>1. holds[c] \in Download /\ rec' = [rec EXCEPT ![holds[c]] = rec[holds[c]]]
    BY <1>0, <1>9 DEF Start, Update, TypeInv, TypeOK
  <2>2. rec' = rec
    BY <1>0, <2>1 DEF TypeInv, TypeOK
  <2> QED BY <1>0, <1>9, <2>2
             DEF Start, FilesPut, ReadyFilesExist, TypeInv, TypeOK
<1>10. ASSUME NEW c \in Consumer, Report(c) PROVE FilesPut'
  <2>1. holds[c] \in Download /\ rec' = [rec EXCEPT ![holds[c]] = rec[holds[c]]]
    BY <1>0, <1>10 DEF Report, Update, TypeInv, TypeOK
  <2>2. rec' = rec
    BY <1>0, <2>1 DEF TypeInv, TypeOK
  <2> QED BY <1>0, <1>10, <2>2
             DEF Report, FilesPut, ReadyFilesExist, TypeInv, TypeOK
<1>11. ASSUME NEW c \in Consumer, Upload(c) PROVE FilesPut'
  BY <1>0, <1>11 DEF Upload, FilesPut, ReadyFilesExist, TypeInv, TypeOK
<1>12. ASSUME NEW c \in Consumer, Finish(c) PROVE FilesPut'
  <2> DEFINE d == holds[c]
  <2>1. /\ d \in Download /\ rec[d] \in Record /\ Exists(d)
        /\ rec' = [rec EXCEPT ![d] = [rec[d] EXCEPT !.status = "ready", !.files = files[c]]]
    BY <1>0, <1>12 DEF Finish, Update, TypeInv, TypeOK
  <2>2. /\ rec'[d].owner = rec[d].owner /\ rec'[d].files = files[c]
        /\ \A e \in Download \ {d} : rec'[e] = rec[e]
    BY <1>0, <2>1 DEF Record, TypeInv, TypeOK
  <2>3. for[c] = rec[d].owner
    BY <1>0, <2>1 DEF OwnersAgree, TypeInv, TypeOK
  <2>4. ReadyFilesExist'
    BY <1>0, <1>12, <2>1, <2>2, <2>3 DEF Finish, FilesPut, ReadyFilesExist
  <2> QED BY <1>0, <1>12, <2>4 DEF Finish, FilesPut, TypeInv, TypeOK
<1>13. ASSUME NEW c \in Consumer, Throws(c) PROVE FilesPut'
  BY <1>0, <1>13 DEF Throws, FilesPut, ReadyFilesExist, TypeInv, TypeOK
<1>14. ASSUME NEW c \in Consumer, MarkFailed(c) PROVE FilesPut'
  <2>1. \A d \in Download : rec'[d].owner = rec[d].owner /\ rec'[d].files = rec[d].files
    BY <1>0, <1>14 DEF MarkFailed, Update, Record, TypeInv, TypeOK
  <2> QED BY <1>0, <1>14, <2>1
             DEF MarkFailed, FilesPut, ReadyFilesExist, TypeInv, TypeOK
<1>15. ASSUME NEW c \in Consumer, Delete(c) PROVE FilesPut'
  <2>1. \A p \in Process :
              (pc'[p] = pc[p] /\ for'[p] = for[p] /\ files'[p] = files[p]) \/ files'[p] = {}
    BY <1>0, <1>15, RestTyped DEF Delete, Rest, TypeInv, TypeOK
  <2> QED BY <1>0, <1>15, <2>1 DEF Delete, FilesPut, ReadyFilesExist
<1>16. ASSUME NEW c \in Consumer, JobLost(c) PROVE FilesPut'
  <2>1. \A p \in Process :
              (pc'[p] = pc[p] /\ for'[p] = for[p] /\ files'[p] = files[p]) \/ files'[p] = {}
    BY <1>0, <1>16, RestTyped DEF JobLost, Rest, TypeInv, TypeOK
  <2> QED BY <1>0, <1>16, <2>1 DEF JobLost, FilesPut, ReadyFilesExist
<1> QED
  BY <1>1, <1>2, <1>3, <1>4, <1>5, <1>6, <1>7, <1>8, <1>9, <1>10, <1>11, <1>12,
     <1>13, <1>14, <1>15, <1>16
     DEF Next, RequestProceeds, JobProceeds

\* A ready record offers no file that is not in the bucket under its owner's
\* keys, whatever other jobs of the owner put there (programme-service.js).
THEOREM ReadyFilesAreThere == Spec => []ReadyFilesExist
<1>1. FilesPut => ReadyFilesExist
  BY DEF FilesPut
<1> QED BY OwnerCorrect, FilesInit, FilesStep, <1>1, PTL DEF Spec

-----------------------------------------------------------------------------
(* What is shown as being generated                                        *)

\* A record that its owner waits for is about to be queued, queued or worked on.
WorkedOn ==
    \A d \in Download : Waits(d) =>
        \/ queue[d].at # "absent"
        \/ \E q \in Request : pc[q] = "enqueue" /\ holds[q] = d
        \/ \E c \in Consumer : Working(c, d)

\* A job that is about to delete its message has said how it ended, and leaves
\* a record that its owner waits for to another copy of the job.
Ended ==
    \A c \in Consumer : pc[c] = "delete" =>
        /\ queue[holds[c]].at = "absent" \/ queue[holds[c]].handled
        /\ Waits(holds[c]) => \E b \in Consumer : Working(b, holds[c])

WorkInv == OwnerInv /\ WorkedOn /\ Ended

\* Nothing is being generated at first.
LEMMA WorkInit == Init => WorkInv
<1> SUFFICES ASSUME Init PROVE WorkInv
  OBVIOUS
<1>1. OwnerInv
  BY OwnerInit
<1> QED BY <1>1 DEF Init, WorkInv, WorkedOn, Ended, Waits, NoRecord, Process

\* A job that is about to delete its message has been so, and a message that
\* had gone or was handled still is.
EndKept(b) ==
    pc'[b] = "delete" =>
        /\ pc[b] = "delete" /\ holds'[b] = holds[b] /\ holds[b] \in Download
        /\ queue[holds[b]].at = "absent" \/ queue[holds[b]].handled
              => queue'[holds[b]].at = "absent" \/ queue'[holds[b]].handled

\* What keeps a job's end.
LEMMA EndedKept ==
    ASSUME TypeInv, TypeInv', Ended, NEW S \in SUBSET Consumer,
           \A b \in Consumer \ S : EndKept(b),
           \A d \in Download : Waits(d)' =>
               /\ Waits(d)
               /\ \A b \in Consumer : Working(b, d) => Working(b, d)',
           \A b \in S : pc'[b] = "delete" =>
               /\ queue'[holds'[b]].at = "absent" \/ queue'[holds'[b]].handled
               /\ \A d \in Download : d = holds'[b] => ~Waits(d)'
    PROVE  Ended'
<1> SUFFICES ASSUME NEW b \in Consumer, pc'[b] = "delete"
             PROVE  /\ queue'[holds'[b]].at = "absent" \/ queue'[holds'[b]].handled
                    /\ \A d \in Download : d = holds'[b] /\ Waits(d)'
                          => \E a \in Consumer : Working(a, d)'
  <2>1. \A b \in Consumer : pc'[b] = "delete" => holds'[b] \in Download
    BY DEF TypeInv, TypeOK, Process
  <2> QED BY <2>1 DEF Ended, Waits, Working
<1>1. CASE b \in S
  BY <1>1 DEF TypeInv, TypeOK, Process
<1>2. CASE b \notin S
  <2>1. /\ holds'[b] = holds[b] /\ holds[b] \in Download
        /\ queue'[holds[b]].at = "absent" \/ queue'[holds[b]].handled
        /\ Waits(holds[b]) => \E a \in Consumer : Working(a, holds[b])
    BY <1>2 DEF Ended, EndKept
  <2>2. ASSUME NEW d \in Download, d = holds'[b], Waits(d)'
        PROVE  \E a \in Consumer : Working(a, d)'
    <3>1. Waits(d) /\ \A a \in Consumer : Working(a, d) => Working(a, d)'
      BY <2>2
    <3>2. \E a \in Consumer : Working(a, d)
      BY <2>1, <2>2, <3>1
    <3> QED BY <3>1, <3>2
  <2> QED BY <2>1, <2>2
<1> QED BY <1>1, <1>2

\* What keeps a record that is waited for at work.
LEMMA WorkedOnKept ==
    ASSUME TypeInv, WorkedOn,
           \A d \in Download : Waits(d)' =>
               \/ queue'[d].at # "absent"
               \/ \E q \in Request : pc'[q] = "enqueue" /\ holds'[q] = d
               \/ \E c \in Consumer : Working(c, d)'
               \/ /\ Waits(d) /\ queue'[d].at = queue[d].at
                  /\ \A q \in Request : pc[q] = "enqueue" /\ holds[q] = d
                        => pc'[q] = "enqueue" /\ holds'[q] = d
                  /\ \A c \in Consumer : Working(c, d) => Working(c, d)'
    PROVE  WorkedOn'
BY DEF WorkedOn

\* Every step keeps what is waited for at work.
LEMMA WorkStep == WorkInv /\ [Next]_vars => WorkInv'
<1> SUFFICES ASSUME WorkInv, [Next]_vars PROVE WorkInv'
  OBVIOUS
<1> USE ConstantAssumption
<1>0. /\ TypeInv /\ RecordsOwned /\ OwnersAgree /\ Sole /\ WorkedOn /\ Ended
      /\ OwnerInv' /\ TypeInv'
      /\ \A q \in Request : q \in Process /\ q \notin Consumer
      /\ \A c \in Consumer : c \in Process /\ c \notin Request
  BY OwnerStep DEF WorkInv, OwnerInv, Process
<1>1. CASE UNCHANGED vars
  BY <1>0, <1>1 DEF vars, processVars, WorkInv, WorkedOn, Ended, Waits, Working
<1>2. ASSUME NEW q \in Request, NEW o \in Owner, Replace(q, o) PROVE WorkInv'
  <2>w. \A e \in Download : Waits(e)' => Waits(e)
    BY <1>0, <1>2
       DEF Replace, Waits, Exists, RecordsOwned, NoRecord, Record, TypeInv,
           TypeOK
  <2>1. WorkedOn'
    BY <1>0, <1>2, <2>w
       DEF Replace, WorkedOn, Working, JobStep, TypeInv, TypeOK
  <2>2. Ended'
    BY <1>0, <1>2, <2>w DEF Replace, Ended, Working, JobStep, TypeInv, TypeOK
  <2> QED BY <1>0, <2>1, <2>2 DEF WorkInv
<1>3. ASSUME NEW q \in Request, NEW d \in Download, Create(q, d) PROVE WorkInv'
  <2>w. \A e \in Download : e # d /\ Waits(e)' => Waits(e)
    BY <1>0, <1>3
       DEF Create, Waits, Exists, RecordsOwned, NoRecord, Record, TypeInv,
           TypeOK
  <2>1. WorkedOn'
    BY <1>0, <1>3, <2>w DEF Create, WorkedOn, Working, JobStep, TypeInv, TypeOK
  <2>2. Ended'
    BY <1>0, <1>3, <2>w DEF Create, Ended, Working, JobStep, TypeInv, TypeOK
  <2> QED BY <1>0, <2>1, <2>2 DEF WorkInv
<1>4. ASSUME NEW q \in Request, Enqueue(q) PROVE WorkInv'
  <2>w. \A e \in Download : Waits(e)' => Waits(e)
    BY <1>0, <1>4, RestTyped
       DEF Enqueue, Waits, Exists, RecordsOwned, NoRecord, Record, TypeInv,
           TypeOK
  <2>d. \A p \in Process \ {q} : pc'[p] = pc[p] /\ holds'[p] = holds[p]
    BY <1>0, <1>4, RestTyped DEF Enqueue
  <2>e. pc'[q] = "idle" /\ holds'[q] = None
    BY <1>0, <1>4, RestTyped DEF Enqueue
  <2>f. pc[q] = "enqueue" => holds[q] \in Download
    BY <1>0 DEF OwnersKnown, TypeInv, TypeOK
  <2>g. \A e \in Download :
           queue'[e] = queue[e] \/ (pc[q] = "enqueue" /\ e = holds[q] /\ queue'[e].at = "queued")
    BY <1>0, <1>4, <2>f DEF Enqueue, Send, Slot, TypeInv, TypeOK
  <2>k. \A e \in Download, b \in Consumer : Working(b, e) => Working(b, e)'
    BY <1>0, <1>4, <2>d DEF Working
  <2>m. \A e \in Download : Waits(e)' /\
           pc[q] = "enqueue" /\ e = holds[q] => queue'[e].at = "queued"
    BY <1>0, <1>4, <2>f DEF Enqueue, Send, Waits, TypeInv, TypeOK
  <2>1. WorkedOn'
    BY <1>0, <1>4, <2>w, <2>d, <2>g, <2>k, <2>m, WorkedOnKept
  <2>2. Ended'
    <3>1. \A b \in Consumer : EndKept(b)
      BY <1>0, <2>d, <2>e, <2>g DEF TypeInv, TypeOK, Sole, EndKept
    <3> QED BY <1>0, <2>w, <2>k, <3>1, EndedKept
  <2> QED BY <1>0, <2>1, <2>2 DEF WorkInv
<1>5. ASSUME NEW q \in Request, RequestFails(q) PROVE WorkInv'
  <2>w. \A e \in Download : Waits(e)' => Waits(e)
    BY <1>0, <1>5, RestTyped
       DEF RequestFails, Lose, Waits, Exists, RecordsOwned, NoRecord, Record,
           TypeInv, TypeOK
  <2>d. \A p \in Process \ {q} : pc'[p] = pc[p] /\ holds'[p] = holds[p]
    BY <1>0, <1>5, RestTyped DEF RequestFails, Lose
  <2>e. pc'[q] = "idle" /\ holds'[q] = None
    BY <1>0, <1>5, RestTyped DEF RequestFails, Lose
  <2>f. pc[q] = "enqueue" => holds[q] \in Download
    BY <1>0 DEF OwnersKnown, TypeInv, TypeOK
  <2>g. \A e \in Download :
           queue'[e] = queue[e] \/ (pc[q] = "enqueue" /\ e = holds[q] /\ queue'[e].at = "queued")
    BY <1>0, <1>5, <2>f DEF RequestFails, Lose, Send, Slot, TypeInv, TypeOK
  <2>k. \A e \in Download, b \in Consumer : Working(b, e) => Working(b, e)'
    BY <1>0, <1>5, <2>d DEF Working
  <2>m. \A e \in Download : Waits(e)' /\
           pc[q] = "enqueue" /\ e = holds[q] => queue'[e].at = "queued"
    BY <1>0, <1>5, <2>f DEF RequestFails, Lose, Send, Waits, TypeInv, TypeOK
  <2>1. WorkedOn'
    BY <1>0, <1>5, <2>w, <2>d, <2>g, <2>k, <2>m, WorkedOnKept
  <2>2. Ended'
    <3>1. \A b \in Consumer : EndKept(b)
      BY <1>0, <2>d, <2>e, <2>g DEF TypeInv, TypeOK, Sole, EndKept
    <3> QED BY <1>0, <2>w, <2>k, <3>1, EndedKept
  <2> QED BY <1>0, <2>1, <2>2 DEF WorkInv
<1>6. ASSUME NEW c \in Consumer, NEW d \in Download, Receive(c, d) PROVE WorkInv'
  <2>w. \A e \in Download : Waits(e)' => Waits(e)
    BY <1>0, <1>6
       DEF Receive, Waits, Exists, RecordsOwned, NoRecord, Record, TypeInv,
           TypeOK
  <2>1. WorkedOn'
    BY <1>0, <1>6, <2>w
       DEF Receive, WorkedOn, Working, JobStep, TypeInv, TypeOK
  <2>2. Ended'
    BY <1>0, <1>6, <2>w DEF Receive, Ended, Working, JobStep, TypeInv, TypeOK
  <2> QED BY <1>0, <2>1, <2>2 DEF WorkInv
<1>7. ASSUME Replicate PROVE WorkInv'
  <2>w. \A e \in Download : Waits(e)' => Waits(e)
    BY <1>0, <1>7
       DEF Replicate, processVars, Waits, Exists, RecordsOwned, NoRecord, Record,
           TypeInv, TypeOK
  <2>1. WorkedOn'
    BY <1>0, <1>7, <2>w
       DEF Replicate, processVars, WorkedOn, Working, JobStep, TypeInv, TypeOK
  <2>2. Ended'
    BY <1>0, <1>7, <2>w
       DEF Replicate, processVars, Ended, Working, JobStep, TypeInv, TypeOK
  <2> QED BY <1>0, <2>1, <2>2 DEF WorkInv
<1>8. ASSUME NEW c \in Consumer, Guard(c) PROVE WorkInv'
  <2>w. \A e \in Download : Waits(e)' => Waits(e)
    BY <1>0, <1>8
       DEF Guard, Lose, Waits, Exists, RecordsOwned, NoRecord, Record, TypeInv,
           TypeOK
  <2>h. \A e \in Download : /\ queue'[e].at = queue[e].at
                            /\ queue[e].handled => queue'[e].handled
    BY <1>0, <1>8 DEF Guard, Lose, Handled, Slot, TypeInv, TypeOK
  <2>a. pc'[c] = "delete" =>
          \A e \in Download : e = holds[c] => ~Waits(e)'
    BY <1>0, <1>8
       DEF Guard, Lose, Busy, Generating, OwnersAgree, Exists, Waits, TypeInv, TypeOK
  <2>b. holds[c] \in Download /\ queue[holds[c]] \in Slot
    BY <1>0, <1>8 DEF Guard, Lose, TypeInv, TypeOK
  <2>c. pc'[c] = "delete" =>
          queue'[holds[c]].at = "absent" \/ queue'[holds[c]].handled
    BY <1>0, <1>8, <2>b DEF Guard, Lose, Handled, Slot, TypeInv, TypeOK
  <2>d. /\ holds' = holds /\ holds \in [Process -> Download \cup {None}]
        /\ \A p \in Process \ {c} : pc'[p] = pc[p]
    BY <1>0, <1>8 DEF Guard, Lose, TypeInv, TypeOK
  <2>1. WorkedOn'
    <3>1. ASSUME NEW e \in Download, Waits(e)', e # holds[c]
          PROVE  /\ Waits(e) /\ queue'[e].at = queue[e].at
                 /\ \A q \in Request : pc[q] = "enqueue" /\ holds[q] = e
                       => pc'[q] = "enqueue" /\ holds'[q] = e
                 /\ \A b \in Consumer : Working(b, e) => Working(b, e)'
      <4>1. Waits(e) /\ queue'[e].at = queue[e].at
        BY <3>1, <2>w, <2>h
      <4>2. \A q \in Request : pc'[q] = pc[q] /\ holds'[q] = holds[q]
        BY <1>0, <2>d
      <4>3. \A b \in Consumer : Working(b, e) => Working(b, e)'
        BY <1>0, <2>d, <3>1 DEF Working
      <4> QED BY <4>1, <4>2, <4>3
    <3>2. \A e \in Download : e = holds[c] /\ Waits(e)' => Working(c, e)'
      BY <1>0, <1>8, <2>a, <2>d DEF Guard, Lose, Working, JobStep, TypeInv, TypeOK
    <3> QED BY <1>0, <3>1, <3>2, WorkedOnKept
  <2>2. Ended'
    <3>1. \A b \in Consumer \ {c} : EndKept(b)
      <4>1. \A b \in Consumer \ {c} : pc'[b] = "delete" =>
                pc[b] = "delete" /\ holds'[b] = holds[b] /\ holds[b] \in Download
        BY <1>0, <2>d DEF TypeInv, TypeOK
      <4> QED BY <4>1, <2>h, Zenon DEF EndKept
    <3>2. \A e \in Download : Waits(e)' =>
               Waits(e) /\ \A b \in Consumer : Working(b, e) => Working(b, e)'
      BY <1>0, <1>8, <2>w, <2>a, <2>d
         DEF Guard, Lose, Working, JobStep, TypeInv, TypeOK
    <3>3. \A b \in {c} : pc'[b] = "delete" =>
               /\ queue'[holds'[b]].at = "absent" \/ queue'[holds'[b]].handled
               /\ \A d \in Download : d = holds'[b] => ~Waits(d)'
      BY <2>a, <2>c, <2>d
    <3>4. {c} \in SUBSET Consumer
      OBVIOUS
    <3> QED BY <1>0, <3>1, <3>2, <3>3, <3>4, EndedKept
  <2> QED BY <1>0, <2>1, <2>2 DEF WorkInv
<1>9. ASSUME NEW c \in Consumer, Start(c) PROVE WorkInv'
  <2>u. \/ /\ newest'[rec[holds[c]].owner] = holds[c]
           /\ \A e \in Download \ {holds[c]} : rec'[e] = rec[e]
           /\ \A o \in Owner \ {rec[holds[c]].owner} : newest'[o] = newest[o]
           /\ rec'[holds[c]].owner = rec[holds[c]].owner /\ rec'[holds[c]] = rec[holds[c]]
    <3> DEFINE r == rec[holds[c]]
    <3>1. /\ holds[c] \in Download
          /\ Exists(holds[c]) => r \in Record /\ r.owner = rec[holds[c]].owner /\ r.status # "none"
      BY <1>0, <1>9, JobWrites DEF Start, TypeInv, TypeOK
    <3>2. ASSUME Update(holds[c], r)
          PROVE  /\ newest'[rec[holds[c]].owner] = holds[c]
                 /\ \A e \in Download \ {holds[c]} : rec'[e] = rec[e]
                 /\ \A o \in Owner \ {rec[holds[c]].owner} : newest'[o] = newest[o]
                 /\ rec'[holds[c]].owner = rec[holds[c]].owner /\ rec'[holds[c]] = r
      <4>1. Exists(holds[c])
        BY <3>2 DEF Update
      <4> HIDE DEF r
      <4> QED BY <1>0, <3>1, <3>2, <4>1, UpdateEffect
    <3> QED BY <1>0, <1>9, <3>1, <3>2 DEF Start, TypeInv, TypeOK, Record
  <2>w. \A e \in Download : Waits(e)' => e = holds[c] \/ Waits(e)
    BY <1>0, <1>9, <2>u
       DEF Start, Waits, Exists, RecordsOwned, NoRecord, Record, TypeInv,
           TypeOK
  <2>1. WorkedOn'
    BY <1>0, <1>9, <2>u, <2>w
       DEF Start, WorkedOn, Working, JobStep, TypeInv, TypeOK
  <2>2. Ended'
    BY <1>0, <1>9, <2>u, <2>w
       DEF Start, Ended, Working, JobStep, TypeInv, TypeOK
  <2> QED BY <1>0, <2>1, <2>2 DEF WorkInv
<1>10. ASSUME NEW c \in Consumer, Report(c) PROVE WorkInv'
  <2>u. \/ /\ newest'[rec[holds[c]].owner] = holds[c]
           /\ \A e \in Download \ {holds[c]} : rec'[e] = rec[e]
           /\ \A o \in Owner \ {rec[holds[c]].owner} : newest'[o] = newest[o]
           /\ rec'[holds[c]].owner = rec[holds[c]].owner /\ rec'[holds[c]] = rec[holds[c]]
    <3> DEFINE r == rec[holds[c]]
    <3>1. /\ holds[c] \in Download
          /\ Exists(holds[c]) => r \in Record /\ r.owner = rec[holds[c]].owner /\ r.status # "none"
      BY <1>0, <1>10, JobWrites DEF Report, TypeInv, TypeOK
    <3>2. ASSUME Update(holds[c], r)
          PROVE  /\ newest'[rec[holds[c]].owner] = holds[c]
                 /\ \A e \in Download \ {holds[c]} : rec'[e] = rec[e]
                 /\ \A o \in Owner \ {rec[holds[c]].owner} : newest'[o] = newest[o]
                 /\ rec'[holds[c]].owner = rec[holds[c]].owner /\ rec'[holds[c]] = r
      <4>1. Exists(holds[c])
        BY <3>2 DEF Update
      <4> HIDE DEF r
      <4> QED BY <1>0, <3>1, <3>2, <4>1, UpdateEffect
    <3> QED BY <1>0, <1>10, <3>1, <3>2 DEF Report, TypeInv, TypeOK, Record
  <2>w. \A e \in Download : Waits(e)' => e = holds[c] \/ Waits(e)
    BY <1>0, <1>10, <2>u
       DEF Report, Waits, Exists, RecordsOwned, NoRecord, Record, TypeInv,
           TypeOK
  <2>1. WorkedOn'
    BY <1>0, <1>10, <2>u, <2>w
       DEF Report, WorkedOn, Working, JobStep, TypeInv, TypeOK
  <2>2. Ended'
    BY <1>0, <1>10, <2>u, <2>w
       DEF Report, Ended, Working, JobStep, TypeInv, TypeOK
  <2> QED BY <1>0, <2>1, <2>2 DEF WorkInv
<1>11. ASSUME NEW c \in Consumer, Upload(c) PROVE WorkInv'
  <2>w. \A e \in Download : Waits(e)' => Waits(e)
    BY <1>0, <1>11
       DEF Upload, Waits, Exists, RecordsOwned, NoRecord, Record, TypeInv,
           TypeOK
  <2>1. WorkedOn'
    BY <1>0, <1>11, <2>w
       DEF Upload, WorkedOn, Working, JobStep, TypeInv, TypeOK
  <2>2. Ended'
    BY <1>0, <1>11, <2>w DEF Upload, Ended, Working, JobStep, TypeInv, TypeOK
  <2> QED BY <1>0, <2>1, <2>2 DEF WorkInv
<1>12. ASSUME NEW c \in Consumer, Finish(c) PROVE WorkInv'
  <2>u. \/ /\ newest'[rec[holds[c]].owner] = holds[c]
           /\ \A e \in Download \ {holds[c]} : rec'[e] = rec[e]
           /\ \A o \in Owner \ {rec[holds[c]].owner} : newest'[o] = newest[o]
           /\ rec'[holds[c]].owner = rec[holds[c]].owner /\ rec'[holds[c]].status = "ready"
    <3> DEFINE r == [rec[holds[c]] EXCEPT !.status = "ready", !.files = files[c]]
    <3>1. /\ holds[c] \in Download
          /\ Exists(holds[c]) => r \in Record /\ r.owner = rec[holds[c]].owner /\ r.status # "none"
      BY <1>0, <1>12, JobWrites DEF Finish, TypeInv, TypeOK
    <3>2. ASSUME Update(holds[c], r)
          PROVE  /\ newest'[rec[holds[c]].owner] = holds[c]
                 /\ \A e \in Download \ {holds[c]} : rec'[e] = rec[e]
                 /\ \A o \in Owner \ {rec[holds[c]].owner} : newest'[o] = newest[o]
                 /\ rec'[holds[c]].owner = rec[holds[c]].owner /\ rec'[holds[c]] = r
      <4>1. Exists(holds[c])
        BY <3>2 DEF Update
      <4> HIDE DEF r
      <4> QED BY <1>0, <3>1, <3>2, <4>1, UpdateEffect
    <3>3. Update(holds[c], r)
      BY <1>12 DEF Finish
    <3>4. rec[holds[c]] \in Record
      BY <1>0, <3>1 DEF TypeInv, TypeOK
    <3>5. r.status = "ready"
      BY <3>4 DEF Record
    <3> HIDE DEF r
    <3> QED BY <3>2, <3>3, <3>5
  <2>w. \A e \in Download : Waits(e)' => e # holds[c] /\ Waits(e)
    BY <1>0, <1>12, <2>u
       DEF Finish, Waits, Exists, RecordsOwned, NoRecord, Record, TypeInv,
           TypeOK
  <2>h. \A e \in Download : /\ queue'[e].at = queue[e].at
                            /\ queue[e].handled => queue'[e].handled
    BY <1>0, <1>12 DEF Finish, Handled, Slot, TypeInv, TypeOK
  <2>a. \A e \in Download : e = holds[c] => ~Waits(e)'
    BY <1>0, <1>12, <2>u, <2>w DEF Finish, Exists, Waits, TypeInv, TypeOK
  <2>b. holds[c] \in Download /\ queue[holds[c]] \in Slot
    BY <1>0, <1>12 DEF Finish, TypeInv, TypeOK
  <2>c. queue'[holds[c]].at = "absent" \/ queue'[holds[c]].handled
    BY <1>0, <1>12, <2>b DEF Finish, Handled, Slot, TypeInv, TypeOK
  <2>d. /\ holds' = holds /\ holds \in [Process -> Download \cup {None}]
        /\ \A p \in Process \ {c} : pc'[p] = pc[p]
    BY <1>0, <1>12 DEF Finish, TypeInv, TypeOK
  <2>1. WorkedOn'
    <3>1. ASSUME NEW e \in Download, Waits(e)', e # holds[c]
          PROVE  /\ Waits(e) /\ queue'[e].at = queue[e].at
                 /\ \A q \in Request : pc[q] = "enqueue" /\ holds[q] = e
                       => pc'[q] = "enqueue" /\ holds'[q] = e
                 /\ \A b \in Consumer : Working(b, e) => Working(b, e)'
      <4>1. Waits(e) /\ queue'[e].at = queue[e].at
        BY <3>1, <2>w, <2>h
      <4>2. \A q \in Request : pc'[q] = pc[q] /\ holds'[q] = holds[q]
        BY <1>0, <2>d
      <4>3. \A b \in Consumer : Working(b, e) => Working(b, e)'
        BY <1>0, <2>d, <3>1 DEF Working
      <4> QED BY <4>1, <4>2, <4>3
    <3>2. \A e \in Download : e = holds[c] /\ Waits(e)' => Working(c, e)'
      BY <1>0, <1>12, <2>a, <2>d DEF Finish, Working, JobStep, TypeInv, TypeOK
    <3> QED BY <1>0, <3>1, <3>2, WorkedOnKept
  <2>2. Ended'
    <3>1. \A b \in Consumer \ {c} : EndKept(b)
      <4>1. \A b \in Consumer \ {c} : pc'[b] = "delete" =>
                pc[b] = "delete" /\ holds'[b] = holds[b] /\ holds[b] \in Download
        BY <1>0, <2>d DEF TypeInv, TypeOK
      <4> QED BY <4>1, <2>h, Zenon DEF EndKept
    <3>2. \A e \in Download : Waits(e)' =>
               Waits(e) /\ \A b \in Consumer : Working(b, e) => Working(b, e)'
      BY <1>0, <1>12, <2>w, <2>a, <2>d
         DEF Finish, Working, JobStep, TypeInv, TypeOK
    <3>3. \A b \in {c} : pc'[b] = "delete" =>
               /\ queue'[holds'[b]].at = "absent" \/ queue'[holds'[b]].handled
               /\ \A d \in Download : d = holds'[b] => ~Waits(d)'
      BY <2>a, <2>c, <2>d
    <3>4. {c} \in SUBSET Consumer
      OBVIOUS
    <3> QED BY <1>0, <3>1, <3>2, <3>3, <3>4, EndedKept
  <2> QED BY <1>0, <2>1, <2>2 DEF WorkInv
<1>13. ASSUME NEW c \in Consumer, Throws(c) PROVE WorkInv'
  <2>w. \A e \in Download : Waits(e)' => Waits(e)
    BY <1>0, <1>13
       DEF Throws, Waits, Exists, RecordsOwned, NoRecord, Record, TypeInv,
           TypeOK
  <2>1. WorkedOn'
    BY <1>0, <1>13, <2>w
       DEF Throws, WorkedOn, Working, JobStep, TypeInv, TypeOK
  <2>2. Ended'
    BY <1>0, <1>13, <2>w DEF Throws, Ended, Working, JobStep, TypeInv, TypeOK
  <2> QED BY <1>0, <2>1, <2>2 DEF WorkInv
<1>14. ASSUME NEW c \in Consumer, MarkFailed(c) PROVE WorkInv'
  <2>u. \/ ~Exists(holds[c]) /\ UNCHANGED <<rec, newest>>
        \/ /\ holds[c] \in lost' \/ rec[holds[c]].status # "generating"
           /\ UNCHANGED <<rec, newest>>
        \/ /\ newest'[rec[holds[c]].owner] = holds[c]
           /\ \A e \in Download \ {holds[c]} : rec'[e] = rec[e]
           /\ \A o \in Owner \ {rec[holds[c]].owner} : newest'[o] = newest[o]
           /\ rec'[holds[c]].owner = rec[holds[c]].owner /\ rec'[holds[c]].status = "failed"
    <3> DEFINE r == [rec[holds[c]] EXCEPT !.status = "failed"]
    <3>1. /\ holds[c] \in Download
          /\ Exists(holds[c]) => r \in Record /\ r.owner = rec[holds[c]].owner /\ r.status # "none"
      BY <1>0, <1>14, JobWrites DEF MarkFailed, Lose, TypeInv, TypeOK
    <3>2. ASSUME Update(holds[c], r)
          PROVE  /\ newest'[rec[holds[c]].owner] = holds[c]
                 /\ \A e \in Download \ {holds[c]} : rec'[e] = rec[e]
                 /\ \A o \in Owner \ {rec[holds[c]].owner} : newest'[o] = newest[o]
                 /\ rec'[holds[c]].owner = rec[holds[c]].owner /\ rec'[holds[c]] = r
      <4>1. Exists(holds[c])
        BY <3>2 DEF Update
      <4> HIDE DEF r
      <4> QED BY <1>0, <3>1, <3>2, <4>1, UpdateEffect
    <3> QED BY <1>0, <1>14, <3>1, <3>2 DEF MarkFailed, Lose, TypeInv, TypeOK, Record
  <2>w. \A e \in Download : Waits(e)' => e # holds[c] /\ Waits(e)
    BY <1>0, <1>14, <2>u
       DEF MarkFailed, Lose, Waits, Exists, RecordsOwned, NoRecord, Record, TypeInv,
           TypeOK
  <2>h. \A e \in Download : /\ queue'[e].at = queue[e].at
                            /\ queue[e].handled => queue'[e].handled
    BY <1>0, <1>14 DEF MarkFailed, Lose, Handled, Slot, TypeInv, TypeOK
  <2>a. \A e \in Download : e = holds[c] => ~Waits(e)'
    BY <1>0, <1>14, <2>u, <2>w DEF MarkFailed, Lose, Exists, Waits, TypeInv, TypeOK
  <2>b. holds[c] \in Download /\ queue[holds[c]] \in Slot
    BY <1>0, <1>14 DEF MarkFailed, Lose, TypeInv, TypeOK
  <2>c. queue'[holds[c]].at = "absent" \/ queue'[holds[c]].handled
    BY <1>0, <1>14, <2>b DEF MarkFailed, Lose, Handled, Slot, TypeInv, TypeOK
  <2>d. /\ holds' = holds /\ holds \in [Process -> Download \cup {None}]
        /\ \A p \in Process \ {c} : pc'[p] = pc[p]
    BY <1>0, <1>14 DEF MarkFailed, Lose, TypeInv, TypeOK
  <2>1. WorkedOn'
    <3>1. ASSUME NEW e \in Download, Waits(e)', e # holds[c]
          PROVE  /\ Waits(e) /\ queue'[e].at = queue[e].at
                 /\ \A q \in Request : pc[q] = "enqueue" /\ holds[q] = e
                       => pc'[q] = "enqueue" /\ holds'[q] = e
                 /\ \A b \in Consumer : Working(b, e) => Working(b, e)'
      <4>1. Waits(e) /\ queue'[e].at = queue[e].at
        BY <3>1, <2>w, <2>h
      <4>2. \A q \in Request : pc'[q] = pc[q] /\ holds'[q] = holds[q]
        BY <1>0, <2>d
      <4>3. \A b \in Consumer : Working(b, e) => Working(b, e)'
        BY <1>0, <2>d, <3>1 DEF Working
      <4> QED BY <4>1, <4>2, <4>3
    <3>2. \A e \in Download : e = holds[c] /\ Waits(e)' => Working(c, e)'
      BY <1>0, <1>14, <2>a, <2>d
         DEF MarkFailed, Lose, Working, JobStep, TypeInv, TypeOK
    <3> QED BY <1>0, <3>1, <3>2, WorkedOnKept
  <2>2. Ended'
    <3>1. \A b \in Consumer \ {c} : EndKept(b)
      <4>1. \A b \in Consumer \ {c} : pc'[b] = "delete" =>
                pc[b] = "delete" /\ holds'[b] = holds[b] /\ holds[b] \in Download
        BY <1>0, <2>d DEF TypeInv, TypeOK
      <4> QED BY <4>1, <2>h, Zenon DEF EndKept
    <3>2. \A e \in Download : Waits(e)' =>
               Waits(e) /\ \A b \in Consumer : Working(b, e) => Working(b, e)'
      BY <1>0, <1>14, <2>w, <2>a, <2>d
         DEF MarkFailed, Lose, Working, JobStep, TypeInv, TypeOK
    <3>3. \A b \in {c} : pc'[b] = "delete" =>
               /\ queue'[holds'[b]].at = "absent" \/ queue'[holds'[b]].handled
               /\ \A d \in Download : d = holds'[b] => ~Waits(d)'
      BY <2>a, <2>c, <2>d
    <3>4. {c} \in SUBSET Consumer
      OBVIOUS
    <3> QED BY <1>0, <3>1, <3>2, <3>3, <3>4, EndedKept
  <2> QED BY <1>0, <2>1, <2>2 DEF WorkInv
<1>15. ASSUME NEW c \in Consumer, Delete(c) PROVE WorkInv'
  <2>w. \A e \in Download : Waits(e)' => Waits(e)
    BY <1>0, <1>15, RestTyped
       DEF Delete, Waits, Exists, RecordsOwned, NoRecord, Record, TypeInv,
           TypeOK
  <2>d. \A p \in Process \ {c} : pc'[p] = pc[p] /\ holds'[p] = holds[p]
    BY <1>0, <1>15, RestTyped DEF Delete
  <2>e. pc'[c] = "idle" /\ holds'[c] = None
    BY <1>0, <1>15, RestTyped DEF Delete
  <2>f. holds[c] \in Download
    BY <1>0, <1>15 DEF Delete, TypeInv, TypeOK
  <2>g. \A e \in Download :
           queue'[e] = queue[e] \/ (e = holds[c] /\ queue'[e].at = "absent")
    BY <1>0, <1>15, <2>f DEF Delete, Slot, EmptySlot, TypeInv, TypeOK
  <2>k. \A e \in Download, b \in Consumer : Working(b, e) => Working(b, e)'
    BY <1>0, <1>15, <2>d DEF Delete, Working, JobStep
  <2>1. WorkedOn'
    BY <1>0, <1>15, <2>w, <2>d, <2>g, <2>k, WorkedOnKept DEF Delete, Ended
  <2>2. Ended'
    <3>1. \A b \in Consumer : EndKept(b)
      BY <1>0, <2>d, <2>e, <2>g DEF TypeInv, TypeOK, EndKept
    <3> QED BY <1>0, <2>w, <2>k, <3>1, EndedKept
  <2> QED BY <1>0, <2>1, <2>2 DEF WorkInv
<1>16. ASSUME NEW c \in Consumer, JobLost(c) PROVE WorkInv'
  <2>w. \A e \in Download : Waits(e)' =>
           Waits(e) /\ (e = holds[c] => queue[e].at # "absent" /\ ~queue[e].handled)
    BY <1>0, <1>16, RestTyped
       DEF JobLost, Lose, Waits, Exists, RecordsOwned, NoRecord, Record, TypeInv,
           TypeOK
  <2>1. WorkedOn'
    BY <1>0, <1>16, <2>w, RestTyped
       DEF JobLost, Lose, WorkedOn, Working, JobStep, TypeInv, TypeOK
  <2>2. Ended'
    BY <1>0, <1>16, <2>w, RestTyped
       DEF JobLost, Lose, Ended, Working, JobStep, TypeInv, TypeOK
  <2> QED BY <1>0, <2>1, <2>2 DEF WorkInv
<1> QED
  BY <1>1, <1>2, <1>3, <1>4, <1>5, <1>6, <1>7, <1>8, <1>9, <1>10, <1>11, <1>12,
     <1>13, <1>14, <1>15, <1>16
     DEF Next, RequestProceeds, JobProceeds

\* A record that its owner sees as being generated is queued or worked on, for
\* any number of owners, requests and consumers, however far the reader lags
\* behind, unless a failure was swallowed or its job gave way to what a reader
\* that lags behind showed (programme-service.js, programme-records.js).
THEOREM ShownRecordsAreWorkedOn == Spec => []CurrentIsWorkedOn
<1>1. WorkInv => CurrentIsWorkedOn
  BY
     DEF WorkInv, OwnerInv, TypeInv, TypeOK, RecordsOwned, WorkedOn, Waits,
         CurrentIsWorkedOn
<1> QED BY WorkInit, WorkStep, <1>1, PTL DEF Spec
=============================================================================
