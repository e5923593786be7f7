------------------------- MODULE Submission_proofs -------------------------
(***************************************************************************)
(* Proofs about Submission, for any number of projects, messages,          *)
(* consumers, requests and failures.                                       *)
(***************************************************************************)
EXTENDS Submission, TLAPS

----------------------------------------------------------------------------
(* Types                                                                   *)

ProjectsTyped ==
    /\ enabled \in BOOLEAN
    /\ state \in [Project -> Status]
    /\ submittedAt \in [Project -> BOOLEAN]
    /\ pol \in [Project -> BOOLEAN]
    /\ succeeded \in [Project -> BOOLEAN]
    /\ receipt \in [Project -> Receipt]
    /\ failures \in 0 .. MaxFailures

QueueTyped ==
    /\ queue \in [Message -> Slot]
    /\ \A m \in Message : queue[m].at = "absent" <=> queue[m].project = None

StepsTyped ==
    /\ pc \in [Process -> {"idle"} \cup ConsumerStep \cup RequestStep]
    /\ \A c \in Consumer : pc[c] \in {"idle"} \cup ConsumerStep
    /\ \A r \in Request : pc[r] \in {"idle"} \cup RequestStep

WorkTyped ==
    /\ about \in [Process -> Project \cup {None}]
    /\ \A x \in Process : pc[x] = "idle" <=> about[x] = None
    /\ holds \in [Consumer -> Message \cup {None}]
    /\ \A c \in Consumer : pc[c] = "idle" <=> holds[c] = None
    /\ ok \in [Process -> BOOLEAN]
    /\ target \in [Request -> Status]

LEMMA TypeParts ==
    /\ TypeOK <=> ProjectsTyped /\ QueueTyped /\ StepsTyped /\ WorkTyped
    /\ TypeOK' <=> ProjectsTyped' /\ QueueTyped' /\ StepsTyped' /\ WorkTyped'
BY DEF TypeOK, ProjectsTyped, QueueTyped, StepsTyped, WorkTyped

\* A busy process works on a project, a busy consumer on a message.
LEMMA Busy ==
    ASSUME StepsTyped, WorkTyped, NEW x \in Process, pc[x] # "idle"
    PROVE  /\ about[x] \in Project
           /\ x \in Consumer => holds[x] \in Message
BY DEF WorkTyped

\* Going on to another step.
LEMMA GotoTyped ==
    ASSUME StepsTyped, WorkTyped, NEW x \in Process, pc[x] # "idle",
           NEW step \in ConsumerStep \cup RequestStep,
           x \in Consumer => step \in ConsumerStep,
           x \in Request => step \in RequestStep,
           Goto(x, step), ok' \in [Process -> BOOLEAN]
    PROVE  StepsTyped' /\ WorkTyped'
<1>1. step # "idle"
  BY DEF ConsumerStep, RequestStep, SendStep
<1>2. /\ pc' = [pc EXCEPT ![x] = step]
      /\ UNCHANGED <<about, holds, target>>
  BY DEF Goto
<1>3. StepsTyped'
  BY <1>2 DEF StepsTyped, Process
<1>4. \A y \in Process : pc'[y] = "idle" <=> pc[y] = "idle"
  BY <1>1, <1>2 DEF StepsTyped
<1>5. WorkTyped'
  BY <1>2, <1>4 DEF WorkTyped, Process
<1> QED BY <1>3, <1>5

\* Beginning and ending a request.
LEMMA TakeTyped ==
    ASSUME StepsTyped, WorkTyped, NEW r \in Request, NEW p \in Project,
           NEW step \in RequestStep, NEW s \in Status, Take(r, p, step, s)
    PROVE  StepsTyped' /\ WorkTyped'
<1>1. step # "idle" /\ p # None /\ r \in Process /\ r \notin Consumer
  BY ConstantAssumption DEF RequestStep, SendStep, Process
<1>2. /\ pc' = [pc EXCEPT ![r] = step]
      /\ about' = [about EXCEPT ![r] = p]
      /\ target' = [target EXCEPT ![r] = s]
      /\ UNCHANGED <<holds, ok>>
  BY DEF Take
<1>3. StepsTyped'
  BY <1>1, <1>2 DEF StepsTyped
<1>4. about' \in [Process -> Project \cup {None}] /\ target' \in [Request -> Status]
  BY <1>1, <1>2 DEF WorkTyped
<1>5. \A x \in Process : pc'[x] = "idle" <=> about'[x] = None
  BY <1>1, <1>2 DEF StepsTyped, WorkTyped
<1>6. \A c \in Consumer : pc'[c] = "idle" <=> holds'[c] = None
  BY <1>1, <1>2 DEF StepsTyped, WorkTyped, Process
<1> QED BY <1>2, <1>3, <1>4, <1>5, <1>6 DEF WorkTyped

LEMMA EndRequestTyped ==
    ASSUME StepsTyped, WorkTyped, NEW r \in Request, EndRequest(r)
    PROVE  StepsTyped' /\ WorkTyped'
<1>1. "draft" \in Status /\ r \in Process /\ r \notin Consumer
  BY ConstantAssumption DEF Process
<1>2. /\ pc' = [pc EXCEPT ![r] = "idle"]
      /\ about' = [about EXCEPT ![r] = None]
      /\ target' = [target EXCEPT ![r] = "draft"]
      /\ ok' = [ok EXCEPT ![r] = FALSE]
      /\ UNCHANGED holds
  BY DEF EndRequest
<1>3. StepsTyped'
  BY <1>1, <1>2 DEF StepsTyped
<1>4. /\ about' \in [Process -> Project \cup {None}]
      /\ target' \in [Request -> Status]
      /\ ok' \in [Process -> BOOLEAN]
  BY <1>1, <1>2 DEF WorkTyped
<1>5. \A x \in Process : pc'[x] = "idle" <=> about'[x] = None
  BY <1>1, <1>2 DEF StepsTyped, WorkTyped
<1>6. \A c \in Consumer : pc'[c] = "idle" <=> holds'[c] = None
  BY <1>1, <1>2 DEF StepsTyped, WorkTyped, Process
<1> QED BY <1>2, <1>3, <1>4, <1>5, <1>6 DEF WorkTyped

\* Taking and letting go of a message.
LEMMA ConsumerTyped ==
    ASSUME StepsTyped, WorkTyped, NEW c \in Consumer,
           NEW step \in {"idle"} \cup ConsumerStep,
           NEW p \in Project \cup {None}, NEW m \in Message \cup {None},
           step = "idle" <=> p = None, step = "idle" <=> m = None,
           pc' = [pc EXCEPT ![c] = step],
           about' = [about EXCEPT ![c] = p],
           holds' = [holds EXCEPT ![c] = m],
           ok' \in [Process -> BOOLEAN],
           UNCHANGED target
    PROVE  StepsTyped' /\ WorkTyped'
<1>1. c \in Process /\ c \notin Request
  BY ConstantAssumption DEF Process
<1>2. StepsTyped'
  BY <1>1 DEF StepsTyped
<1>3. /\ about' \in [Process -> Project \cup {None}]
      /\ holds' \in [Consumer -> Message \cup {None}]
  BY <1>1 DEF WorkTyped
<1>4. \A x \in Process : pc'[x] = "idle" <=> about'[x] = None
  BY <1>1 DEF StepsTyped, WorkTyped
<1>5. \A d \in Consumer : pc'[d] = "idle" <=> holds'[d] = None
  BY DEF StepsTyped, WorkTyped, Process
<1> QED BY <1>2, <1>3, <1>4, <1>5 DEF WorkTyped

LEMMA EndConsumerTyped ==
    ASSUME StepsTyped, WorkTyped, NEW c \in Consumer, EndConsumer(c)
    PROVE  StepsTyped' /\ WorkTyped'
<1>1. ok' \in [Process -> BOOLEAN]
  BY DEF EndConsumer, WorkTyped
<1> QED BY <1>1, ConsumerTyped DEF EndConsumer

\* Writing one slot of the queue.
LEMMA SlotTyped ==
    ASSUME QueueTyped, NEW m \in Message, NEW slot \in Slot,
           slot.at = "absent" <=> slot.project = None,
           queue' = [queue EXCEPT ![m] = slot]
    PROVE  QueueTyped'
BY DEF QueueTyped

\* The end of send, for a consumer and for a request.
LEMMA SendReturnsTyped ==
    ASSUME QueueTyped, StepsTyped, WorkTyped, NEW x \in Process, pc[x] # "idle",
           SendReturns(x), UNCHANGED ok
    PROVE  QueueTyped' /\ StepsTyped' /\ WorkTyped'
<1>1. \A m \in Message :
         /\ queue'[m] \in Slot
         /\ queue'[m].at = queue[m].at
         /\ queue'[m].project = queue[m].project
  BY DEF SendReturns, QueueTyped, Slot
<1>2. queue' \in [Message -> Slot]
  BY <1>1 DEF SendReturns
<1>3. QueueTyped'
  BY <1>1, <1>2 DEF QueueTyped
<1>4. ok' \in [Process -> BOOLEAN]
  BY DEF WorkTyped
<1>5. CASE x \in Consumer
  <2>1. Goto(x, "delete") /\ x \notin Request
    BY <1>5, ConstantAssumption DEF SendReturns
  <2> QED BY <1>3, <1>4, <1>5, <2>1, GotoTyped DEF ConsumerStep
<1>6. CASE x \notin Consumer
  <2>1. Goto(x, "finish")
    BY <1>6 DEF SendReturns
  <2> QED BY <1>3, <1>4, <1>6, <2>1, GotoTyped DEF RequestStep
<1> QED BY <1>5, <1>6

LEMMA FailsTyped ==
    ASSUME failures \in 0 .. MaxFailures, Fails \/ UNCHANGED failures
    PROVE  failures' \in 0 .. MaxFailures
BY ConstantAssumption DEF Fails

\* The parts a step leaves alone keep their types.
LEMMA TypesKept ==
    /\ ProjectsTyped /\ UNCHANGED <<enabled, rowVars, receipt>>
         /\ failures' \in 0 .. MaxFailures => ProjectsTyped'
    /\ QueueTyped /\ UNCHANGED queue => QueueTyped'
    /\ StepsTyped /\ WorkTyped /\ UNCHANGED processVars => StepsTyped' /\ WorkTyped'
BY DEF ProjectsTyped, QueueTyped, StepsTyped, WorkTyped, rowVars, processVars

LEMMA RequestStartsTyped ==
    ASSUME TypeOK, NEW r \in Request, RequestStarts(r)
    PROVE  TypeOK'
<1>1. PICK p \in Project :
         \/ Submit(r, p) \/ Resubmit(r, p) \/ FixLegacy(r, p)
         \/ \E s \in Status : ExternalUpdate(r, p, s)
  BY DEF RequestStarts
<1>2. PICK step \in RequestStep, s \in Status : Take(r, p, step, s)
  BY <1>1, ConstantAssumption
  DEF Submit, Resubmit, FixLegacy, ExternalUpdate, RequestStep, SendStep
<1>3. UNCHANGED <<enabled, rowVars, queue, receipt, failures>>
  BY <1>1 DEF Submit, Resubmit, FixLegacy, ExternalUpdate
<1>4. StepsTyped' /\ WorkTyped'
  BY <1>2, TakeTyped, TypeParts
<1>5. ProjectsTyped' /\ QueueTyped'
  BY <1>3, TypesKept, TypeParts DEF ProjectsTyped
<1> QED BY <1>4, <1>5, TypeParts

\* Sending and what follows, for any process.
LEMMA SendingTyped ==
    ASSUME TypeOK, NEW x \in Process, Sending(x)
    PROVE  TypeOK'
<1> USE TypeParts
<1>1. pc[x] # "idle" /\ about[x] \in Project
  BY Busy DEF Sending, Send, SendAccepted, SendFails, SendDisabled, Record, Stamp
<1>2. CASE Send(x)
  <2>1. Goto(x, "record") /\ ok' \in [Process -> BOOLEAN]
    BY <1>2 DEF Send, SendAccepted, SendFails, SendDisabled, WorkTyped
  <2>2. StepsTyped' /\ WorkTyped'
    BY <1>1, <2>1, GotoTyped DEF ConsumerStep, RequestStep, SendStep
  <2>3. QueueTyped'
    BY <1>2, TypesKept DEF Send, SendAccepted, SendFails, SendDisabled
  <2>4. failures' \in 0 .. MaxFailures
    BY <1>2, FailsTyped DEF Send, SendAccepted, SendFails, SendDisabled, ProjectsTyped
  <2>5. receipt' \in [Project -> Receipt]
    BY <1>1, <1>2 DEF Send, SendAccepted, SendFails, SendDisabled, ProjectsTyped, Receipt
  <2>6. UNCHANGED <<enabled, rowVars>>
    BY <1>2 DEF Send, SendAccepted, SendFails, SendDisabled
  <2>7. ProjectsTyped'
    BY <2>4, <2>5, <2>6 DEF ProjectsTyped, rowVars
  <2> QED BY <2>2, <2>3, <2>7
<1>3. CASE Record(x)
  <2>1. succeeded' \in [Project -> BOOLEAN]
    BY <1>1, <1>3 DEF Record, ProjectsTyped, Successful, WorkTyped
  <2>2. failures' \in 0 .. MaxFailures
    BY <1>3, FailsTyped DEF Record, ProjectsTyped
  <2>3. ProjectsTyped'
    BY <1>3, <2>1, <2>2 DEF Record, ProjectsTyped
  <2>4. QueueTyped' /\ StepsTyped' /\ WorkTyped'
    <3>1. CASE Successful(x)
      <4>1. Goto(x, "stamp") /\ UNCHANGED <<queue, ok>>
        BY <1>3, <3>1 DEF Record
      <4>2. ok' \in [Process -> BOOLEAN]
        BY <4>1 DEF WorkTyped
      <4> QED BY <1>1, <4>1, <4>2, GotoTyped, TypesKept
              DEF ConsumerStep, RequestStep, SendStep
    <3>2. CASE ~Successful(x)
      <4>1. SendReturns(x) /\ UNCHANGED ok
        BY <1>3, <3>2 DEF Record
      <4> QED BY <1>1, <4>1, SendReturnsTyped
    <3> QED BY <3>1, <3>2
  <2> QED BY <2>3, <2>4
<1>4. CASE Stamp(x)
  <2>1. pol' \in [Project -> BOOLEAN]
    BY <1>1, <1>4 DEF Stamp, ProjectsTyped
  <2>2. failures' \in 0 .. MaxFailures
    BY <1>4, FailsTyped DEF Stamp, ProjectsTyped
  <2>3. ProjectsTyped'
    BY <1>4, <2>1, <2>2 DEF Stamp, ProjectsTyped
  <2>4. SendReturns(x) /\ UNCHANGED ok
    BY <1>4 DEF Stamp
  <2> QED BY <1>1, <2>3, <2>4, SendReturnsTyped
<1> QED BY <1>2, <1>3, <1>4 DEF Sending

LEMMA RequestProceedsTyped ==
    ASSUME TypeOK, NEW r \in Request, RequestProceeds(r)
    PROVE  TypeOK'
<1> USE TypeParts
<1>r. r \in Process /\ r \notin Consumer
  BY ConstantAssumption DEF Process
<1>1. CASE Commit(r)
  <2>1. pc[r] # "idle" /\ about[r] \in Project
    BY <1>1, <1>r, Busy DEF Commit
  <2>2. ProjectsTyped'
    <3>1. /\ state' \in [Project -> Status]
          /\ submittedAt' \in [Project -> BOOLEAN]
      BY <1>1, <2>1, ConstantAssumption DEF Commit, ProjectsTyped
    <3>2. receipt' \in [Project -> Receipt]
      BY <1>1, <2>1 DEF Commit, ProjectsTyped, Receipt
    <3> QED BY <1>1, <3>1, <3>2 DEF Commit, ProjectsTyped
  <2>3. Goto(r, "enqueue") /\ ok' \in [Process -> BOOLEAN] /\ UNCHANGED queue
    BY <1>1 DEF Commit, WorkTyped
  <2> QED BY <1>r, <2>1, <2>2, <2>3, GotoTyped, TypesKept DEF RequestStep
<1>2. CASE WriteState(r)
  <2>1. about[r] \in Project /\ target[r] \in Status
    BY <1>2, <1>r, Busy DEF WriteState, WorkTyped
  <2>2. ProjectsTyped'
    BY <1>2, <2>1 DEF WriteState, ProjectsTyped
  <2> QED BY <1>2, <2>2, EndRequestTyped, TypesKept DEF WriteState
<1>3. CASE SetSubmittedAt(r)
  <2>1. about[r] \in Project
    BY <1>3, <1>r, Busy DEF SetSubmittedAt
  <2>2. submittedAt' \in [Project -> BOOLEAN] /\ failures' \in 0 .. MaxFailures
    BY <1>3, <2>1, FailsTyped DEF SetSubmittedAt, ProjectsTyped
  <2>3. ProjectsTyped'
    BY <1>3, <2>2 DEF SetSubmittedAt, ProjectsTyped
  <2> QED BY <1>3, <2>3, EndRequestTyped, TypesKept DEF SetSubmittedAt
<1>4. CASE Sending(r)
  BY <1>r, <1>4, SendingTyped
<1>5. CASE \E m \in Message : Enqueue(r, m)
  <2>1. PICK m \in Message : Enqueue(r, m)
    BY <1>5
  <2>2. about[r] \in Project /\ about[r] # None
    BY <1>r, <2>1, Busy, ConstantAssumption DEF Enqueue
  <2>3. QueueTyped'
    <3> DEFINE slot == [at |-> "visible", project |-> about[r], handled |-> FALSE]
    <3>1. slot \in Slot /\ slot.at # "absent" /\ slot.project # None
      BY <2>2 DEF Slot
    <3>2. queue' = [queue EXCEPT ![m] = slot]
      BY <2>1 DEF Enqueue
    <3> HIDE DEF slot
    <3> QED BY <3>1, <3>2, SlotTyped
  <2>4. ProjectsTyped' /\ EndRequest(r)
    BY <2>1, TypesKept DEF Enqueue, ProjectsTyped
  <2> QED BY <2>3, <2>4, EndRequestTyped
<1> QED BY <1>1, <1>2, <1>3, <1>4, <1>5 DEF RequestProceeds

LEMMA RequestGoesWrongTyped ==
    ASSUME TypeOK, NEW r \in Request, RequestGoesWrong(r)
    PROVE  TypeOK'
<1>1. /\ EndRequest(r)
      /\ Fails
      /\ UNCHANGED <<enabled, rowVars, queue, receipt>>
  BY DEF RequestGoesWrong, CommitFails, EnqueueFails, RequestLost
<1>2. failures' \in 0 .. MaxFailures
  BY <1>1, FailsTyped DEF TypeOK
<1> QED BY <1>1, <1>2, EndRequestTyped, TypesKept, TypeParts

LEMMA ConsumerStepTyped ==
    ASSUME TypeOK, NEW c \in Consumer,
           \/ ConsumerProceeds(c) \/ HandlerThrows(c)
           \/ \E m \in Message : Receive(c, m)
    PROVE  TypeOK'
<1> USE TypeParts
<1>c. c \in Process
  BY DEF Process
<1>1. CASE LoadMissing(c)
  <2>1. pc[c] # "idle" /\ SendReturns(c) /\ UNCHANGED ok
    BY <1>1 DEF LoadMissing
  <2>2. failures' \in 0 .. MaxFailures
    BY <1>1, FailsTyped DEF LoadMissing, ProjectsTyped
  <2>3. ProjectsTyped'
    BY <1>1, <2>2, TypesKept DEF LoadMissing
  <2> QED BY <1>c, <2>1, <2>3, SendReturnsTyped
<1>2. CASE Sending(c)
  BY <1>c, <1>2, SendingTyped
<1>3. CASE Delete(c)
  <2>1. holds[c] \in Message
    BY <1>3, <1>c, Busy DEF Delete
  <2>2. QueueTyped'
    <3>1. CASE queue' = Removed(holds[c])
      <4> DEFINE q(m) == [queue[m] EXCEPT !.at = "absent", !.project = None]
      <4>1. \A m \in Message : q(m) \in Slot /\ q(m).at = "absent" /\ q(m).project = None
        BY DEF QueueTyped, Slot
      <4>2. \A m \in Message : queue'[m] = IF m = holds[c] THEN q(m) ELSE queue[m]
        <5>1. queue \in [Message -> Slot] /\ queue' = [queue EXCEPT ![holds[c]] =
                 [[@ EXCEPT !.at = "absent"] EXCEPT !.project = None]]
          BY <2>1, <3>1 DEF Removed, QueueTyped
        <5>2. queue'[holds[c]] = q(holds[c])
          BY <2>1, <5>1 DEF Slot
        <5>3. \A m \in Message : m # holds[c] => queue'[m] = queue[m]
          BY <5>1
        <5> HIDE DEF q
        <5> QED BY <5>2, <5>3
      <4>3. queue' \in [Message -> Slot]
        <5>1. queue' = [m \in Message |-> queue'[m]]
          BY <3>1 DEF Removed, QueueTyped
        <5>2. \A m \in Message : queue'[m] \in Slot
          BY <4>1, <4>2 DEF QueueTyped
        <5> QED BY <5>1, <5>2
      <4> HIDE DEF q
      <4> QED BY <4>1, <4>2, <4>3 DEF QueueTyped
    <3> QED BY <1>3, <3>1, TypesKept DEF Delete
  <2>3. ProjectsTyped' /\ EndConsumer(c)
    BY <1>3, TypesKept DEF Delete, ProjectsTyped
  <2> QED BY <2>2, <2>3, EndConsumerTyped
<1>4. CASE HandlerThrows(c)
  <2>1. failures' \in 0 .. MaxFailures
    BY <1>4, FailsTyped DEF HandlerThrows, ProjectsTyped
  <2> QED BY <1>4, <2>1, EndConsumerTyped, TypesKept DEF HandlerThrows
<1>5. ASSUME NEW m \in Message, Receive(c, m)
      PROVE  TypeOK'
  <2>1. queue[m] \in Slot /\ queue[m].at # "absent"
    BY <1>5 DEF Receive, QueueTyped
  <2>2. queue[m].project \in Project /\ queue[m].project # None /\ m # None
    BY <2>1, ConstantAssumption DEF QueueTyped, Slot
  <2>3. QueueTyped'
    <3> DEFINE slot == [queue[m] EXCEPT !.at = "hidden"]
    <3>1. slot \in Slot /\ slot.at # "absent" /\ slot.project # None
      BY <2>1, <2>2 DEF Slot
    <3>2. queue' = [queue EXCEPT ![m] = slot]
      BY <1>5 DEF Receive
    <3> HIDE DEF slot
    <3> QED BY <3>1, <3>2, SlotTyped
  <2>4. ProjectsTyped'
    BY <1>5, TypesKept DEF Receive, ProjectsTyped
  <2>5. StepsTyped' /\ WorkTyped'
    <3>1. /\ pc' = [pc EXCEPT ![c] = "send"]
          /\ about' = [about EXCEPT ![c] = queue[m].project]
          /\ holds' = [holds EXCEPT ![c] = m]
          /\ ok' \in [Process -> BOOLEAN]
          /\ UNCHANGED target
      BY <1>5 DEF Receive, WorkTyped
    <3>2. "send" \in ConsumerStep
      BY DEF ConsumerStep, SendStep
    <3> QED BY <2>2, <3>1, <3>2, ConsumerTyped
  <2> QED BY <2>3, <2>4, <2>5
<1> QED BY <1>1, <1>2, <1>3, <1>4, <1>5 DEF ConsumerProceeds

LEMMA OtherStepsTyped ==
    ASSUME TypeOK, (\E m \in Message : Expire(m)) \/ ByHand \/ UNCHANGED vars
    PROVE  TypeOK'
<1> USE TypeParts
<1>1. ASSUME NEW m \in Message, Expire(m)
      PROVE  TypeOK'
  <2> DEFINE slot == [queue[m] EXCEPT !.at = "visible"]
  <2>1. slot \in Slot /\ slot.at # "absent" /\ slot.project # None
    BY <1>1 DEF Expire, QueueTyped, Slot
  <2>2. queue' = [queue EXCEPT ![m] = slot]
    BY <1>1 DEF Expire
  <2> HIDE DEF slot
  <2>3. QueueTyped'
    BY <2>1, <2>2, SlotTyped
  <2> QED BY <1>1, <2>3, TypesKept DEF Expire, ProjectsTyped
<1>2. CASE ByHand
  <2>1. state' \in [Project -> Status]
    BY <1>2 DEF ByHand, MarkByHand, UpdateStatus, ProjectsTyped
  <2>2. pol' \in [Project -> BOOLEAN] /\ receipt' \in [Project -> Receipt]
    BY <1>2 DEF ByHand, MarkByHand, UpdateStatus, ProjectsTyped, Receipt
  <2>3. /\ ProjectsTyped'
        /\ UNCHANGED <<queue, processVars>>
    BY <1>2, <2>1, <2>2 DEF ByHand, MarkByHand, UpdateStatus, ProjectsTyped
  <2> QED BY <2>3, TypesKept
<1>3. CASE UNCHANGED vars
  BY <1>3, TypesKept DEF vars, ProjectsTyped
<1> QED BY <1>1, <1>2, <1>3

LEMMA TypeInductive == TypeOK /\ [Next]_vars => TypeOK'
BY RequestStartsTyped, RequestProceedsTyped, RequestGoesWrongTyped,
   ConsumerStepTyped, OtherStepsTyped DEF Next

LEMMA TypeInitial == Init => TypeOK
<1> SUFFICES ASSUME Init PROVE TypeOK
  OBVIOUS
<1>1. ProjectsTyped
  BY ConstantAssumption DEF Init, ProjectsTyped, Receipt
<1>2. QueueTyped
  BY DEF Init, QueueTyped, EmptySlot, Slot
<1>3. StepsTyped /\ WorkTyped
  BY ConstantAssumption DEF Init, StepsTyped, WorkTyped, Process
<1> QED BY <1>1, <1>2, <1>3, TypeParts

\* Every reachable state has the declared types: among them, a slot of the
\* queue is in use exactly if it names a project, and a process works on a
\* project, and a consumer on a message, exactly while it is busy.
THEOREM SubmissionTypeCorrect == Spec => []TypeOK
BY TypeInitial, TypeInductive, PTL DEF Spec

----------------------------------------------------------------------------
(* What the records mean                                                   *)

\* A process holds the answer 200 only after the external system accepted its
\* project's proposal, and it goes on to stamp only with that answer.
ProcessReceipt(x) ==
    /\ pc[x] \in {"idle", "send"} => ~ok[x]
    /\ pc[x] = "record" /\ ok[x] => receipt[about[x]] # "never"
    /\ pc[x] = "stamp" => receipt[about[x]] # "never"

ReceiptInv ==
    /\ RecordsMeanReceived
    /\ \A x \in Process : ProcessReceipt(x)

\* A step keeps the invariant if it never takes a receipt back, and rows and
\* processes change only along with it.
LEMMA ReceiptKept ==
    ASSUME StepsTyped, WorkTyped, ReceiptInv,
           \A p \in Project : receipt[p] # "never" => receipt'[p] # "never",
           \A p \in Project : pol'[p] \/ succeeded'[p] =>
                                 pol[p] \/ succeeded[p] \/ receipt'[p] # "never",
           \A x \in Process : \/ /\ pc'[x] = pc[x]
                                 /\ about'[x] = about[x]
                                 /\ ok'[x] = ok[x]
                              \/ ProcessReceipt(x)'
    PROVE  ReceiptInv'
<1>1. RecordsMeanReceived'
  BY DEF ReceiptInv, RecordsMeanReceived
<1>2. ASSUME NEW x \in Process
      PROVE  ProcessReceipt(x)'
  <2>1. pc[x] # "idle" => about[x] \in Project
    BY Busy
  <2> QED BY <2>1 DEF ReceiptInv, ProcessReceipt
<1> QED BY <1>1, <1>2 DEF ReceiptInv

\* What the ways of changing one process do to the others.
LEMMA OneProcess ==
    ASSUME StepsTyped, WorkTyped, NEW x \in Process,
           \/ \E step : Goto(x, step) /\ UNCHANGED ok
           \/ x \in Request /\ EndRequest(x)
           \/ x \in Consumer /\ EndConsumer(x)
           \/ \E p, step, s : x \in Request /\ Take(x, p, step, s)
    PROVE  \A y \in Process \ {x} :
              pc'[y] = pc[y] /\ about'[y] = about[y] /\ ok'[y] = ok[y]
BY DEF StepsTyped, WorkTyped, Goto, EndRequest, EndConsumer, Take

LEMMA ReceiptSending ==
    ASSUME TypeOK, ReceiptInv, NEW x \in Process, Sending(x)
    PROVE  ReceiptInv'
<1> USE TypeParts
<1>1. about[x] \in Project /\ pc[x] # "idle"
  BY Busy DEF Sending, Send, SendAccepted, SendFails, SendDisabled, Record, Stamp
<1>2. ProcessReceipt(x)
  BY DEF ReceiptInv
<1>3. CASE Send(x)
  <2>1. Goto(x, "record") /\ pc[x] = "send" /\ ~ok[x] /\ UNCHANGED rowVars
    BY <1>2, <1>3 DEF Send, SendAccepted, SendFails, SendDisabled, ProcessReceipt
  <2>2. pc' = [pc EXCEPT ![x] = "record"] /\ about' = about
    BY <2>1 DEF Goto
  <2>3. \A p \in Project : receipt[p] # "never" => receipt'[p] # "never"
    BY <1>3 DEF Send, SendAccepted, SendFails, SendDisabled, ProjectsTyped
  <2>4. ok'[x] => receipt'[about'[x]] # "never"
    BY <1>1, <1>3, <2>1, <2>2
    DEF Send, SendAccepted, SendFails, SendDisabled, ProjectsTyped, WorkTyped
  <2>5. ProcessReceipt(x)'
    BY <2>2, <2>4 DEF ProcessReceipt, StepsTyped
  <2>6. \A y \in Process \ {x} :
           pc'[y] = pc[y] /\ about'[y] = about[y] /\ ok'[y] = ok[y]
    BY <1>3, <2>2
    DEF Send, SendAccepted, SendFails, SendDisabled, StepsTyped, WorkTyped
  <2> QED BY <2>1, <2>3, <2>5, <2>6, ReceiptKept DEF rowVars
<1>4. CASE Record(x)
  <2>1. \A p \in Project : succeeded'[p] => succeeded[p] \/ receipt[p] # "never"
    BY <1>1, <1>2, <1>4
    DEF Record, ProcessReceipt, Successful, ProjectsTyped, WorkTyped
  <2>2. PICK step \in {"stamp", "delete", "finish"} :
           Goto(x, step) /\ (step = "stamp" => ok[x])
    BY <1>4 DEF Record, SendReturns, Successful
  <2>3. UNCHANGED <<pol, ok, receipt>>
    BY <1>4 DEF Record
  <2>4. ProcessReceipt(x)'
    BY <1>1, <1>2, <1>4, <2>2, <2>3 DEF Record, ProcessReceipt, Goto, StepsTyped
  <2>5. \A y \in Process \ {x} :
           pc'[y] = pc[y] /\ about'[y] = about[y] /\ ok'[y] = ok[y]
    BY <2>2, <2>3, OneProcess
  <2> QED BY <2>1, <2>3, <2>4, <2>5, ReceiptKept
<1>5. CASE Stamp(x)
  <2>1. \A p \in Project : pol'[p] => pol[p] \/ receipt[p] # "never"
    BY <1>1, <1>2, <1>5 DEF Stamp, ProcessReceipt, ProjectsTyped
  <2>2. PICK step \in {"delete", "finish"} : Goto(x, step)
    BY <1>5 DEF Stamp, SendReturns
  <2>3. UNCHANGED <<succeeded, ok, receipt>>
    BY <1>5 DEF Stamp
  <2>4. ProcessReceipt(x)'
    BY <2>2 DEF ProcessReceipt, Goto, StepsTyped
  <2>5. \A y \in Process \ {x} :
           pc'[y] = pc[y] /\ about'[y] = about[y] /\ ok'[y] = ok[y]
    BY <2>2, <2>3, OneProcess
  <2> QED BY <2>1, <2>3, <2>4, <2>5, ReceiptKept
<1> QED BY <1>3, <1>4, <1>5 DEF Sending

LEMMA ReceiptRequests ==
    ASSUME TypeOK, ReceiptInv, NEW r \in Request,
           RequestStarts(r) \/ RequestProceeds(r) \/ RequestGoesWrong(r)
    PROVE  ReceiptInv'
<1> USE TypeParts
<1>r. r \in Process
  BY DEF Process
<1>1. CASE RequestStarts(r)
  <2>1. PICK p \in Project, step \in RequestStep, s \in Status : Take(r, p, step, s)
    <3>1. PICK p \in Project :
             \/ Submit(r, p) \/ Resubmit(r, p) \/ FixLegacy(r, p)
             \/ \E s \in Status : ExternalUpdate(r, p, s)
      BY <1>1 DEF RequestStarts
    <3> QED BY <3>1, ConstantAssumption
            DEF Submit, Resubmit, FixLegacy, ExternalUpdate, RequestStep, SendStep
  <2>2. UNCHANGED <<rowVars, receipt>>
    BY <1>1 DEF RequestStarts, Submit, Resubmit, FixLegacy, ExternalUpdate
  <2>3. ~ok[r] /\ pc[r] = "idle" /\ UNCHANGED ok
    BY <1>r, <2>1 DEF Take, ReceiptInv, ProcessReceipt
  <2>4. pc'[r] \notin {"record", "stamp"}
    <3>1. \/ Take(r, p, "commit", s) \/ Take(r, p, "send", s)
          \/ Take(r, p, "fix", s) \/ Take(r, p, "decide", s)
      BY <1>1, <1>r, <2>1
      DEF RequestStarts, Submit, Resubmit, FixLegacy, ExternalUpdate, Take, StepsTyped
    <3> QED BY <1>r, <3>1 DEF Take, StepsTyped
  <2>5. ProcessReceipt(r)'
    BY <2>3, <2>4 DEF ProcessReceipt
  <2>6. \A y \in Process \ {r} :
           pc'[y] = pc[y] /\ about'[y] = about[y] /\ ok'[y] = ok[y]
    BY <1>r, <2>1, OneProcess
  <2> QED BY <2>2, <2>5, <2>6, ReceiptKept DEF rowVars
<1>2. CASE Commit(r)
  <2>1. Goto(r, "enqueue") /\ UNCHANGED <<pol, succeeded, ok>>
    BY <1>2 DEF Commit
  <2>2. \A p \in Project : receipt[p] # "never" => receipt'[p] # "never"
    BY <1>2 DEF Commit, ProjectsTyped
  <2>3. ProcessReceipt(r)'
    BY <1>r, <2>1 DEF ProcessReceipt, Goto, StepsTyped
  <2>4. \A y \in Process \ {r} :
           pc'[y] = pc[y] /\ about'[y] = about[y] /\ ok'[y] = ok[y]
    BY <1>r, <2>1, OneProcess
  <2> QED BY <2>1, <2>2, <2>3, <2>4, ReceiptKept
<1>3. CASE Sending(r)
  BY <1>r, <1>3, ReceiptSending
<1>4. CASE \/ WriteState(r) \/ SetSubmittedAt(r) \/ RequestGoesWrong(r)
           \/ \E m \in Message : Enqueue(r, m)
  <2>1. EndRequest(r) /\ UNCHANGED <<pol, succeeded, receipt>>
    BY <1>4 DEF WriteState, SetSubmittedAt, RequestGoesWrong, CommitFails,
                EnqueueFails, RequestLost, Enqueue, rowVars
  <2>2. ProcessReceipt(r)'
    BY <1>r, <2>1 DEF EndRequest, ProcessReceipt, StepsTyped, WorkTyped
  <2>3. \A y \in Process \ {r} :
           pc'[y] = pc[y] /\ about'[y] = about[y] /\ ok'[y] = ok[y]
    BY <1>r, <2>1, OneProcess
  <2> QED BY <2>1, <2>2, <2>3, ReceiptKept
<1> QED BY <1>1, <1>2, <1>3, <1>4 DEF RequestProceeds

LEMMA ReceiptConsumers ==
    ASSUME TypeOK, ReceiptInv, NEW c \in Consumer,
           \/ ConsumerProceeds(c) \/ HandlerThrows(c)
           \/ \E m \in Message : Receive(c, m)
    PROVE  ReceiptInv'
<1> USE TypeParts
<1>c. c \in Process
  BY DEF Process
<1>1. CASE LoadMissing(c)
  <2>1. Goto(c, "delete") /\ UNCHANGED <<rowVars, ok, receipt>>
    BY <1>1 DEF LoadMissing, SendReturns
  <2>2. ProcessReceipt(c)'
    BY <1>c, <2>1 DEF ProcessReceipt, Goto, StepsTyped
  <2>3. \A y \in Process \ {c} :
           pc'[y] = pc[y] /\ about'[y] = about[y] /\ ok'[y] = ok[y]
    BY <1>c, <2>1, OneProcess
  <2> QED BY <2>1, <2>2, <2>3, ReceiptKept DEF rowVars
<1>2. CASE Sending(c)
  BY <1>c, <1>2, ReceiptSending
<1>3. CASE Delete(c) \/ HandlerThrows(c)
  <2>1. EndConsumer(c) /\ UNCHANGED <<rowVars, receipt>>
    BY <1>3 DEF Delete, HandlerThrows
  <2>2. ProcessReceipt(c)'
    BY <1>c, <2>1 DEF EndConsumer, ProcessReceipt, StepsTyped, WorkTyped
  <2>3. \A y \in Process \ {c} :
           pc'[y] = pc[y] /\ about'[y] = about[y] /\ ok'[y] = ok[y]
    BY <1>c, <2>1, OneProcess
  <2> QED BY <2>1, <2>2, <2>3, ReceiptKept DEF rowVars
<1>4. ASSUME NEW m \in Message, Receive(c, m)
      PROVE  ReceiptInv'
  <2>1. /\ pc[c] = "idle"
        /\ pc' = [pc EXCEPT ![c] = "send"]
        /\ about' = [about EXCEPT ![c] = queue[m].project]
        /\ UNCHANGED <<rowVars, ok, receipt>>
    BY <1>4 DEF Receive
  <2>2. ProcessReceipt(c)'
    BY <1>c, <2>1 DEF ReceiptInv, ProcessReceipt, StepsTyped
  <2>3. \A y \in Process \ {c} :
           pc'[y] = pc[y] /\ about'[y] = about[y] /\ ok'[y] = ok[y]
    BY <2>1 DEF StepsTyped, WorkTyped
  <2> QED BY <2>1, <2>2, <2>3, ReceiptKept DEF rowVars
<1> QED BY <1>1, <1>2, <1>3, <1>4 DEF ConsumerProceeds

LEMMA ReceiptOthers ==
    ASSUME TypeOK, ReceiptInv,
           (\E m \in Message : Expire(m)) \/ ByHand \/ UNCHANGED vars
    PROVE  ReceiptInv'
<1>1. UNCHANGED processVars
  BY DEF Expire, ByHand, MarkByHand, UpdateStatus, vars
<1>2. /\ \A p \in Project : receipt[p] # "never" => receipt'[p] # "never"
      /\ \A p \in Project : pol'[p] \/ succeeded'[p] =>
                               pol[p] \/ succeeded[p] \/ receipt'[p] # "never"
  BY TypeParts DEF Expire, ByHand, MarkByHand, UpdateStatus, vars, rowVars, ProjectsTyped
<1> QED BY <1>1, <1>2, TypeParts, ReceiptKept DEF processVars

\* No interleaving of consumers, resubmissions, lost answers, crashes and
\* redeliveries records or stamps a success that did not happen.
THEOREM RecordsAreTrue == Spec => []RecordsMeanReceived
<1>1. Init => ReceiptInv
  BY DEF Init, ReceiptInv, RecordsMeanReceived, ProcessReceipt
<1>2. TypeOK /\ ReceiptInv /\ [Next]_vars => ReceiptInv'
  BY ReceiptRequests, ReceiptConsumers, ReceiptOthers DEF Next
<1>3. ReceiptInv => RecordsMeanReceived
  BY DEF ReceiptInv
<1> QED BY <1>1, <1>2, <1>3, SubmissionTypeCorrect, PTL DEF Spec

----------------------------------------------------------------------------
(* What is on the queue was committed                                      *)

QueuedInv ==
    /\ QueuedWasCommitted
    /\ \A r \in Request : pc[r] = "enqueue" => submittedAt[about[r]]

\* submitted_at is never cleared, and a message, a consumer and a request about
\* to enqueue come by their project in ways that keep the invariant.
LEMMA QueuedKept ==
    ASSUME QueueTyped, StepsTyped, WorkTyped, QueuedInv, QueueTyped',
           \A p \in Project : submittedAt[p] => submittedAt'[p],
           \A m \in Message : queue'[m].project # None =>
              \/ queue'[m].project = queue[m].project
              \/ submittedAt'[queue'[m].project],
           \A c \in Consumer : pc'[c] # "idle" =>
              \/ pc[c] # "idle" /\ about'[c] = about[c]
              \/ submittedAt'[about'[c]],
           \A r \in Request : pc'[r] = "enqueue" =>
              \/ pc[r] = "enqueue" /\ about'[r] = about[r]
              \/ submittedAt'[about'[r]]
    PROVE  QueuedInv'
<1>1. ASSUME NEW m \in Message, queue'[m].project # None
      PROVE  submittedAt'[queue'[m].project]
  BY <1>1 DEF QueuedInv, QueuedWasCommitted, QueueTyped, Slot
<1>2. ASSUME NEW c \in Consumer, pc'[c] # "idle"
      PROVE  submittedAt'[about'[c]]
  BY <1>2, Busy DEF QueuedInv, QueuedWasCommitted, Process
<1>3. ASSUME NEW r \in Request, pc'[r] = "enqueue"
      PROVE  submittedAt'[about'[r]]
  BY <1>3, Busy DEF QueuedInv, Process
<1> QED BY <1>1, <1>2, <1>3 DEF QueuedInv, QueuedWasCommitted

\* Sending, skipping and ending never bring a project to a process, nor a
\* message to the queue.
LEMMA QueuedSameProjects ==
    ASSUME TypeOK, TypeOK', QueuedInv,
           \A p \in Project : submittedAt[p] => submittedAt'[p],
           \A m \in Message : queue'[m].project \in {None, queue[m].project},
           \A x \in Process : \/ pc'[x] = "idle"
                              \/ pc'[x] = pc[x] /\ about'[x] = about[x]
                              \/ /\ pc[x] # "idle"
                                 /\ pc'[x] # "enqueue"
                                 /\ about'[x] = about[x]
    PROVE  QueuedInv'
<1>1. Consumer \subseteq Process /\ Request \subseteq Process
  BY DEF Process
<1> QED BY <1>1, QueuedKept, TypeParts

LEMMA QueuedSending ==
    ASSUME TypeOK, TypeOK', QueuedInv, NEW x \in Process,
           Sending(x) \/ (x \in Consumer /\ LoadMissing(x))
    PROVE  QueuedInv'
<1>1. PICK step \in {"record", "stamp", "delete", "finish"} : Goto(x, step)
  BY DEF Sending, Send, SendAccepted, SendFails, SendDisabled, Record, Stamp,
         LoadMissing, SendReturns
<1>2. pc[x] # "idle" /\ UNCHANGED submittedAt
  BY DEF Sending, Send, SendAccepted, SendFails, SendDisabled, Record, Stamp,
         LoadMissing, rowVars
<1>3. \A m \in Message : queue'[m].project = queue[m].project
  <2>1. UNCHANGED queue \/ SendReturns(x)
    BY DEF Sending, Send, SendAccepted, SendFails, SendDisabled, Record, Stamp,
           LoadMissing
  <2> QED BY <2>1, TypeParts DEF SendReturns, QueueTyped, Slot
<1>4. /\ pc' = [pc EXCEPT ![x] = step]
      /\ UNCHANGED about
  BY <1>1 DEF Goto
<1> QED BY <1>2, <1>3, <1>4, TypeParts, QueuedSameProjects DEF StepsTyped

LEMMA QueuedRequests ==
    ASSUME TypeOK, TypeOK', QueuedInv, NEW r \in Request,
           RequestStarts(r) \/ RequestProceeds(r) \/ RequestGoesWrong(r)
    PROVE  QueuedInv'
<1> USE TypeParts
<1>r. r \in Process /\ r \notin Consumer
  BY ConstantAssumption DEF Process
<1>1. CASE RequestStarts(r)
  <2>1. PICK p \in Project, s \in Status, step \in {"commit", "send", "fix", "decide"} :
           Take(r, p, step, s)
    <3>1. PICK p \in Project :
             \/ Submit(r, p) \/ Resubmit(r, p) \/ FixLegacy(r, p)
             \/ \E s \in Status : ExternalUpdate(r, p, s)
      BY <1>1 DEF RequestStarts
    <3> QED BY <3>1, ConstantAssumption
            DEF Submit, Resubmit, FixLegacy, ExternalUpdate
  <2>2. UNCHANGED <<submittedAt, queue>>
    BY <1>1 DEF RequestStarts, Submit, Resubmit, FixLegacy, ExternalUpdate, rowVars
  <2>3. /\ pc' = [pc EXCEPT ![r] = step]
        /\ about' = [about EXCEPT ![r] = p]
    BY <2>1 DEF Take
  <2>4. \A x \in Process \ {r} : pc'[x] = pc[x] /\ about'[x] = about[x]
    BY <1>r, <2>1, OneProcess
  <2>5. \A c \in Consumer : pc'[c] = pc[c] /\ about'[c] = about[c]
    BY <1>r, <2>4 DEF Process
  <2>6. \A q \in Request : pc'[q] = "enqueue" => pc[q] = "enqueue" /\ about'[q] = about[q]
    BY <1>r, <2>3, <2>4 DEF Process, StepsTyped
  <2> QED BY <2>2, <2>5, <2>6, QueuedKept
<1>2. CASE Commit(r)
  <2>1. Goto(r, "enqueue") /\ UNCHANGED <<ok, queue>>
    BY <1>2 DEF Commit
  <2>2. about[r] \in Project
    BY <1>r, <1>2, Busy DEF Commit
  <2>3. /\ \A p \in Project : submittedAt[p] => submittedAt'[p]
        /\ submittedAt'[about[r]]
    BY <1>2, <2>2 DEF Commit, ProjectsTyped
  <2>4. /\ pc' = [pc EXCEPT ![r] = "enqueue"]
        /\ UNCHANGED about
    BY <2>1 DEF Goto
  <2>5. \A c \in Consumer : pc'[c] = pc[c]
    BY <1>r, <2>4 DEF StepsTyped, Process
  <2>6. \A q \in Request : pc'[q] = "enqueue" => pc[q] = "enqueue" \/ q = r
    BY <2>4 DEF StepsTyped, Process
  <2> QED BY <2>1, <2>3, <2>4, <2>5, <2>6, QueuedKept
<1>3. CASE Sending(r)
  BY <1>r, <1>3, QueuedSending
<1>4. CASE WriteState(r) \/ SetSubmittedAt(r) \/ RequestGoesWrong(r)
  <2>1. EndRequest(r) /\ UNCHANGED queue
    BY <1>4 DEF WriteState, SetSubmittedAt, RequestGoesWrong, CommitFails,
                EnqueueFails, RequestLost
  <2>2. \A p \in Project : submittedAt[p] => submittedAt'[p]
    BY <1>4 DEF WriteState, SetSubmittedAt, RequestGoesWrong, CommitFails,
                EnqueueFails, RequestLost, rowVars, ProjectsTyped
  <2>3. pc'[r] = "idle"
    BY <1>r, <2>1 DEF EndRequest, StepsTyped
  <2>4. \A x \in Process \ {r} : pc'[x] = pc[x] /\ about'[x] = about[x]
    BY <1>r, <2>1, OneProcess
  <2> QED BY <2>1, <2>2, <2>3, <2>4, QueuedSameProjects
<1>5. ASSUME NEW m \in Message, Enqueue(r, m)
      PROVE  QueuedInv'
  <2>1. /\ submittedAt[about[r]]
        /\ EndRequest(r)
        /\ UNCHANGED submittedAt
    BY <1>5 DEF Enqueue, QueuedInv, rowVars
  <2>2. queue'[m].project = about[r] /\ \A n \in Message \ {m} : queue'[n] = queue[n]
    BY <1>5 DEF Enqueue, QueueTyped
  <2>3. \A x \in Process \ {r} : pc'[x] = pc[x] /\ about'[x] = about[x]
    BY <1>r, <2>1, OneProcess
  <2>4. pc'[r] = "idle"
    BY <1>r, <2>1 DEF EndRequest, StepsTyped
  <2>5. Consumer \subseteq Process \ {r} /\ Request \subseteq Process
    BY <1>r DEF Process
  <2>6. \A n \in Message : queue'[n].project # None =>
           \/ queue'[n].project = queue[n].project
           \/ submittedAt'[queue'[n].project]
    BY <2>1, <2>2
  <2>7. \A c \in Consumer : pc'[c] = pc[c] /\ about'[c] = about[c]
    BY <2>3, <2>5
  <2>8. \A q \in Request : pc'[q] = "enqueue" => pc[q] = "enqueue" /\ about'[q] = about[q]
    BY <2>3, <2>4, <2>5
  <2> QED BY <2>1, <2>6, <2>7, <2>8, QueuedKept
<1> QED BY <1>1, <1>2, <1>3, <1>4, <1>5 DEF RequestProceeds

LEMMA QueuedConsumers ==
    ASSUME TypeOK, TypeOK', QueuedInv, NEW c \in Consumer,
           \/ ConsumerProceeds(c) \/ HandlerThrows(c)
           \/ \E m \in Message : Receive(c, m)
    PROVE  QueuedInv'
<1> USE TypeParts
<1>c. c \in Process
  BY DEF Process
<1>1. CASE LoadMissing(c) \/ Sending(c)
  BY <1>c, <1>1, QueuedSending
<1>2. CASE Delete(c) \/ HandlerThrows(c)
  <2>1. EndConsumer(c) /\ UNCHANGED submittedAt
    BY <1>2 DEF Delete, HandlerThrows, rowVars
  <2>2. \A m \in Message : queue'[m].project \in {None, queue[m].project}
    BY <1>2 DEF Delete, HandlerThrows, Removed, QueueTyped, Slot
  <2>3. pc'[c] = "idle"
    BY <1>c, <2>1 DEF EndConsumer, StepsTyped
  <2>4. \A x \in Process \ {c} : pc'[x] = pc[x] /\ about'[x] = about[x]
    BY <1>c, <2>1, OneProcess
  <2> QED BY <2>1, <2>2, <2>3, <2>4, QueuedSameProjects
<1>3. ASSUME NEW m \in Message, Receive(c, m)
      PROVE  QueuedInv'
  <2>1. queue[m].project # None
    BY <1>3 DEF Receive, QueueTyped, Slot
  <2>2. submittedAt[queue[m].project] /\ UNCHANGED submittedAt
    BY <1>3, <2>1 DEF Receive, QueuedInv, QueuedWasCommitted, rowVars
  <2>3. /\ pc' = [pc EXCEPT ![c] = "send"]
        /\ about' = [about EXCEPT ![c] = queue[m].project]
    BY <1>3 DEF Receive
  <2>4. \A n \in Message : queue'[n].project = queue[n].project
    BY <1>3 DEF Receive, QueueTyped, Slot
  <2>5. \A d \in Consumer : d # c => pc'[d] = pc[d] /\ about'[d] = about[d]
    BY <2>3 DEF StepsTyped, WorkTyped, Process
  <2>6. about'[c] = queue[m].project
    BY <1>c, <2>3 DEF WorkTyped
  <2>7. \A r \in Request : pc'[r] = "enqueue" => pc[r] = "enqueue" /\ about'[r] = about[r]
    BY <1>c, <2>3, ConstantAssumption DEF StepsTyped, WorkTyped, Process
  <2> QED BY <2>2, <2>4, <2>5, <2>6, <2>7, QueuedKept
<1> QED BY <1>1, <1>2, <1>3 DEF ConsumerProceeds

LEMMA QueuedOthers ==
    ASSUME TypeOK, TypeOK', QueuedInv,
           (\E m \in Message : Expire(m)) \/ ByHand \/ UNCHANGED vars
    PROVE  QueuedInv'
<1>1. UNCHANGED <<processVars, submittedAt>>
  BY DEF Expire, ByHand, MarkByHand, UpdateStatus, vars, rowVars
<1>2. \A m \in Message : queue'[m].project = queue[m].project
  BY TypeParts DEF Expire, ByHand, MarkByHand, UpdateStatus, vars, QueueTyped, Slot
<1> QED BY <1>1, <1>2, QueuedSameProjects DEF processVars

\* The message follows the transaction: whatever fails between the two, and
\* however messages are redelivered, only committed submissions are sent.
THEOREM OnlyCommittedQueued == Spec => []QueuedWasCommitted
<1>1. Init => QueuedInv
  BY DEF Init, QueuedInv, QueuedWasCommitted, EmptySlot, Process
<1>2. TypeOK /\ TypeOK' /\ QueuedInv /\ [Next]_vars => QueuedInv'
  BY QueuedRequests, QueuedConsumers, QueuedOthers DEF Next
<1>3. QueuedInv => QueuedWasCommitted
  BY DEF QueuedInv
<1> QED BY <1>1, <1>2, <1>3, SubmissionTypeCorrect, PTL DEF Spec

----------------------------------------------------------------------------
(* Delivery                                                                *)

Pending == {m \in Message : queue[m].at # "absent"}
Handled == {m \in Message : queue[m].handled}

\* A consumer about to delete has handled its message; and a message that
\* some consumer still holds after another one deleted it was handled.
HoldInv ==
    \A c \in Consumer :
        /\ pc[c] = "delete" => queue[holds[c]].handled
        /\ pc[c] # "idle" /\ queue[holds[c]].at = "absent" =>
              queue[holds[c]].handled

\* Where a step leaves every message: as far as delivery is concerned, it is
\* one of the queue's operations on one message, or none.
SameMessages ==
    \A m \in Message : /\ queue'[m].at = "absent" <=> queue[m].at = "absent"
                       /\ queue'[m].handled = queue[m].handled

LEMMA SameMessagesStutter ==
    ASSUME SameMessages
    PROVE  UNCHANGED <<Pending, Handled>>
BY DEF SameMessages, Pending, Handled

\* The end of send is a handling of the consumer's message, or, if another
\* consumer has deleted it meanwhile, no step of the queue.
LEMMA SendReturnsHandles ==
    ASSUME TypeOK, HoldInv, NEW x \in Process, pc[x] # "idle", SendReturns(x)
    PROVE  /\ \/ UNCHANGED <<Pending, Handled>>
              \/ \E m \in Message : D!Handle(m)
           /\ HoldInv'
<1> USE TypeParts
<1>1. CASE x \notin Consumer
  <2>1. \A m \in Message : queue'[m] = queue[m]
    BY <1>1 DEF SendReturns
  <2>2. UNCHANGED <<Pending, Handled>>
    BY <2>1, SameMessagesStutter DEF SameMessages
  <2>3. \A c \in Consumer : pc'[c] = pc[c] /\ holds'[c] = holds[c]
    BY <1>1 DEF SendReturns, Goto, StepsTyped, Process
  <2>4. \A c \in Consumer : pc[c] # "idle" => holds[c] \in Message
    BY Busy DEF Process
  <2>5. ASSUME NEW c \in Consumer, pc'[c] # "idle"
        PROVE  queue'[holds'[c]] = queue[holds[c]] /\ pc'[c] = pc[c]
    BY <2>1, <2>3, <2>4, <2>5
  <2>6. HoldInv'
    BY <2>5 DEF HoldInv
  <2> QED BY <2>2, <2>6
<1>2. CASE x \in Consumer
  <2>1. holds[x] \in Message
    BY <1>2, Busy
  <2>2. \A m \in Message :
           /\ queue'[m].at = queue[m].at
           /\ m = holds[x] => queue'[m].handled
           /\ m # holds[x] => queue'[m].handled = queue[m].handled
    <3>1. \A m \in Message : queue[m] \in Slot
      BY DEF QueueTyped
    <3>2. \A m \in Message :
             queue'[m] = IF m = holds[x] THEN [queue[m] EXCEPT !.handled = TRUE]
                         ELSE queue[m]
      BY <1>2 DEF SendReturns
    <3> QED BY <3>1, <3>2 DEF Slot
  <2>3. Pending' = Pending
    BY <2>2 DEF Pending
  <2>4. Handled' = Handled \cup {holds[x]}
    BY <2>1, <2>2 DEF Handled
  <2>5. HoldInv'
    <3>1. \A c \in Consumer : /\ holds'[c] = holds[c]
                              /\ pc'[c] = IF c = x THEN "delete" ELSE pc[c]
      BY <1>2 DEF SendReturns, Goto, StepsTyped, Process
    <3>2. \A c \in Consumer : pc[c] # "idle" => holds[c] \in Message
      BY Busy DEF Process
    <3>3. ASSUME NEW c \in Consumer, pc'[c] # "idle"
          PROVE  /\ holds[c] \in Message
                 /\ c # x => pc[c] = pc'[c] /\ pc[c] # "idle"
      BY <3>1, <3>2, <3>3, <2>1
    <3>4. ASSUME NEW c \in Consumer, pc'[c] # "idle"
          PROVE  /\ pc'[c] = "delete" => queue'[holds[c]].handled
                 /\ queue'[holds[c]].at = "absent" => queue'[holds[c]].handled
      <4>1. CASE holds[c] = holds[x]
        BY <2>1, <2>2, <4>1
      <4>2. CASE holds[c] # holds[x]
        BY <2>2, <3>3, <3>4, <4>2 DEF HoldInv
      <4> QED BY <4>1, <4>2
    <3> QED BY <3>1, <3>4 DEF HoldInv
  <2>6. CASE queue[holds[x]].at = "absent"
    <3>1. holds[x] \in Handled
      BY <1>2, <2>1, <2>6 DEF HoldInv, Handled
    <3> QED BY <2>3, <2>4, <2>5, <3>1
  <2>7. CASE queue[holds[x]].at # "absent"
    <3>1. PICK m \in Message : m = holds[x]
      BY <2>1
    <3>2. D!Handle(m)
      BY <2>3, <2>4, <2>7, <3>1 DEF D!Handle, Pending, Handled
    <3> QED BY <2>5, <3>2
  <2> QED BY <2>6, <2>7
<1> QED BY <1>1, <1>2

\* A step that leaves the messages and what the other consumers hold alone.
LEMMA HoldKept ==
    ASSUME StepsTyped, WorkTyped, HoldInv, SameMessages,
           \A c \in Consumer : \/ pc'[c] = "idle"
                               \/ /\ pc'[c] = pc[c]
                                  /\ holds'[c] = holds[c]
                               \/ /\ pc[c] # "idle"
                                  /\ pc'[c] # "delete"
                                  /\ holds'[c] = holds[c]
    PROVE  HoldInv' /\ UNCHANGED <<Pending, Handled>>
<1>1. ASSUME NEW c \in Consumer, pc'[c] # "idle"
      PROVE  /\ holds'[c] = holds[c] /\ holds[c] \in Message /\ pc[c] # "idle"
             /\ pc'[c] = "delete" => pc[c] = "delete"
  BY <1>1, Busy DEF Process
<1> QED BY <1>1, SameMessagesStutter DEF HoldInv, SameMessages

LEMMA DeliverySending ==
    ASSUME TypeOK, HoldInv, NEW x \in Process,
           Sending(x) \/ (x \in Consumer /\ LoadMissing(x))
    PROVE  /\ \/ UNCHANGED <<Pending, Handled>>
              \/ \E m \in Message : D!Handle(m)
           /\ HoldInv'
<1>1. pc[x] # "idle"
  BY DEF Sending, Send, SendAccepted, SendFails, SendDisabled, Record, Stamp, LoadMissing
<1>2. CASE SendReturns(x)
  BY <1>1, <1>2, SendReturnsHandles
<1>3. CASE UNCHANGED queue /\ \E step \in {"record", "stamp"} : Goto(x, step)
  <2>1. SameMessages
    BY <1>3 DEF SameMessages
  <2>2. PICK step \in {"record", "stamp"} : pc' = [pc EXCEPT ![x] = step] /\ holds' = holds
    BY <1>3 DEF Goto
  <2>3. \A c \in Consumer : \/ pc'[c] = pc[c]
                            \/ c = x /\ pc'[c] # "delete"
    BY <2>2, TypeParts DEF StepsTyped, Process
  <2> QED BY <1>1, <2>1, <2>2, <2>3, HoldKept, TypeParts
<1>4. SendReturns(x) \/ (UNCHANGED queue /\ \E step \in {"record", "stamp"} : Goto(x, step))
  BY DEF Sending, Send, SendAccepted, SendFails, SendDisabled, Record, Stamp, LoadMissing
<1> QED BY <1>2, <1>3, <1>4

LEMMA DeliveryRequests ==
    ASSUME TypeOK, HoldInv, NEW r \in Request,
           RequestStarts(r) \/ RequestProceeds(r) \/ RequestGoesWrong(r)
    PROVE  /\ \/ UNCHANGED <<Pending, Handled>>
              \/ D!Next
           /\ HoldInv'
<1> USE TypeParts
<1>r. r \in Process /\ r \notin Consumer
  BY ConstantAssumption DEF Process
<1>1. CASE Sending(r)
  BY <1>r, <1>1, DeliverySending DEF D!Next
<1>2. CASE UNCHANGED queue /\ holds' = holds /\ \A c \in Consumer : pc'[c] = pc[c]
  BY <1>2, HoldKept DEF SameMessages
<1>3. ASSUME NEW m \in Message, Enqueue(r, m)
      PROVE  /\ D!Put(m)
             /\ HoldInv'
  <2>1. /\ queue[m].at = "absent"
        /\ queue'[m].at # "absent" /\ ~queue'[m].handled
        /\ \A n \in Message \ {m} : queue'[n] = queue[n]
    BY <1>3 DEF Enqueue, QueueTyped
  <2>2. D!Put(m)
    <3>1. m \notin Pending /\ Pending' = Pending \cup {m} /\ Handled' = Handled \ {m}
      BY <2>1 DEF Pending, Handled
    <3> QED BY <3>1 DEF D!Put, Pending, Handled
  <2>3. /\ \A c \in Consumer : holds[c] # m
        /\ EndRequest(r)
    BY <1>3 DEF Enqueue
  <2>4. \A c \in Consumer : pc'[c] = pc[c] /\ holds'[c] = holds[c]
    BY <1>r, <2>3 DEF EndRequest, StepsTyped, Process
  <2>5. ASSUME NEW c \in Consumer, pc[c] # "idle"
        PROVE  queue'[holds[c]] = queue[holds[c]]
    BY <2>1, <2>3, <2>5, Busy DEF Process
  <2>6. HoldInv'
    BY <2>4, <2>5 DEF HoldInv
  <2> QED BY <2>2, <2>6
<1>4. CASE Commit(r)
  <2>1. Goto(r, "enqueue") /\ UNCHANGED queue
    BY <1>4 DEF Commit
  <2> QED BY <1>2, <1>r, <2>1 DEF Goto, StepsTyped, Process
<1>5. CASE WriteState(r) \/ SetSubmittedAt(r) \/ RequestGoesWrong(r)
  <2>1. EndRequest(r) /\ UNCHANGED queue
    BY <1>5 DEF WriteState, SetSubmittedAt, RequestGoesWrong, CommitFails,
                EnqueueFails, RequestLost
  <2> QED BY <1>2, <1>r, <2>1 DEF EndRequest, StepsTyped, Process
<1>6. CASE RequestStarts(r)
  <2>1. UNCHANGED queue /\ \E p, step, s : Take(r, p, step, s)
    BY <1>6 DEF RequestStarts, Submit, Resubmit, FixLegacy, ExternalUpdate
  <2> QED BY <1>2, <1>r, <2>1 DEF Take, StepsTyped, Process
<1> QED BY <1>1, <1>3, <1>4, <1>5, <1>6 DEF RequestProceeds, D!Next

LEMMA DeliveryConsumers ==
    ASSUME TypeOK, HoldInv, NEW c \in Consumer,
           \/ ConsumerProceeds(c) \/ HandlerThrows(c)
           \/ \E m \in Message : Receive(c, m)
    PROVE  /\ \/ UNCHANGED <<Pending, Handled>>
              \/ D!Next
           /\ HoldInv'
<1> USE TypeParts
<1>c. c \in Process
  BY DEF Process
<1>1. CASE LoadMissing(c) \/ Sending(c)
  BY <1>c, <1>1, DeliverySending DEF D!Next
<1>2. CASE EndConsumer(c) /\ UNCHANGED queue
  <2>1. /\ pc'[c] = "idle"
        /\ \A d \in Consumer \ {c} : pc'[d] = pc[d] /\ holds'[d] = holds[d]
    BY <1>c, <1>2 DEF EndConsumer, StepsTyped, WorkTyped, Process
  <2> QED BY <1>2, <2>1, HoldKept DEF SameMessages
<1>3. CASE Delete(c) /\ queue' = Removed(holds[c])
  <2>m. PICK m \in Message : m = holds[c]
    BY <1>c, <1>3, Busy DEF Delete
  <2>1. queue[m].handled
    BY <1>3, <2>m DEF Delete, HoldInv
  <2>2. \A n \in Message :
           /\ queue'[n].at = IF n = m THEN "absent" ELSE queue[n].at
           /\ queue'[n].handled = queue[n].handled
    BY <1>3, <2>m DEF Removed, QueueTyped, Slot
  <2>3. \A d \in Consumer : pc'[d] # "idle" =>
           d # c /\ pc'[d] = pc[d] /\ holds'[d] = holds[d] /\ holds[d] \in Message
    <3>1. EndConsumer(c)
      BY <1>3 DEF Delete
    <3>2. /\ pc'[c] = "idle"
          /\ \A d \in Consumer \ {c} : pc'[d] = pc[d] /\ holds'[d] = holds[d]
      BY <1>c, <3>1 DEF EndConsumer, StepsTyped, WorkTyped, Process
    <3> QED BY <3>2, Busy DEF Process
  <2>4. HoldInv'
    BY <2>1, <2>2, <2>3 DEF HoldInv
  <2>5. Handled' = Handled /\ Pending' = Pending \ {m}
    BY <2>1, <2>2 DEF Handled, Pending
  <2>6. CASE queue[m].at # "absent"
    <3>1. D!Remove(m)
      BY <2>1, <2>5, <2>6 DEF D!Remove, Handled, Pending
    <3> QED BY <2>1, <2>4, <3>1 DEF D!Next
  <2>7. CASE queue[m].at = "absent"
    BY <2>4, <2>5, <2>7 DEF Pending
  <2> QED BY <2>6, <2>7
<1>4. ASSUME NEW m \in Message, Receive(c, m)
      PROVE  UNCHANGED <<Pending, Handled>> /\ HoldInv'
  <2>1. /\ queue[m].at = "visible"
        /\ queue' = [queue EXCEPT ![m].at = "hidden"]
        /\ pc' = [pc EXCEPT ![c] = "send"]
        /\ holds' = [holds EXCEPT ![c] = m]
    BY <1>4 DEF Receive
  <2>2. SameMessages
    BY <2>1 DEF SameMessages, QueueTyped, Slot
  <2>3. queue'[m].at # "absent"
    BY <2>1 DEF QueueTyped, Slot
  <2>4. pc'[c] # "delete" /\ holds'[c] = m
    BY <1>c, <2>1 DEF StepsTyped, WorkTyped
  <2>5. \A d \in Consumer \ {c} : pc'[d] = pc[d] /\ holds'[d] = holds[d]
    BY <2>1 DEF StepsTyped, WorkTyped, Process
  <2>6. \A d \in Consumer : pc[d] # "idle" => holds[d] \in Message
    BY Busy DEF Process
  <2>7. HoldInv'
    BY <2>2, <2>3, <2>4, <2>5, <2>6 DEF HoldInv, SameMessages
  <2> QED BY <2>2, <2>7, SameMessagesStutter
<1>5. \/ LoadMissing(c) \/ Sending(c)
      \/ EndConsumer(c) /\ UNCHANGED queue
      \/ Delete(c) /\ queue' = Removed(holds[c])
      \/ \E m \in Message : Receive(c, m)
  BY DEF ConsumerProceeds, HandlerThrows, Delete
<1> QED BY <1>1, <1>2, <1>3, <1>4, <1>5

LEMMA DeliveryOthers ==
    ASSUME TypeOK, HoldInv,
           (\E m \in Message : Expire(m)) \/ ByHand \/ UNCHANGED vars
    PROVE  UNCHANGED <<Pending, Handled>> /\ HoldInv'
<1>1. SameMessages
  BY TypeParts DEF Expire, ByHand, MarkByHand, UpdateStatus, vars, SameMessages,
                   QueueTyped, Slot
<1>2. UNCHANGED processVars
  BY DEF Expire, ByHand, MarkByHand, UpdateStatus, vars
<1> QED BY <1>1, <1>2, TypeParts, HoldKept DEF processVars

\* The queue and its consumers implement at-least-once delivery: no
\* interleaving of consumers, timeouts and crashes loses a message.
THEOREM DeliversAtLeastOnce == Spec => AtLeastOnce
<1>1. Init => D!Init /\ HoldInv
  BY DEF Init, D!Init, HoldInv, EmptySlot, Process
<1>2. TypeOK /\ HoldInv /\ [Next]_vars =>
         HoldInv' /\ (D!Next \/ UNCHANGED <<Pending, Handled>>)
  BY DeliveryRequests, DeliveryConsumers, DeliveryOthers DEF Next
<1>3. TypeOK /\ HoldInv /\ [Next]_vars =>
         [D!Next]_<<{m \in Message : queue[m].at # "absent"},
                    {m \in Message : queue[m].handled}>>
  BY <1>2 DEF Pending, Handled
<1> QED BY <1>1, <1>2, <1>3, SubmissionTypeCorrect, PTL DEF Spec, AtLeastOnce, D!Spec

=============================================================================
