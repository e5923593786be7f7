----------------------------- MODULE Submission -----------------------------
(***************************************************************************)
(* A project's way to the external proposal system.  Submitting commits    *)
(* the new state and then puts a message on a queue; a consumer on some    *)
(* instance takes it, sends the proposal, records the outcome and deletes  *)
(* the message.  Administrators resend, the external system reports its    *)
(* decision, and statuses are set by hand, all at the same time.  A        *)
(* request's read of the state and the write it leads to are two steps.    *)
(***************************************************************************)
EXTENDS Naturals, FiniteSets

CONSTANTS
    Project,      \* rows of pafs_core_projects
    Legacy,       \* those imported from the old system
    Status,       \* the members of PROJECT_STATUS told apart
    Message,      \* names for messages on the queue: bounds how many there are
    Consumer,     \* instances, each of which handles one message at a time
    Request,      \* slots for requests in progress
    MaxFailures,  \* bound: failures and crashes in a behaviour
    None          \* no project, no message

ASSUME ConstantAssumption ==
    /\ Legacy \subseteq Project
    /\ {"draft", "submitted", "completed"} \subseteq Status
    /\ Consumer \cap Request = {}
    /\ None \notin Project \cup Message
    /\ MaxFailures \in Nat

VARIABLES
    enabled,      \* externalSubmission.enabled
    state,        \* pafs_core_states.state of each project
    submittedAt,  \* is submitted_at set?
    pol,          \* is submitted_to_pol set?
    succeeded,    \* is there an attempt row with status success?
    queue,        \* each message: where it is, its project, was it handled?
    pc,           \* each consumer and request: its next step
    about,        \* the project it works on
    holds,        \* the message a consumer is handling
    ok,           \* did the external system answer 200?
    target,       \* the status a request is about to write
    receipt,      \* history: has the external system got the proposal?
    failures      \* number of failures and crashes so far

rowVars == <<state, submittedAt, pol, succeeded>>
processVars == <<pc, about, holds, ok, target>>
vars == <<enabled, rowVars, queue, processVars, receipt, failures>>

Process == Consumer \cup Request

Slot == [at: {"absent", "visible", "hidden"}, project: Project \cup {None},
         handled: BOOLEAN]
EmptySlot == [at |-> "absent", project |-> None, handled |-> FALSE]

SendStep == {"send", "record", "stamp"}
ConsumerStep == {"delete"} \cup SendStep
RequestStep == {"commit", "enqueue", "finish", "decide", "fix"} \cup SendStep

\* "never"; for a submission before the latest one; or for the latest.
\* An administrator's word that it was received counts as well.
Receipt == {"never", "earlier", "latest"}

Editable == {"draft", "revise"}            \* EDITABLE_STATUSES
ExternalStatus == {"draft", "approved", "rejected"} \cap Status

TypeOK ==
    /\ enabled \in BOOLEAN
    /\ state \in [Project -> Status]
    /\ submittedAt \in [Project -> BOOLEAN]
    /\ pol \in [Project -> BOOLEAN]
    /\ succeeded \in [Project -> BOOLEAN]
    /\ queue \in [Message -> Slot]
    /\ \A m \in Message : queue[m].at = "absent" <=> queue[m].project = None
    /\ pc \in [Process -> {"idle"} \cup ConsumerStep \cup RequestStep]
    /\ \A c \in Consumer : pc[c] \in {"idle"} \cup ConsumerStep
    /\ \A r \in Request : pc[r] \in {"idle"} \cup RequestStep
    /\ about \in [Process -> Project \cup {None}]
    /\ \A x \in Process : pc[x] = "idle" <=> about[x] = None
    /\ holds \in [Consumer -> Message \cup {None}]
    /\ \A c \in Consumer : pc[c] = "idle" <=> holds[c] = None
    /\ ok \in [Process -> BOOLEAN]
    /\ target \in [Request -> Status]
    /\ receipt \in [Project -> Receipt]
    /\ failures \in 0 .. MaxFailures

\* New projects are drafts; imported ones have the status they had.
Init ==
    /\ enabled \in BOOLEAN
    /\ state \in [Project -> Status]
    /\ \A p \in Project \ Legacy : state[p] = "draft"
    /\ submittedAt = [p \in Project |-> FALSE]
    /\ pol = [p \in Project |-> FALSE]
    /\ succeeded = [p \in Project |-> FALSE]
    /\ queue = [m \in Message |-> EmptySlot]
    /\ pc = [x \in Process |-> "idle"]
    /\ about = [x \in Process |-> None]
    /\ holds = [c \in Consumer |-> None]
    /\ ok = [x \in Process |-> FALSE]
    /\ target = [r \in Request |-> "draft"]
    /\ receipt = [p \in Project |-> "never"]
    /\ failures = 0

----------------------------------------------------------------------------
(* Steps of a process                                                      *)

Goto(x, step) ==
    /\ pc' = [pc EXCEPT ![x] = step]
    /\ UNCHANGED <<about, holds, target>>

Take(r, p, step, s) ==
    /\ pc[r] = "idle"
    /\ pc' = [pc EXCEPT ![r] = step]
    /\ about' = [about EXCEPT ![r] = p]
    /\ target' = [target EXCEPT ![r] = s]
    /\ UNCHANGED <<holds, ok>>

EndRequest(r) ==
    /\ pc' = [pc EXCEPT ![r] = "idle"]
    /\ about' = [about EXCEPT ![r] = None]
    /\ target' = [target EXCEPT ![r] = "draft"]
    /\ ok' = [ok EXCEPT ![r] = FALSE]
    /\ UNCHANGED holds

EndConsumer(c) ==
    /\ pc' = [pc EXCEPT ![c] = "idle"]
    /\ about' = [about EXCEPT ![c] = None]
    /\ holds' = [holds EXCEPT ![c] = None]
    /\ ok' = [ok EXCEPT ![c] = FALSE]
    /\ UNCHANGED target

Fails ==
    /\ failures < MaxFailures
    /\ failures' = failures + 1

----------------------------------------------------------------------------
(* Requests that change a status                                           *)

\* submit: the state is read, checked and the proposal validated.
Submit(r, p) ==
    /\ state[p] \in Editable
    /\ Take(r, p, "commit", "submitted")
    /\ UNCHANGED <<enabled, rowVars, queue, receipt, failures>>

\* transitionToSubmitted, one transaction.
Commit(r) ==
    /\ pc[r] = "commit"
    /\ state' = [state EXCEPT ![about[r]] = "submitted"]
    /\ submittedAt' = [submittedAt EXCEPT ![about[r]] = TRUE]
    /\ receipt' = [receipt EXCEPT ![about[r]] =
                     IF @ = "latest" THEN "earlier" ELSE @]
    /\ Goto(r, "enqueue")
    /\ UNCHANGED <<enabled, pol, succeeded, queue, ok, failures>>

\* Faulty: a transaction that failed is reported and forgotten.
CommitFailsUnnoticed(r) ==
    /\ pc[r] = "commit"
    /\ Fails
    /\ Goto(r, "enqueue")
    /\ UNCHANGED <<enabled, rowVars, queue, ok, receipt>>

\* It fails: the request ends with an error.
CommitFails(r) ==
    /\ pc[r] = "commit"
    /\ Fails
    /\ EndRequest(r)
    /\ UNCHANGED <<enabled, rowVars, queue, receipt>>

\* sendExternalSubmissionMessage
Enqueue(r, m) ==
    /\ pc[r] = "enqueue"
    /\ queue[m].at = "absent"
    /\ \A c \in Consumer : holds[c] # m
    /\ queue' = [queue EXCEPT ![m] = [at |-> "visible", project |-> about[r],
                                      handled |-> FALSE]]
    /\ EndRequest(r)
    /\ UNCHANGED <<enabled, rowVars, receipt, failures>>

\* Its failure is logged; the response is the same.
EnqueueFails(r) ==
    /\ pc[r] = "enqueue"
    /\ Fails
    /\ EndRequest(r)
    /\ UNCHANGED <<enabled, rowVars, queue, receipt>>

\* externalUpdateProposalStatus reads the state of one proposal ...
ExternalUpdate(r, p, s) ==
    /\ state[p] = "submitted"
    /\ s \in ExternalStatus
    /\ Take(r, p, "decide", s)
    /\ UNCHANGED <<enabled, rowVars, queue, receipt, failures>>

\* ... fixLegacyCompleted likewise ...
FixLegacy(r, p) ==
    /\ p \in Legacy
    /\ state[p] = "completed"
    /\ Take(r, p, "fix", "submitted")
    /\ UNCHANGED <<enabled, rowVars, queue, receipt, failures>>

\* ... and each then writes the new one (upsertProjectState, applyFix).
WriteState(r) ==
    /\ pc[r] \in {"decide", "fix"}
    /\ state' = [state EXCEPT ![about[r]] = target[r]]
    /\ EndRequest(r)
    /\ UNCHANGED <<enabled, submittedAt, pol, succeeded, queue, receipt,
                   failures>>

\* updateStatus asks only that the project exists.
UpdateStatus(p, s) ==
    /\ state' = [state EXCEPT ![p] = s]
    /\ UNCHANGED <<enabled, submittedAt, pol, succeeded, queue, processVars,
                   receipt, failures>>

\* The mark-submitted-to-pol handler: an administrator has seen the proposal.
MarkByHand(p) ==
    /\ pol' = [pol EXCEPT ![p] = TRUE]
    /\ receipt' = [receipt EXCEPT ![p] = "latest"]
    /\ UNCHANGED <<enabled, state, submittedAt, succeeded, queue, processVars,
                   failures>>

----------------------------------------------------------------------------
(* Sending, for a consumer or a resubmit request                           *)

\* Faulty: only what has not been submitted yet can be sent again.
ResubmittableDraft(p) == state[p] \in Editable

Resubmittable(p) == state[p] = "submitted"

Resubmit(r, p) ==
    /\ Resubmittable(p)
    /\ Take(r, p, "send", "draft")
    /\ UNCHANGED <<enabled, rowVars, queue, receipt, failures>>

\* The external system accepts the proposal and the answer arrives.
SendAccepted(x) ==
    /\ pc[x] = "send"
    /\ enabled
    /\ receipt' = [receipt EXCEPT ![about[x]] = "latest"]
    /\ ok' = [ok EXCEPT ![x] = TRUE]
    /\ Goto(x, "record")
    /\ UNCHANGED <<enabled, rowVars, queue, failures>>

\* It refuses, cannot be reached, or accepts and the answer is lost or late.
SendFails(x) ==
    /\ pc[x] = "send"
    /\ enabled
    /\ Fails
    /\ \/ receipt' = [receipt EXCEPT ![about[x]] = "latest"]
       \/ UNCHANGED receipt
    /\ Goto(x, "record")
    /\ UNCHANGED <<enabled, rowVars, queue, ok>>

SendDisabled(x) ==
    /\ pc[x] = "send"
    /\ ~enabled
    /\ Goto(x, "record")
    /\ UNCHANGED <<enabled, rowVars, queue, ok, receipt, failures>>

\* send has returned: the consumer goes on to delete its message, the
\* resubmit request to stamp submitted_at.
SendReturns(x) ==
    /\ Goto(x, IF x \in Consumer THEN "delete" ELSE "finish")
    /\ queue' = [m \in Message |->
                   IF x \in Consumer /\ m = holds[x]
                   THEN [queue[m] EXCEPT !.handled = TRUE] ELSE queue[m]]

\* Faulty: whatever answer arrives is a success.
SuccessfulAlways(x) == enabled

Successful(x) == ok[x]

\* _recordAttempt; afterwards only a success goes on to markSubmittedToPol.
\* An error of the database is logged and ignored.
Record(x) ==
    /\ pc[x] = "record"
    /\ \/ /\ succeeded' = [succeeded EXCEPT ![about[x]] = @ \/ Successful(x)]
          /\ UNCHANGED failures
       \/ Fails /\ UNCHANGED succeeded
    /\ IF Successful(x) THEN Goto(x, "stamp") /\ UNCHANGED queue
       ELSE SendReturns(x)
    /\ UNCHANGED <<enabled, state, submittedAt, pol, ok, receipt>>

\* markSubmittedToPol
Stamp(x) ==
    /\ pc[x] = "stamp"
    /\ \/ pol' = [pol EXCEPT ![about[x]] = TRUE] /\ UNCHANGED failures
       \/ Fails /\ UNCHANGED pol
    /\ SendReturns(x)
    /\ UNCHANGED <<enabled, state, submittedAt, succeeded, ok, receipt>>

\* setSubmittedAt ends a resubmission; its failure is logged and ignored.
SetSubmittedAt(r) ==
    /\ pc[r] = "finish"
    /\ \/ /\ submittedAt' = [submittedAt EXCEPT ![about[r]] = TRUE]
          /\ UNCHANGED failures
       \/ Fails /\ UNCHANGED submittedAt
    /\ EndRequest(r)
    /\ UNCHANGED <<enabled, state, pol, succeeded, queue, receipt>>

----------------------------------------------------------------------------
(* The consumer                                                            *)

\* Faulty: taking a message removes it.
ReceiveOnce(c, m) ==
    /\ pc[c] = "idle"
    /\ queue[m].at = "visible"
    /\ queue' = [queue EXCEPT ![m].at = "absent", ![m].project = None]
    /\ pc' = [pc EXCEPT ![c] = "send"]
    /\ about' = [about EXCEPT ![c] = queue[m].project]
    /\ holds' = [holds EXCEPT ![c] = m]
    /\ UNCHANGED <<enabled, rowVars, ok, target, receipt, failures>>

\* A message that is received is hidden until its visibility timeout.
Receive(c, m) ==
    /\ pc[c] = "idle"
    /\ queue[m].at = "visible"
    /\ queue' = [queue EXCEPT ![m].at = "hidden"]
    /\ pc' = [pc EXCEPT ![c] = "send"]
    /\ about' = [about EXCEPT ![c] = queue[m].project]
    /\ holds' = [holds EXCEPT ![c] = m]
    /\ UNCHANGED <<enabled, rowVars, ok, target, receipt, failures>>

\* The timeout passes, whether or not a consumer still works on the message.
Expire(m) ==
    /\ queue[m].at = "hidden"
    /\ queue' = [queue EXCEPT ![m].at = "visible"]
    /\ UNCHANGED <<enabled, rowVars, processVars, receipt, failures>>

\* processMessage does not find the project (the reader endpoint does not show
\* it yet) and skips it.  A project that is found is sent.
LoadMissing(c) ==
    /\ pc[c] = "send"
    /\ Fails
    /\ SendReturns(c)
    /\ UNCHANGED <<enabled, rowVars, ok, receipt>>

\* Faulty: the message is deleted although handling it threw.
HandlerThrowsDeleting(c) ==
    /\ pc[c] \in ConsumerStep
    /\ Fails
    /\ queue' = [queue EXCEPT ![holds[c]].at = "absent",
                              ![holds[c]].project = None]
    /\ EndConsumer(c)
    /\ UNCHANGED <<enabled, rowVars, receipt>>

\* Reading the project throws, deleting the message fails or the instance
\* stops at any step: the message stays as it is.
HandlerThrows(c) ==
    /\ pc[c] \in ConsumerStep
    /\ Fails
    /\ EndConsumer(c)
    /\ UNCHANGED <<enabled, rowVars, queue, receipt>>

Removed(m) == [queue EXCEPT ![m].at = "absent", ![m].project = None]

\* DeleteMessageCommand.  The receipt handle of a message that was received
\* again meanwhile may no longer delete it.
Delete(c) ==
    /\ pc[c] = "delete"
    /\ \/ queue' = Removed(holds[c])
       \/ /\ \E d \in Consumer \ {c} : holds[d] = holds[c]
          /\ UNCHANGED queue
    /\ EndConsumer(c)
    /\ UNCHANGED <<enabled, rowVars, receipt, failures>>

\* The instance of a request stops; the request is lost.
RequestLost(r) ==
    /\ pc[r] # "idle"
    /\ Fails
    /\ EndRequest(r)
    /\ UNCHANGED <<enabled, rowVars, queue, receipt>>

----------------------------------------------------------------------------
Send(x) == SendAccepted(x) \/ SendFails(x) \/ SendDisabled(x)
Sending(x) == Send(x) \/ Record(x) \/ Stamp(x)

RequestStarts(r) ==
    \E p \in Project :
        \/ Submit(r, p) \/ Resubmit(r, p) \/ FixLegacy(r, p)
        \/ \E s \in Status : ExternalUpdate(r, p, s)

RequestProceeds(r) ==
    \/ Commit(r) \/ WriteState(r) \/ SetSubmittedAt(r) \/ Sending(r)
    \/ \E m \in Message : Enqueue(r, m)

RequestGoesWrong(r) == CommitFails(r) \/ EnqueueFails(r) \/ RequestLost(r)

ConsumerProceeds(c) == LoadMissing(c) \/ Sending(c) \/ Delete(c)

ByHand == \E p \in Project : MarkByHand(p) \/ \E s \in Status : UpdateStatus(p, s)

Next ==
    \/ \E r \in Request :
          RequestStarts(r) \/ RequestProceeds(r) \/ RequestGoesWrong(r)
    \/ \E c \in Consumer :
          \/ ConsumerProceeds(c) \/ HandlerThrows(c)
          \/ \E m \in Message : Receive(c, m)
    \/ \E m \in Message : Expire(m)
    \/ ByHand

Spec == Init /\ [][Next]_vars

Listed(p) == state[p] = "submitted" /\ ~pol[p]   \* the list of failed submissions

\* Requests and consumers run on, a hidden message reappears, the queue does
\* not pass a message over for ever, and an administrator resubmits what stays
\* on the list.  A slot and an idle consumer are free time and again, not for
\* ever, hence the strong fairness.
FairSpec ==
    /\ Spec
    /\ \A r \in Request : WF_vars(RequestProceeds(r))
    /\ \A c \in Consumer : WF_vars(ConsumerProceeds(c))
    /\ \A m \in Message : /\ WF_vars(Expire(m))
                          /\ SF_vars(\E c \in Consumer : Receive(c, m))
    /\ \A p \in Project : SF_vars(Listed(p) /\ \E r \in Request : Resubmit(r, p))

----------------------------------------------------------------------------
(* Properties                                                              *)

\* A row that says success, and the stamp that takes a proposal off the list
\* of failed submissions, mean that the external system has accepted the
\* proposal at some time or that an administrator said so, whatever answers
\* were lost or late and however often a message was handled.
RecordsMeanReceived ==
    \A p \in Project : pol[p] \/ succeeded[p] => receipt[p] # "never"

\* The queue never holds, and no consumer ever sends, a proposal whose
\* submission was not committed: the message follows the transaction.
QueuedWasCommitted ==
    /\ \A m \in Message : queue[m].project # None => submittedAt[queue[m].project]
    /\ \A c \in Consumer : pc[c] # "idle" => submittedAt[about[c]]

\* The queue with its consumers delivers at least once: a message leaves it
\* only after some consumer has handled it to the end.
D == INSTANCE Delivery WITH
        pending <- {m \in Message : queue[m].at # "absent"},
        handled <- {m \in Message : queue[m].handled}
AtLeastOnce == D!Spec

\* Crashes, timeouts and errors, if there is an end to them, only delay a
\* message: a consumer handles it to the end.
EnqueuedIsHandled ==
    \A m \in Message : queue[m].at = "visible" ~> queue[m].handled

\* Resubmitting is a sufficient remedy: what is listed as failed does not stay
\* on the list while administrators resubmit and the external system answers.
FailedSubmissionsRecover ==
    \A p \in Project : enabled /\ Listed(p) ~> ~Listed(p)
=============================================================================
