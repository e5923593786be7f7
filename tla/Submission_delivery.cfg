SPECIFICATION FairSpec
CONSTANTS
    Project = {p1}
    Legacy = {p1}
    Status = {"draft", "submitted", "completed"}
    Message = {m1}
    Consumer = {c1, c2}
    Request = {r1, r2}
    MaxFailures = 1
    None = None
INVARIANTS
    RecordsMeanReceived
    QueuedWasCommitted
PROPERTIES
    AtLeastOnce
    EnqueuedIsHandled
    FailedSubmissionsRecover
