SPECIFICATION FairSpec
CONSTANTS
    Upload = {u1, u2}
    FileName = {f1, f2}
    Worker = {w1, w2}
    MaxFailures = 1
    None = None
INVARIANTS
    TypeOK
    AcceptedFileIsKept
    OnlyCheckedFilesShown
    StandardKeyHolds
PROPERTIES
    UploadSettles
