CONSTANTS
    Admin = admin
    Owner = {admin}
    Download = {d1, d2}
    File = {areas}
    Archive = {areas}
    Request = {q1, q2}
    Consumer = {c1, c2}
    MaxBatches = 1
    MaxFailures = 1
    None = None
SPECIFICATION FairSpec
INVARIANTS CurrentIsWorkedOn ReadyFilesExist
PROPERTIES DownloadSettles
