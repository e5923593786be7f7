SPECIFICATION Spec
CHECK_DEADLOCK FALSE
CONSTANTS
    None = None
    Blank = Blank
    CurrentYear = 1
    DirectSources = {"fcermGia"}
    ContributedSources = {"publicContributions"}
    RateYears = {1, 2}
    Instances = {i1}
    Users = {u1, u2}
    Entries <- MCEntries
    Starts <- MCStarts
    MaxSaves = 3
    MaxTogether = 2
SYMMETRY Symmetry
INVARIANTS TypeOK FollowUpsNeedTheirQuestion NothingLeftOver
PROPERTIES SubmittedAnswers SavedDatesAreSubmittable
