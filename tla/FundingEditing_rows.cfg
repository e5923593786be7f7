SPECIFICATION Spec
CONSTANTS
    Instances = {i1}
    Requests = {r1, r2}
    Years = {1, 2}
    Main = {gia}
    Additional = {recovery}
    Contributed = {public}
    Names = {n1, n2}
    Menu <- MCMenu
    MaxAmount = 2
    MaxSaves = 2
    None = None
INVARIANTS TypeOK TotalIsSum NothingOutsideRange DeselectedIsEmpty NoOrphans
CHECK_DEADLOCK FALSE
