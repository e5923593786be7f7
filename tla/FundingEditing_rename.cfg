SPECIFICATION Spec
CONSTANTS
    Instances = {i1}
    Requests = {r1}
    Years = {1, 2}
    Main = {gia}
    Additional = {recovery}
    Contributed = {public}
    Names = {n1, n2}
    Menu <- MCMenu
    MaxAmount = 2
    MaxSaves = 1
    None = None
INVARIANT RenameKeepsAmount
CHECK_DEADLOCK FALSE
