CONSTANTS
    User = {u}
    Request = {r1, r2}
    Password = {p1, p2, p3}
    Limit = 1
    ResetExpiry = 0
    InviteExpiry = 0
    MaxLinks = 3
    MaxFailures = 2
    None = None
SPECIFICATION Spec
SYMMETRY Symmetry
INVARIANTS TypeOK OneResetPerLink NobodyIsStuck
PROPERTIES PasswordNotReused
