SPECIFICATION FairSpec
CONSTANTS
    Instance = {i1}
    Session = {s1, s2}
    NoSession = none
    Request = {r1}
    AuthTTL = 2
    VersionTTL = 1
    MaxLag = 1
    CallLatency = 1
    DbFailures = TRUE
PROPERTIES
    SupersededWithinWindow
    DisabledWithinWindow
    CurrentSessionSettles
