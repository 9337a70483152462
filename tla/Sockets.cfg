SPECIFICATION MCSpec
CONSTANTS
    q1 = q1
    q2 = q2
    Reconnects = {q1, q2}
    MaxCloses = 3
    Parts = 2
    SendAttempts = 2
    MaxLosses = 1
INVARIANTS
    TypeOK
    SendServerHasTheSocket
    NotStranded
    PartsInOrder
    DuplicatesOnlyUnheard
PROPERTIES
    ReauthNotLooped
    Progress
CHECK_DEADLOCK FALSE
