SPECIFICATION Spec
CHECK_DEADLOCK FALSE
CONSTANTS
    Tokens = {t1}
    MaxFailures = 3
    Window = 4
    Lockout = 2
    SessionTtl = 3
    MaxTime = 8
INVARIANTS TypeOK FewGuesses LockoutHasReason
PROPERTIES NoTokenRevives
