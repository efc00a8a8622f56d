SPECIFICATION LoopSpec
CHECK_DEADLOCK FALSE
CONSTANTS
    Groups = {sales}
    Creds = {c1}
    Keys = {k1}
    Ttls = {t1}
    Caps = {1}
    Absent = Absent
    MaxClients = 2
    MaxWriters = 2
INVARIANTS NoLostWakeup NothingRunsWhenDown
PROPERTIES Converges FailedIsRetried
