SPECIFICATION Spec
CHECK_DEADLOCK FALSE
CONSTANTS
    Groups = {sales}
    Creds = {c1, c2}
    Keys = {k1}
    Ttls = {t1}
    Caps = {1, 2}
    Absent = Absent
    MaxClients = 3
INVARIANTS PoolFollowsStore
