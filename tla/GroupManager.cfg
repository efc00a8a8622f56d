SPECIFICATION Spec
CHECK_DEADLOCK FALSE
CONSTANTS
    Groups = {sales}
    Creds = {c1, c2}
    Keys = {k1, k2}
    Ttls = {t1}
    Caps = {1, 2}
    Absent = Absent
    MaxClients = 3
SYMMETRY ConfigSymmetry
INVARIANTS TypeOK LiveIsConfigured NoClientLeftBehind RunsWhatWasApplied
PROPERTIES SessionsSurviveReload ImplementsHotReload
