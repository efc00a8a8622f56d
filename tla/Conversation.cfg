SPECIFICATION Spec
CHECK_DEADLOCK FALSE
CONSTANTS
    Groups = {sales}
    Users = {u1, u2}
    Keys = {k1, k2}
    Messages = {m1, m2, m3}
    None = None
    MaxForgets = 1
    MaxFiles = 2
SYMMETRY MessageSymmetry
INVARIANTS TypeOK ConversationIsPrivate ResetForgets FilesGoTogether
