SPECIFICATION Spec
CONSTANTS
    Ids = {i1, i2}
    Names = {sales, support}
    Secrets = {s1}
    Requests = {r1, r2}
    NewRows <- EnabledRows
    Bodies <- SomeBodies
    Unused = Unused
    Deleted = Deleted
    Blank = Blank
    OtherPrograms = TRUE
SYMMETRY AdminSymmetry
INVARIANTS TypeOK AnsweredIsDecided NamesAreUnique
