SPECIFICATION Spec
CONSTANTS
    Ids = {i1}
    Names = {sales}
    Secrets = {s1}
    Requests = {r1}
    NewRows <- EnabledRows
    Bodies <- SomeBodies
    Unused = Unused
    Deleted = Deleted
    Blank = Blank
    OtherPrograms = TRUE
PROPERTIES LoopSeesTheFile
