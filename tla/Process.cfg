SPECIFICATION Spec
CHECK_DEADLOCK FALSE
CONSTANTS
    Settings = {base_url, limits}
    Required = {base_url}
    MaxGroupIndex = 3
    OtherNames = {sales}
    Unset = Unset
    ConfigError = ConfigError
    NotLoaded = NotLoaded
    Started <- WhatIsFound
    RowNames = {"sales", "support"}
    RowsRefused = RowsRefused
    MaxRequests = 2
INVARIANTS TypeOK ConfigIsWhatWasWritten DesiredIsWhatIsStored ServingIsWhole NothingUsedAfterItsEnd ZeroMeansCleanStop
PROPERTIES StopsWhenTold StartsOrFails
