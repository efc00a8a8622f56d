SPECIFICATION Spec
CONSTANTS
    Users = {alice, bob, carol}
    Ttls <- SmallTtls
    Caps <- SmallCaps
    MaxTime = 5
INVARIANTS TypeOK LruOrderIsAgeOrder CapRespected
PROPERTIES EvictsOnlyExpiredOrOldest NoRevival ExpiredAreDropped ImplementsCache
