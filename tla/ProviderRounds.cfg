SPECIFICATION RoundsSpec
CONSTANTS
    Groups = {"a", "b"}
    Fickle = {"a"}
    MaxKeys = 2
    PageSize = 1
    Paged = TRUE
    Retries = 1
    HasHall = TRUE
    HallEntries <- MCHallEntries
    MaxFaults = 1
INVARIANTS QuietAfterLimit
PROPERTIES FillsOnlyMissing DeletionConfirmed ServedKeysExist DeadGroupsEmptied
