\* A queue of up to five items, a map of up to four keys and a copy of it, three
\* callers in an arena of twelve units, two or three containers of two fields
\* or two methods.
CONSTANTS
    Structures = {"queue", "many keys", "two values", "copied", "heap",
            "fields", "methods", "objects", "tables"}
    Item = {a, b}
    QueueCapacity = 2
    MaxCount = 5
    Key = {0, 1, 2, 3}
    Value = {1, 4}
    InitialCapacity = 4
    MayCopy = TRUE
    HashFunctions <- SomeFunctions
    Arena = 12
    Header = 1
    Owner = {o1, o2, o3}
    MaxRequest = 4
    Word = 8
    Looser = {}
SPECIFICATION AllSpec
INVARIANTS
    EntriesReachable
    HeapSound
    FieldsWhereRead
    VirtualCallsReachTheOverride
PROPERTIES
    RefinesFifo
    MapIsKeyValue
CHECK_DEADLOCK FALSE
