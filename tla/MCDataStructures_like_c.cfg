\* Containers that are like_c whose fields are padded.
CONSTANTS
    Structures = {"fields"}
    Item = {a, b}
    QueueCapacity = 2
    MaxCount = 5
    Key = {0, 1, 2, 3}
    Value = {1, 4}
    InitialCapacity = 4
    MayCopy = TRUE
    HashFunctions <- SomeFunctions
    Arena = 12
    Header = 1
    Owner = {o1, o2, o3}
    MaxRequest = 4
    Word = 8
    Looser = {"like c"}
SPECIFICATION AllSpec
INVARIANTS
    FieldsWhereRead
CHECK_DEADLOCK FALSE
