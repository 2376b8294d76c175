\* Allocation: three variables and two registers; one block of three
\* instructions, or two of two.  Liveness: one variable on every graph of three
\* blocks, and two variables in two blocks of two instructions in every order.
CONSTANTS
    NB = 3
    Var = {1, 2, 3}
    K = 2
    Programs <- MCPrograms
    Layouts <- MCLayouts
SPECIFICATION SpecBoth
INVARIANTS
    TypeOK
    ReadsFindTheirValue
    EdgesAreClashes
    MemoryOnlyWhenCrowded
    LiveTypeOK
    LiveExact
PROPERTIES
    AllColored
    OnlyGrows
    Terminates
CHECK_DEADLOCK FALSE
