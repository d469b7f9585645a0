SPECIFICATION Spec
CONSTANTS
    Keys = {1, 2, 3}
    Degree = 2
    MaxInserts = 6
INVARIANTS
    InsertedIsFound
CHECK_DEADLOCK FALSE
