CONSTANTS
    Eid = {1, 2, 3, 4}
    Priority = {1, 2}
    Removable = {1, 2, 3, 4}
SPECIFICATION Spec
INVARIANTS TypeOK NoReadyItemForgotten CurrentIsMostUrgent NoDuplicates
CHECK_DEADLOCK FALSE
