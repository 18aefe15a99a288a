CONSTANTS
    Eid = {1, 2, 3}
    Priority = {1}
    Removable = {1, 2, 3}
SPECIFICATION Spec
INVARIANTS CurrentIsActive
CHECK_DEADLOCK FALSE
