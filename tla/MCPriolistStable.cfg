CONSTANTS
    Eid = {1, 2, 3}
    Priority = {1, 2}
    Removable = {}
SPECIFICATION FairSpec
INVARIANTS StableCurrentIsActive
PROPERTIES ImplementsReadySet EveryReadyItemIsServed
