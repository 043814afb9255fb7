\* One target per entity, up traversal asked for any table.
CONSTANTS
    e1 = e1
    e2 = e2
    e3 = e3
    e4 = e4
    X = X
    R = R
    EntityOrder <- Ents3
    Comps <- CompsX
    Trav = R
    MaxTargets = 1
    QueryAnyTable = TRUE
SPECIFICATION Spec
INVARIANT UpServes
