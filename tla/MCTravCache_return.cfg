\* Two targets per entity, up traversal asked only for tables with a (Trav, *) pair.
CONSTANTS
    e1 = e1
    e2 = e2
    e3 = e3
    e4 = e4
    X = X
    R = R
    EntityOrder <- Ents3
    Comps <- CompsX
    Trav = R
    MaxTargets = 2
    QueryAnyTable = FALSE
SPECIFICATION Spec
INVARIANT UpServes
