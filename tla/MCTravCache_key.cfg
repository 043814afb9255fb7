\* Two targets per entity: a list built for one table served to another.
CONSTANTS
    e1 = e1
    e2 = e2
    e3 = e3
    e4 = e4
    X = X
    R = R
    EntityOrder <- Ents4
    Comps <- CompsNone
    Trav = R
    MaxTargets = 2
    QueryAnyTable = FALSE
SPECIFICATION Spec
INVARIANT UpSound
