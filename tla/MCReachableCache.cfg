\* ChildOf and IsA both traversable, one traversable pair per entity, three
\* entities, up to three owners of X (so nearer owners mask farther ones).
CONSTANTS
    e1 = e1
    e2 = e2
    e3 = e3
    e4 = e4
    X = X
    Y = Y
    IsARel = IsARel
    ChildOfRel = ChildOfRel
    LikesRel = LikesRel
    EntityOrder <- Ents3
    CompOrder <- CompsX
    RelOrder <- RelsChildOfIsA
    TravRels <- TravChildOfIsA
    IsA <- IsARel
    InheritIds <- InheritAll
    ObservableIds <- ObsX
    DagDepthMax = 8
    MaxTravPairs = 1
    MaxOwners = 3
SPECIFICATION Spec
SYMMETRY SymEnts3
VIEW LiveCaches
INVARIANT TypeOK
INVARIANT CacheSound
