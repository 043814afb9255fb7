\* Two IsA parents per entity, four entities, each component owned by one entity.
CONSTANTS
    e1 = e1
    e2 = e2
    e3 = e3
    e4 = e4
    X = X
    Y = Y
    IsARel = IsARel
    ChildOfRel = ChildOfRel
    LikesRel = LikesRel
    EntityOrder <- Ents4
    CompOrder <- CompsX
    RelOrder <- RelsIsA
    TravRels <- TravIsA
    IsA <- IsARel
    InheritIds <- InheritAll
    ObservableIds <- ObsX
    DagDepthMax = 8
    MaxTravPairs = 2
    MaxOwners = 1
SPECIFICATION Spec
INVARIANT CacheSound
