\* Single inheritance over four entities: an instance below three levels.
CONSTANTS
    e1 = e1
    e2 = e2
    e3 = e3
    e4 = e4
    X = X
    Y = Y
    IsARel = IsARel
    ChildOfRel = ChildOfRel
    LikesRel = LikesRel
    EntityOrder <- Ents4
    CompOrder <- CompsX
    RelOrder <- RelsIsA
    TravRels <- TravIsA
    IsA <- IsARel
    InheritIds <- InheritAll
    ObservableIds <- ObsX
    DagDepthMax = 8
    MaxTravPairs = 1
    MaxOwners = 4
SPECIFICATION Spec
INVARIANT CacheSound
