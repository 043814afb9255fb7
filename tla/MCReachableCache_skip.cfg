\* IsA and an inherited user relationship Likes, one IsA parent, three entities.
CONSTANTS
    e1 = e1
    e2 = e2
    e3 = e3
    e4 = e4
    X = X
    Y = Y
    IsARel = IsARel
    ChildOfRel = ChildOfRel
    LikesRel = LikesRel
    EntityOrder <- Ents3
    CompOrder <- CompsX
    RelOrder <- RelsIsALikes
    TravRels <- TravIsA
    IsA <- IsARel
    InheritIds <- InheritAll
    ObservableIds <- ObsX
    DagDepthMax = 8
    MaxTravPairs = 1
    MaxOwners = 3
SPECIFICATION Spec
INVARIANT CacheSound
