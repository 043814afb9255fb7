\* Three entities, one parent each, V owned by any of them; two of five
\* observers at a time (see Obs5);
\* batches of two ids (an IsA pair with its override).
CONSTANTS
    e1 = e1
    e2 = e2
    e3 = e3
    VComp = VComp
    IsARel = IsARel
    AnyId = AnyId
    WildcardId = WildcardId
    OnAddEv = OnAddEv
    OnRemoveEv = OnRemoveEv
    OnSetEv = OnSetEv
    WildcardEv = WildcardEv
    EntityOrder <- Ents3
    V <- VComp
    IsA <- IsARel
    EcsAny <- AnyId
    EcsWildcard <- WildcardId
    OnAdd <- OnAddEv
    OnRemove <- OnRemoveEv
    OnSet <- OnSetEv
    EvWildcard <- WildcardEv
    Observers <- Obs5
    MaxObservers = 2
    MaxParents = 1
    MaxBatch = 2
SPECIFICATION Spec
INVARIANT TypeOK
INVARIANT RecordsLive
INVARIANT ObserversComplete
INVARIANT SourcesOwn
INVARIANT SetReachesInheritors
INVARIANT NewlyInheritedNotified
