\* The bounds of MCEmitDispatch.cfg; the source each self and self_up
\* observer is told, against the nearest owner.
CONSTANTS
    e1 = e1
    e2 = e2
    e3 = e3
    VComp = VComp
    IsARel = IsARel
    AnyId = AnyId
    WildcardId = WildcardId
    OnAddEv = OnAddEv
    OnRemoveEv = OnRemoveEv
    OnSetEv = OnSetEv
    WildcardEv = WildcardEv
    EntityOrder <- Ents3
    V <- VComp
    IsA <- IsARel
    EcsAny <- AnyId
    EcsWildcard <- WildcardId
    OnAdd <- OnAddEv
    OnRemove <- OnRemoveEv
    OnSet <- OnSetEv
    EvWildcard <- WildcardEv
    Observers <- Obs5
    MaxObservers = 2
    MaxParents = 1
    MaxBatch = 2
SPECIFICATION Spec
INVARIANT NearestOwnerWins
