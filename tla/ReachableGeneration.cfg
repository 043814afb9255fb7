\* Four-value counters (Width 2): one invalidation then three propagations
\* wrap generation back onto current.
CONSTANTS
    Width = 2
    Events = {OnAdd, OnRemove, OnSet}
    ValidatingEvents = {OnAdd, OnRemove}
    OnAdd = OnAdd
    OnRemove = OnRemove
    OnSet = OnSet
SPECIFICATION Spec
PROPERTY RefinesValidFlag
