---------------------------- MODULE ReachableValid ----------------------------
(***************************************************************************)
(* What the generation counters of one reachable cache promise, as the    *)
(* rest of the emit pipeline relies on it: a flag `valid` that every      *)
(* invalidation and every propagation clears, and that only a rebuild for *)
(* OnAdd or OnRemove, or a revalidation on a child's walk, sets.  `fresh` *)
(* records whether the cached ids still match the graph: an invalidation  *)
(* (a change to the owned ids of an ancestor) makes them stale, a rebuild *)
(* makes them fresh.  ReachableCache uses this flag for current ==        *)
(* generation; ReachableGeneration keeps the counters.  Every step here  *)
(* keeps valid => fresh, which is why a valid cache can be served.       *)
(***************************************************************************)
CONSTANTS
    Events,           \* events an emit may carry
    ValidatingEvents  \* EcsOnAdd, EcsOnRemove: the events whose rebuild validates

VARIABLES valid, fresh

vars == <<valid, fresh>>

TypeOK == valid \in BOOLEAN /\ fresh \in BOOLEAN

\* A new record's cache is empty and not valid.
Init == valid = FALSE /\ fresh = FALSE

\* flecs_emit_propagate_invalidate_tables: an ancestor's ids changed.
Invalidate == valid' = FALSE /\ fresh' = FALSE

\* flecs_emit_propagate: a value changed on an ancestor; the ids did not.
Propagate == valid' = FALSE /\ UNCHANGED fresh

\* flecs_emit_forward on a miss: rebuild, validating only for OnAdd/OnRemove.
Rebuild(ev) ==
    /\ ~valid
    /\ valid' = (ev \in ValidatingEvents)
    /\ fresh' = TRUE

\* flecs_emit_forward_table_up: an invalid parent rebuilt on a child's walk.
Revalidate == ~valid /\ valid' = TRUE /\ fresh' = TRUE

Next == Invalidate \/ Propagate \/ Revalidate \/ \E ev \in Events : Rebuild(ev)

Spec == Init /\ [][Next]_vars
=============================================================================
