------------------------- MODULE ReachableGeneration -------------------------
(***************************************************************************)
(* The generation counters of one reachable cache (pair->reachable in     *)
(* src/src/observable.c).  The cache is valid when current == generation. *)
(* The counters are int32 in the code; here they are Width-bit unsigned  *)
(* counters that wrap, the outcome a two's-complement build gives to the *)
(* (undefined) signed overflow, scaled down to a width TLC can exhaust.   *)
(*                                                                         *)
(* Each action is the whole effect of one call on this record; the ids    *)
(* themselves are abstracted to `fresh`, whether they match the graph.    *)
(***************************************************************************)
EXTENDS Naturals

CONSTANTS
    Width,            \* bits of the counters (32 in the code)
    Events,           \* events an emit may carry
    ValidatingEvents  \* EcsOnAdd, EcsOnRemove

ASSUME Width \in Nat \ {0} /\ ValidatingEvents \subseteq Events

Gens == 0 .. 2^Width - 1

\* generation ++ on a Width-bit counter.
Bump(g) == (g + 1) % 2^Width

VARIABLES current, generation, fresh

vars == <<current, generation, fresh>>

TypeOK == current \in Gens /\ generation \in Gens /\ fresh \in BOOLEAN

\* A new record: generation 0, current one behind it, so the first read
\* misses.
Init == generation = 0 /\ current = 2^Width - 1 /\ fresh = FALSE

\* flecs_emit_propagate_invalidate_tables on this record: an already
\* invalid record is skipped (its subtree is marked already); a valid
\* one has generation bumped.  Either way the ids are now stale.
Invalidate ==
    /\ generation' = IF current = generation THEN Bump(generation) ELSE generation
    /\ fresh' = FALSE
    /\ UNCHANGED current

\* flecs_emit_propagate: generation is bumped whatever current is.
Propagate ==
    /\ generation' = Bump(generation)
    /\ UNCHANGED <<current, fresh>>

\* flecs_emit_forward on a miss: the ids are rebuilt; only OnAdd and
\* OnRemove set current.
Rebuild(ev) ==
    /\ current # generation
    /\ fresh' = TRUE
    /\ current' = IF ev \in ValidatingEvents THEN generation ELSE current
    /\ UNCHANGED generation

\* flecs_emit_forward_table_up with parent_revalidate: the record is
\* refilled from the child's walk and marked current.
Revalidate ==
    /\ current # generation
    /\ current' = generation
    /\ fresh' = TRUE
    /\ UNCHANGED generation

Next == Invalidate \/ Propagate \/ Revalidate \/ \E ev \in Events : Rebuild(ev)

Spec == Init /\ [][Next]_vars

Abs == INSTANCE ReachableValid WITH valid <- (current = generation)

\* The counters implement the valid flag the pipeline reads: each call
\* on the record is a step of ReachableValid with valid = (current =
\* generation), so no run of propagations makes a stale cache read as
\* valid (spec 3: current == generation iff the cache is valid).
RefinesValidFlag == Abs!Spec
=============================================================================
