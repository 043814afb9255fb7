------------------------------ MODULE TravCache ------------------------------
(***************************************************************************)
(* The query engine's traversal cache (src/src/query/engine/trav_cache.c). *)
(* One ecs_trav_cache_t lives in a query operation's context for the       *)
(* length of one iteration.  It holds the result of the last traversal:    *)
(* the entities up from a table (up = true), or the entities down from an  *)
(* entity (up = false), along the relationship trav, keyed by a pair id.  *)
(* A call whose key matches the cached one returns the cached list.        *)
(*                                                                         *)
(* The world does not change structurally during an iteration (the query   *)
(* runs deferred).  Between iterations it may change arbitrarily, and the  *)
(* next iteration starts with a zeroed cache.  An entity's table is its    *)
(* type; every entity has a table (one without ids is in the root table).  *)
(***************************************************************************)
EXTENDS Integers, Sequences, SequencesExt, FiniteSets, Graphs

CONSTANTS
    EntityOrder,    \* entities, in the order of their ids
    Comps,          \* plain ids
    Trav,           \* the traversed relationship (it is traversable)
    MaxTargets,     \* bound: (Trav, *) pairs one entity may own
    QueryAnyTable   \* up traversal is asked for tables without (Trav, *) too

Entities == ToSet(EntityOrder)
TravPairs == {Trav} \X Entities
Ids == Comps \cup TravPairs
NoId == <<>>      \* cache->id of a zeroed cache

\* The graph of the world along Trav: an edge x -> t for each (Trav, t) of x.
TravGraph(ty) ==
    [node |-> Entities,
     edge |-> {xt \in Entities \X Entities : <<Trav, xt[2]>> \in ty[xt[1]]}]

\* The worlds an iteration may see: (Trav, *) is acyclic (the relationship
\* layer refuses cycles) and an entity owns at most MaxTargets targets.
TableTypes ==
    {c \cup ({Trav} \X ts) : c \in SUBSET Comps,
                             ts \in {S \in SUBSET Entities : Cardinality(S) <= MaxTargets}}
Worlds == {ty \in [Entities -> TableTypes] : IsDag(TravGraph(ty))}

VARIABLES
    type,   \* type[e]: the ids of e's table
    cache,  \* the ecs_trav_cache_t: [id, up, cdr, entities]
    last    \* the call the cache last served: [op, arg]

vars == <<type, cache, last>>

Zeroed == [id |-> NoId, up |-> FALSE, cdr |-> FALSE, entities |-> <<>>]

TypeOK ==
    /\ type \in Worlds
    /\ cache \in [id : {NoId} \cup TravPairs, up : BOOLEAN, cdr : BOOLEAN,
                  entities : Seq(Entities)]
    /\ last \in [op : {"none", "up", "down"}, arg : Entities \cup SUBSET Ids]

\* flecs_components_get: a pair's component record exists while some table
\* of the world holds it.
HasRecord(ty, id) == \E x \in Entities : id \in ty[x]

\* The targets of the (Trav, *) pairs of table T, in type order: the run of
\* ids that tr->index and tr->count of the (Trav, *) record delimit.
Targets(T) == SelectSeq(EntityOrder, LAMBDA t : <<Trav, t>> \in T)

\* EcsEntityIsTraversable: x is the target of a traversable pair.
IsTraversable(ty, x) == HasRecord(ty, <<Trav, x>>)

-----------------------------------------------------------------------------
(***************************************************************************)
(* The builders.                                                           *)
(***************************************************************************)

RECURSIVE BuildDown(_, _), BuildUp(_, _), UpLoop(_, _, _), UpLoopPairId(_, _, _)

\* flecs_query_build_down_cache: nothing when (trav, entity) has no record;
\* else the entity, then the down caches of the traversable entities of
\* the tables holding (trav, entity).  The table cache's order is left
\* open; the children are taken in id order.
BuildDown(ty, e) ==
    IF ~HasRecord(ty, <<Trav, e>>) THEN <<>>
    ELSE LET kids == SelectSeq(EntityOrder, LAMBDA x : <<Trav, e>> \in ty[x]
                                                     /\ IsTraversable(ty, x))
         IN <<e>> \o FlattenSeq([k \in 1..Len(kids) |-> BuildDown(ty, kids[k])])

\* Mutant: the element records the pair, not its second element.
UpLoopPairId(ty, ts, i) ==
    IF i > Len(ts) THEN <<>>
    ELSE <<<<Trav, ts[i]>>>> \o
         (IF Targets(ty[ts[i]]) # <<>>
          THEN BuildUp(ty, ty[ts[i]]) \o UpLoop(ty, ts, i + 1)
          ELSE <<>>)

\* The loop of flecs_query_build_up_cache over the (trav, *) pairs of a
\* table: each target is appended; when the target's table holds
\* (trav, *) the walk goes up from it, and when it does not the function
\* returns, leaving the remaining pairs of this table unvisited.
UpLoop(ty, ts, i) ==
    IF i > Len(ts) THEN <<>>
    ELSE <<ts[i]>> \o
         (IF Targets(ty[ts[i]]) # <<>>
          THEN BuildUp(ty, ty[ts[i]]) \o UpLoop(ty, ts, i + 1)
          ELSE <<>>)

BuildUp(ty, T) == UpLoop(ty, Targets(T), 1)

-----------------------------------------------------------------------------
(***************************************************************************)
(* Operations.                                                             *)
(***************************************************************************)

Init ==
    /\ type \in Worlds
    /\ cache = Zeroed
    /\ last = [op |-> "none", arg |-> {}]

\* The tables the query asks the up cache for.
QueryTables == {type[x] : x \in Entities} \cap
               {T \in SUBSET Ids : QueryAnyTable \/ Targets(T) # <<>>}

\* Mutant: the key check ignores the direction of the cached list.
GetDownNoDirCheck(e) ==
    /\ cache' = IF cache.id # <<Trav, e>>
                THEN [cache EXCEPT !.entities = BuildDown(type, e),
                                   !.id = <<Trav, e>>, !.up = FALSE]
                ELSE cache
    /\ last' = [op |-> "down", arg |-> e]
    /\ UNCHANGED type

\* flecs_query_get_trav_down_cache: rebuilt unless the cache holds the
\* down traversal of (trav, entity).
GetDown(e) ==
    /\ cache' = IF cache.id # <<Trav, e>> \/ cache.up
                THEN [cache EXCEPT !.entities = BuildDown(type, e),
                                   !.id = <<Trav, e>>, !.up = FALSE]
                ELSE cache
    /\ last' = [op |-> "down", arg |-> e]
    /\ UNCHANGED type

\* Mutant: the key check ignores the direction of the cached list.
GetUpNoDirCheck(T) ==
    /\ LET cdr == cache.cdr \/ \E x \in Entities : HasRecord(type, <<Trav, x>>)
           id  == IF Targets(T) = <<>> THEN NoId ELSE <<Trav, Targets(T)[1]>>
       IN cache' =
            CASE ~cdr -> [cache EXCEPT !.entities = <<>>]
              [] Targets(T) = <<>> -> [cache EXCEPT !.cdr = TRUE, !.entities = <<>>]
              [] cache.id # id ->
                    [cache EXCEPT !.cdr = TRUE, !.entities = BuildUp(type, T),
                                  !.id = id, !.up = TRUE]
              [] OTHER -> [cache EXCEPT !.cdr = TRUE]
    /\ last' = [op |-> "up", arg |-> T]
    /\ UNCHANGED type

\* flecs_query_get_trav_up_cache: the (trav, *) record is looked up once
\* and kept in cache->cdr; without it, or when the table holds no
\* (trav, *) pair, the list is reset and the key left as it is.  Otherwise
\* the key is the table's first (trav, *) pair, and the list is rebuilt
\* unless the cache holds the up traversal of that key.
GetUp(T) ==
    /\ LET cdr == cache.cdr \/ \E x \in Entities : HasRecord(type, <<Trav, x>>)
           id  == IF Targets(T) = <<>> THEN NoId ELSE <<Trav, Targets(T)[1]>>
       IN cache' =
            CASE ~cdr -> [cache EXCEPT !.entities = <<>>]
              [] Targets(T) = <<>> -> [cache EXCEPT !.cdr = TRUE, !.entities = <<>>]
              [] cache.id # id \/ ~cache.up ->
                    [cache EXCEPT !.cdr = TRUE, !.entities = BuildUp(type, T),
                                  !.id = id, !.up = TRUE]
              [] OTHER -> [cache EXCEPT !.cdr = TRUE]
    /\ last' = [op |-> "up", arg |-> T]
    /\ UNCHANGED type

\* flecs_query_trav_cache_fini at the end of an iteration; the next
\* iteration's context starts zeroed.  (An iteration over a world changed
\* in between starts from another initial state.)
NextIteration ==
    /\ cache' = Zeroed
    /\ UNCHANGED type
    /\ last' = [op |-> "none", arg |-> {}]

Next ==
    \/ \E e \in Entities : GetDown(e)
    \/ \E T \in QueryTables : GetUp(T)
    \/ NextIteration

Spec == Init /\ [][Next]_vars

-----------------------------------------------------------------------------
(***************************************************************************)
(* Properties.  The reference results are graph notions, independent of   *)
(* the walks above.                                                        *)
(***************************************************************************)

\* Up from table T: every entity reachable from a target of T along Trav.
UpRef(ty, T) ==
    LET direct == ToSet(Targets(T))
    IN direct \cup UNION {Descendants(TravGraph(ty), t) : t \in direct}

\* Down from e: e and every entity below it that is itself a target of
\* Trav (the entities whose (trav, x) tables a query must visit).
DownRef(ty, e) ==
    {x \in {e} \cup Ancestors(TravGraph(ty), e) : HasRecord(ty, <<Trav, x>>)}

\* What a caller of flecs_query_get_trav_up_cache reads, whatever calls
\* for other tables and for down traversals came before in the iteration:
\* exactly the entities up from the table.
UpServes == last.op = "up" => ToSet(cache.entities) = UpRef(type, last.arg)

\* The weaker half: the up list never holds an entity that is not up from
\* the table (a list that is short is missed, a wrong one is not).
UpSound == last.op = "up" => ToSet(cache.entities) \subseteq UpRef(type, last.arg)

\* What a caller of flecs_query_get_trav_down_cache reads, after any calls
\* before it: exactly the entities down from the entity.
DownServes == last.op = "down" => ToSet(cache.entities) = DownRef(type, last.arg)
==============================================================================
