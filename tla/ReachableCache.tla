--------------------------- MODULE ReachableCache ---------------------------
(***************************************************************************)
(* The reachable-id cache of traversable relationship pairs and the parts *)
(* of the emit pipeline that read, rebuild and invalidate it               *)
(* (src/src/observable.c).                                                 *)
(*                                                                         *)
(* Every traversable pair (R, t) has a component record whose             *)
(* pair->reachable cache lists the ids reachable from t by walking up the  *)
(* relationship graph, each with the entity that owns it.  The cache is   *)
(* valid when current == generation; `valid` abstracts that comparison:   *)
(* generation++ sets it FALSE, current = generation sets it TRUE.          *)
(*                                                                         *)
(* An entity's table is abstracted to its type (the set of ids it owns);  *)
(* the stack of visited tables is a sequence of such types.  One emit call *)
(* runs to completion with no other mutation in between (observers are   *)
(* deferred), so every operation below is one atomic step.                 *)
(***************************************************************************)
EXTENDS Integers, Sequences, SequencesExt, FiniteSets

CONSTANTS
    EntityOrder,   \* entities, in the order of their ids
    CompOrder,     \* plain components and tags, in the order of their ids
    RelOrder,      \* relationships, in the order of their ids
    TravRels,      \* relationships with the Traversable trait
    IsA,           \* the builtin IsA relationship
    InheritIds,    \* ids whose record has EcsIdOnInstantiateInherit
    DagDepthMax,   \* FLECS_DAG_DEPTH_MAX
    MaxTravPairs,  \* bound: traversable pairs one entity may own
    ObservableIds, \* ids observers may be created for
    MaxOwners      \* bound: entities that may own one component at a time

Entities == ToSet(EntityOrder)
Comps    == ToSet(CompOrder)
Rels     == ToSet(RelOrder)
Pairs    == Rels \X Entities
Ids      == Comps \cup Pairs
\* Records that carry a reachable cache: pairs of a traversable relationship.
Recs     == TravRels \X Entities

ASSUME IsA \in TravRels /\ TravRels \subseteq Rels
ASSUME InheritIds \subseteq Ids /\ ObservableIds \subseteq Ids

\* Ids sort by value: plain ids before pairs, pairs by relationship, then
\* by target.  A table's type array is kept in this order.
IdOrder == CompOrder \o
    FlattenSeq([r \in 1..Len(RelOrder) |->
        [k \in 1..Len(EntityOrder) |-> <<RelOrder[r], EntityOrder[k]>>]])

VARIABLES
    type,      \* type[e]: ids owned by e (the type of e's table)
    valid,     \* valid[p]: reachable.current == reachable.generation
    cache,     \* cache[p]: reachable.ids, as <<id, src>> elements
    observed   \* ids for which an OnAdd/OnRemove/OnSet/Wildcard observer exists

vars == <<type, valid, cache, observed>>

Elem == Ids \X Entities

TypeOK ==
    /\ type \in [Entities -> SUBSET Ids]
    /\ valid \in [Recs -> BOOLEAN]
    /\ cache \in [Recs -> Seq(Elem)]
    /\ observed \subseteq Ids

IsPair(id) == id \in Pairs

\* table->type.array of entity e under the types ty
TypeSeq(ty, e) == SelectSeq(IdOrder, LAMBDA i : i \in ty[e])

-----------------------------------------------------------------------------
(***************************************************************************)
(* Relationship graph.                                                    *)
(***************************************************************************)

\* Entities t reaches by following traversable pairs upward.
RECURSIVE UpFrom(_, _)
UpFrom(ty, t) ==
    LET parents == {q[2] : q \in ty[t] \cap Recs}
    IN parents \cup UNION {UpFrom(ty, u) : u \in parents}

-----------------------------------------------------------------------------
(***************************************************************************)
(* Invalidation.                                                          *)
(***************************************************************************)

\* Mutant: only the records that target e are bumped; the descent into the
\* tables holding them is lost.
InvalidateTablesShallow(ty, v, e) == {p \in Recs : p[2] = e /\ v[p]}

\* flecs_emit_propagate_invalidate_tables: from the records that target e,
\* bump the generation of every record still valid, and descend through the
\* tables holding it into the records that target their entities.  A
\* record that is already invalid is skipped with its subtree.  The result
\* is the set of records bumped.
InvalidateTables(ty, v, e) ==
    LET RECURSIVE Grow(_)
        Grow(S) ==
            LET S2 == S \cup {p \in Recs : v[p] /\
                                \E q \in S : q \in ty[p[2]]}
            IN IF S2 = S THEN S ELSE Grow(S2)
    IN Grow({p \in Recs : p[2] = e /\ v[p]})

\* flecs_emit_propagate / flecs_emit_propagate_id: bump the generation of
\* every record that targets e, then descend into the entities of the
\* tables holding each record.  Below a non-IsA edge only records of that
\* same relationship are descended into.
NoRel == "none"

RECURSIVE PropagateRecs(_, _, _)
PropagateRecs(ty, e, ptrav) ==
    LET mine  == {p \in Recs : p[2] = e}
        down  == {p \in mine : ptrav \in {NoRel, p[1], IsA}}
        below == {px \in down \X Entities : px[1] \in ty[px[2]]}
    IN mine \cup UNION {PropagateRecs(ty, px[2], px[1][1]) : px \in below}

-----------------------------------------------------------------------------
(***************************************************************************)
(* Forwarding: the upward walk that rebuilds a cache.  W is the state the *)
(* walk threads through: reach (the ids list being rebuilt, passed down as *)
(* reachable_ids), and the cache/valid maps of all records, since the walk *)
(* revalidates the intermediate records it passes.                         *)
(***************************************************************************)

\* flecs_emit_stack_at, 1-based: the first stacked table that owns id, or
\* Len(stack) + 1 when none does.
StackAt(stack, id) ==
    LET k == SelectInSeq(stack, LAMBDA t : id \in t)
    IN IF k = 0 THEN Len(stack) + 1 ELSE k

\* flecs_emit_forward_cached_ids: forward the valid cache of record cr,
\* except ids owned by a table on the stack.
ForwardCachedIds(W, cr, stack) ==
    [W EXCEPT !.reach = @ \o SelectSeq(W.cache[cr],
                          LAMBDA el : StackAt(stack, el[1]) = Len(stack) + 1)]

\* The ids from i on that the code's do/while visits: ids[i] and the
\* following ids whose relationship is trav.
RunLen(ids, i, trav) ==
    LET stop == {j \in (i + 1)..Len(ids) : ~(IsPair(ids[j]) /\ ids[j][1] = trav)}
    IN (IF stop = {} THEN Len(ids) + 1 ELSE Min(stop)) - i

\* A non-traversed id of the table: recorded in the sub-cache being rebuilt
\* when the table just below on the stack owns it (rec), and forwarded when
\* no stacked table owns it (fwd).
ForwardId(W, tgtCr, reval, below, fwd, recEl, fwdEl) ==
    LET W2 == IF reval /\ below
              THEN [W EXCEPT !.cache[tgtCr] = Append(@, recEl)]
              ELSE W
    IN IF fwd THEN [W2 EXCEPT !.reach = Append(@, fwdEl)] ELSE W2

\* The end of a table walk: a record rebuilt on the way gets the ids the
\* walk appended to reach after offset, and is marked valid.
Revalidate(W1, tgtCr, reval, offset) ==
    IF reval
    THEN [W1 EXCEPT !.cache[tgtCr] = @ \o SubSeq(W1.reach, offset + 1, Len(W1.reach)),
                    !.valid[tgtCr] = TRUE]
    ELSE W1

RECURSIVE ForwardUp(_, _, _, _, _), TableUp(_, _, _, _, _),
          IdLoop(_, _, _, _, _, _, _, _), DoWhile(_, _, _, _, _, _),
          IdLoopSrcRecord(_, _, _, _, _, _, _, _)

\* flecs_emit_forward_up: walk the table of the target of cr.  (Every
\* entity of the model is alive and has a table.)
ForwardUp(ctx, W, cr, stack, depth) ==
    IF depth >= DagDepthMax THEN W   \* ECS_CYCLE_DETECTED
    ELSE TableUp(ctx, W, cr, stack, depth + 1)

\* flecs_emit_forward_table_up: walk the ids of tgt_cr's target.  When
\* tgt_cr is not the record being rebuilt and is invalid, it is rebuilt on
\* the way: with the ids masked by the table just below it on the stack,
\* then the ids this subtree appended to reach; then marked valid.
TableUp(ctx, W, tgtCr, stack, depth) ==
    LET reval == tgtCr # ctx.top /\ ~W.valid[tgtCr]
        W0    == IF reval THEN [W EXCEPT !.cache[tgtCr] = <<>>] ELSE W
    IN Revalidate(IdLoop(ctx, W0, tgtCr, stack, depth, reval, TypeSeq(ctx.ty, tgtCr[2]), 1),
                  tgtCr, reval, Len(W0.reach))

\* Mutant: the revalidated sub-cache records the record, not the entity,
\* as the element's source.
IdLoopSrcRecord(ctx, W, tgtCr, stack, depth, reval, ids, i) ==
    IF i > Len(ids) THEN W
    ELSE
    LET id == ids[i]  trav == tgtCr[1]  tgt == tgtCr[2]
        st == Append(stack, ctx.ty[tgt])
        at == StackAt(stack, id)
        n  == RunLen(ids, i, trav)
    IN
    CASE trav = IsA /\ id \notin InheritIds ->
             IdLoop(ctx, W, tgtCr, stack, depth, reval, ids, i + 1)
      [] IsPair(id) /\ id[1] \in {trav, IsA} /\ W.valid[id] ->
             IdLoop(ctx, ForwardCachedIds(W, id, st), tgtCr, stack, depth, reval, ids, i + 1)
      [] IsPair(id) /\ id[1] \in {trav, IsA} ->
             IdLoop(ctx, DoWhile(ctx, W, id, st, depth, n), tgtCr, stack, depth, reval,
                    ids, i + n + 1)
      [] OTHER ->
             IdLoop(ctx, ForwardId(W, tgtCr, reval, at = Len(stack),
                                   at = Len(stack) + 1, <<id, tgtCr>>, <<id, tgt>>),
                    tgtCr, stack, depth, reval, ids, i + 1)

\* The loop over the ids of the target's table.  Ids the IsA walk does not
\* inherit are skipped.  A pair of the walked relationship (or IsA) pushes
\* the table and goes up, through the cache of the pair when it is valid,
\* else by the do/while, after which the loop's i++ steps over the id that
\* ended the do/while.  Any other id goes to ForwardId.
IdLoop(ctx, W, tgtCr, stack, depth, reval, ids, i) ==
    IF i > Len(ids) THEN W
    ELSE
    LET id == ids[i]  trav == tgtCr[1]  tgt == tgtCr[2]
        st == Append(stack, ctx.ty[tgt])
        at == StackAt(stack, id)
        n  == RunLen(ids, i, trav)
    IN
    CASE trav = IsA /\ id \notin InheritIds ->
             IdLoop(ctx, W, tgtCr, stack, depth, reval, ids, i + 1)
      [] IsPair(id) /\ id[1] \in {trav, IsA} /\ W.valid[id] ->
             IdLoop(ctx, ForwardCachedIds(W, id, st), tgtCr, stack, depth, reval, ids, i + 1)
      [] IsPair(id) /\ id[1] \in {trav, IsA} ->
             IdLoop(ctx, DoWhile(ctx, W, id, st, depth, n), tgtCr, stack, depth, reval,
                    ids, i + n + 1)
      [] OTHER ->
             IdLoop(ctx, ForwardId(W, tgtCr, reval, at = Len(stack),
                                   at = Len(stack) + 1, <<id, tgt>>, <<id, tgt>>),
                    tgtCr, stack, depth, reval, ids, i + 1)

\* The do/while over the run of ids with relationship trav: it calls
\* flecs_emit_forward_up n times, each time with the record cr of the first
\* one.
DoWhile(ctx, W, cr, stack, depth, n) ==
    IF n = 0 THEN W
    ELSE DoWhile(ctx, ForwardUp(ctx, W, cr, stack, depth), cr, stack, depth, n - 1)

-----------------------------------------------------------------------------
(***************************************************************************)
(* Reference: the ids a from-scratch walk reaches from t along R.  Ids of *)
(* the same relationship (or IsA) are walked through; any other id is     *)
(* reachable unless a nearer table on the path owns it.                    *)
(***************************************************************************)
RECURSIVE RefWalk(_, _, _, _)
RefWalk(ty, R, t, stack) ==
    LET T     == {id \in ty[t] : R # IsA \/ id \in InheritIds}
        up    == {q \in T : IsPair(q) /\ q[1] \in {R, IsA}}
        own   == {<<id, t>> : id \in {i \in T \ up :
                                       \A k \in 1..Len(stack) : i \notin stack[k]}}
    IN own \cup UNION {RefWalk(ty, q[1], q[2], Append(stack, ty[t])) : q \in up}

Reachable(ty, p) == RefWalk(ty, p[1], p[2], <<>>)

-----------------------------------------------------------------------------
(***************************************************************************)
(* The emit pipeline, as far as it touches the caches.                    *)
(***************************************************************************)

\* generation++ on every record of S.
Bumped(f, S) == [f EXCEPT !.valid = [q \in Recs |-> @[q] /\ q \notin S]]

\* The rebuilt ids become the cache of p; only OnAdd and OnRemove mark it
\* current.
Rebuilt(W1, ev, p) ==
    [reach |-> W1.reach,
     cache |-> [W1.cache EXCEPT ![p] = W1.reach],
     valid |-> [W1.valid EXCEPT ![p] = @ \/ ev \in {"OnAdd", "OnRemove"}]]

\* flecs_emit_forward: rebuild the cache of p on a miss (only OnAdd and
\* OnRemove may mark it valid), read it on a hit.
Forward(ty, ev, e, p, v, c) ==
    IF ~v[p]
    THEN Rebuilt(ForwardUp([ty |-> ty, top |-> p],
                           [reach |-> <<>>, cache |-> c, valid |-> v], p, <<>>, 0),
                 ev, p)
    ELSE [reach |-> c[p], cache |-> c, valid |-> v]

\* flecs_propagate_entities, when e is itself a relationship target and
\* some forwarded id is not owned by e's table: every cache below e is
\* bumped.
ForwardDown(ty, e, f) ==
    IF \E k \in 1..Len(f.reach) : f.reach[k][1] \notin ty[e]
    THEN Bumped(f, PropagateRecs(ty, e, NoRel))
    ELSE f

\* Observers match the id: they are invoked and the event propagates down.
Propagated(ty, e, id, f) ==
    IF id \in observed THEN Bumped(f, PropagateRecs(ty, e, NoRel)) ELSE f

\* flecs_emit for event ev and the single id `id` on entity e, whose table
\* has type ty[e]: pre-invalidation (not for OnSet), forwarding for a
\* traversable pair (not for OnSet), then, when observers match the id,
\* invocation and downward propagation.  Observers are deferred and the
\* Wildcard pass and override OnSet leave the caches alone.
EmitOne(ev, ty, e, id) ==
    LET v1 == IF ev # "OnSet"
              THEN Bumped([valid |-> valid], InvalidateTables(ty, valid, e)).valid
              ELSE valid
    IN Propagated(ty, e, id,
                  IF ev # "OnSet" /\ id \in Recs
                  THEN ForwardDown(ty, e, Forward(ty, ev, e, id, v1, cache))
                  ELSE [cache |-> cache, valid |-> v1])

-----------------------------------------------------------------------------
(***************************************************************************)
(* Operations.                                                             *)
(***************************************************************************)

Init ==
    /\ type = [e \in Entities |-> {}]
    /\ valid = [p \in Recs |-> FALSE]
    /\ cache = [p \in Recs |-> <<>>]
    /\ observed = {}

\* A pair of a traversable relationship may not close a cycle (the
\* relationship layer rejects those before emit runs).
CanAdd(e, id) ==
    /\ id \notin type[e]
    /\ id \in Comps => Cardinality({x \in Entities : id \in type[x]}) < MaxOwners
    /\ id \in Recs => /\ id[2] # e
                      /\ e \notin UpFrom(type, id[2])
                      /\ Cardinality(type[e] \cap Recs) < MaxTravPairs

\* Add id to e: the entity moves to the table with id, then OnAdd is
\* emitted on the new table.
AddId(e, id) ==
    /\ CanAdd(e, id)
    /\ LET ty2 == [type EXCEPT ![e] = @ \cup {id}]
           r   == EmitOne("OnAdd", ty2, e, id)
       IN /\ type' = ty2
          /\ valid' = r.valid
          /\ cache' = r.cache
    /\ UNCHANGED observed

\* Remove id from e: OnRemove is emitted on the old table, then the entity
\* moves to the table without id.
RemoveId(e, id) ==
    /\ id \in type[e]
    /\ LET r == EmitOne("OnRemove", type, e, id)
       IN /\ valid' = r.valid
          /\ cache' = r.cache
    /\ type' = [type EXCEPT ![e] = @ \ {id}]
    /\ UNCHANGED observed

\* ecs_modified / ecs_set: OnSet for a component e owns.
SetComp(e, c) ==
    /\ c \in type[e] \cap Comps
    /\ LET r == EmitOne("OnSet", type, e, c)
       IN /\ valid' = r.valid
          /\ cache' = r.cache
    /\ UNCHANGED <<type, observed>>

\* ecs_emit of a user event for an id of e.
EmitCustom(e, id) ==
    /\ id \in type[e]
    /\ LET r == EmitOne("Custom", type, e, id)
       IN /\ valid' = r.valid
          /\ cache' = r.cache
    /\ UNCHANGED <<type, observed>>

\* An observer for id is created (flecs_event_id_record_ensure) or its
\* last observer deleted (flecs_event_id_record_remove).
Observe(id) ==
    /\ id \notin observed
    /\ observed' = observed \cup {id}
    /\ UNCHANGED <<type, valid, cache>>

Unobserve(id) ==
    /\ id \in observed
    /\ observed' = observed \ {id}
    /\ UNCHANGED <<type, valid, cache>>

Next ==
    \/ \E e \in Entities, id \in Ids : AddId(e, id)
    \/ \E e \in Entities, id \in Ids : RemoveId(e, id)
    \/ \E e \in Entities, c \in Comps : SetComp(e, c)
    \/ \E e \in Entities, id \in Ids : EmitCustom(e, id)
    \/ \E id \in ObservableIds : Observe(id) \/ Unobserve(id)

Spec == Init /\ [][Next]_vars

-----------------------------------------------------------------------------
(***************************************************************************)
(* Properties.                                                             *)
(***************************************************************************)

\* Cache correctness (flecs_emit_forward reads a cache without walking when
\* current == generation): every cache marked valid lists exactly the ids,
\* with their owners, that a walk from scratch over the present tables
\* reaches.  It fails if an invalidation misses a record that depends on a
\* changed table, or if a rebuild validates wrong contents.
CacheSound ==
    \A p \in Recs : valid[p] => ToSet(cache[p]) = Reachable(type, p)
==============================================================================
