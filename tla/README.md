# TLA+ models of the flecs observable, reachable-id cache, traversal cache and vector

This directory holds TLA+ models of the event core in `src/src/observable.c` and of the
growable buffer in `src/src/datastructures/vec.c` and the query traversal cache in
`src/src/query/engine/trav_cache.c`, checked with TLC. `PROJECT.json` lists
the components, the runs, the mutants that show each property can fail, and the map from
every modelled definition to the source lines it translates. It also lists the findings and
the hazards.

## The system

| Part | Source | What it does |
|---|---|---|
| Growable buffer | `vec.c`, `vec.h` | `ecs_vec_t {array, count, size}`. It grows to the next power of two, with a floor of 2. `remove` swaps in the last element and `remove_ordered` shifts. `reclaim` and `copy_shrink` cut the size down to exactly `count`. |
| Observable index | `observable.c` 13-245 | Holds one event record per event. OnAdd/OnRemove/OnSet/Wildcard records are inline; user events live in a sparse set. Each event record holds event-id records, which carry `observer_count`. Any, Wildcard and (*,*) go in fixed fields, every other id in the `event_ids` map. The map is created on the first insert and released when its last entry goes. `observers_get` collects up to 5 matching records. |
| Reachable-id cache | `observable.c` 257-1027 | Every pair `(R, t)` of a traversable relationship has a cache of the ids reachable from `t` by walking up the relationship graph, each with its owner. The cache is valid when `current == generation`. Invalidation bumps `generation` and stops at records that are already invalid. `flecs_emit_forward` serves a valid cache or rebuilds it. During a rebuild, `forward_table_up` walks each table's ids with a stack of visited tables. Ids owned lower down are masked. Intermediate caches are revalidated on the way ("parent revalidate"). Propagation bumps every cache below a changed entity. |
| Emit pipeline | `observable.c` 1139-1523 | `flecs_emit` runs, in order: pre-invalidation, then the id loop (forward, observers, propagate), then the Wildcard repeat, then the override OnSet. |
| Query traversal cache | `query/engine/trav_cache.c` | One `ecs_trav_cache_t` per query operation context holds the last traversal: the entities up from a table (`up = true`), or down from an entity, along a relationship. It is keyed by a pair id. An up call is keyed by the table's first `(trav, *)` pair. A call whose key and direction match returns the cached list. |
| Statistics, C++ enum utils | `stats.c`, `enum.hpp` | Outside the spec's scope. Not modelled; see PROJECT.json. |

The parts interact through emit. Adding or removing an id, or emitting any other event, calls
`flecs_emit`. It invalidates the caches of the records that target the entity, forwards
through the cache of a traversable pair that was added or removed, and propagates to the
entities below when observers match the id. The observable index decides which observers
match, and `flecs_emit` invokes them: self and self_up for the entity, up and self_up (unless
the table owns the id) for forwarded and propagated ids.

## Modules

- **`ReachableCache`** models the reachable caches and every step of emit that reads or writes them.
  - State:
    - `type[e]` is the type of e's table.
    - `valid[p]` abstracts `current == generation`.
    - `cache[p]` is `reachable.ids` as `<<id, owner>>` elements.
    - `observed` is the set of ids that have observers.
  - Actions: `AddId` (the entity moves table, then OnAdd is emitted), `RemoveId` (OnRemove is emitted, then the entity moves), `SetComp` (OnSet), `EmitCustom` (`ecs_emit`), `Observe` and `Unobserve`.
  - Each action's emit is one atomic step, `EmitOne`, which models:
    - `flecs_emit_propagate_invalidate_tables`, as the closure `InvalidateTables` over valid records;
    - `flecs_emit_forward`, including the down-propagation of `propagate_entities`;
    - `flecs_emit_propagate`, as `PropagateRecs`, including the `propagate_trav` filter.
  - The rebuild walk is a set of mutually recursive operators (`ForwardUp`, `TableUp`, `IdLoop`, `DoWhile`). Each recursive call appears once in its operator; results used more than once are passed to small helpers (`ForwardId`, `Revalidate`, `Rebuilt`, `Bumped`). They thread the ids list being rebuilt and the caches and valid flags of every record through the walk, in the code's order. The stack holds the types of the visited tables. `StackAt` is `flecs_emit_stack_at`, 1-based.
  - `RefWalk` is the reference: a walk from scratch that follows spec 4.5. Ids of the walked relationship, or IsA pairs, are walked through. Any other id is reachable unless a nearer table owns it. Under IsA only ids with the Inherit trait count.
- **`Vec`** models `ecs_vec_t` as a record `[count, size, array]`.
  - Every state-changing `ecs_vec_*` call is an action, built from operators for the helpers it calls. For example, append calls set_size, and set_min_count calls set_min_size.
  - Fresh memory holds `Undef`.
  - **`VecSeq`** is the abstract contract from spec 4.1: a sequence in which extended slots hold arbitrary values.
  - `Vec` instantiates `VecSeq` with `seq <- Elements` (the first `count` slots) and checks `RefinesVecSeq`.
- **`Observable`** models the observable index. `ider[ev][id]` is an event-id record's `observer_count`, or NULL. `mapInit[ev]` is `ecs_map_is_init(&er->event_ids)`, and `sparse` is the set of user events that have a record. `Register` and `Unregister` are the observer code's calls into the index. That code is not under `src/`, so they are modelled from the spec. The index has no MC module of its own: `EmitDispatch` drives it through `Observe` and `Unobserve` and checks its invariants in the `emit` run.
- **`EmitDispatch`** models which observers `flecs_emit` invokes, and with which source. It composes the two modules above through named instances: `Idx` is `Observable` (whose variables it shares) and `RC` is `ReachableCache`, used only for `Reachable`, the ids a forward reaches from a pair. A forward is taken to serve a correct cache here; `ReachableCache` checks when it does.
  - State: `obs` (the live observers, each an `(event, id, bucket)` triple), `type`, `old` (the types before the last step), `last` (the last operation) and `log`, the invocations of the last emit in the code's order, each `[o, event, id, ent, src]`.
  - `Emit` is `flecs_emit`: `Pass` (the id loop) for the event's record, again for the Wildcard record without forwarding, then `OverrideOnAdd` or `OverrideOnRemove` for V. `DispatchId` is one loop iteration, with its early outs. `Forward` and `ForwardId` are `flecs_emit_forward` and `flecs_emit_forward_id`, `ForwardDown` the propagation at the end of `flecs_emit_forward`, and `Propagate` `flecs_emit_propagate_id` with its recursion. `UpKinds` is the owned-before-inherited rule.
  - Actions: `AddIds` and `RemoveIds` (a batch of up to `MaxBatch` ids, table move and emit in the code's order), `SetV` (`ecs_modified`), `Observe` and `Unobserve`. The only relationship is IsA and each entity is alone in its table.
  - `Owner`/`UpOwner` stand for `flecs_table_get_override` (not in `src/`): the first owner up the IsA pairs, depth first. `NearestOwners` is the reference for spec 4.5's resolution rule.
- **`TravCache`** models `trav_cache.c`.
  - State: `type[e]` is e's table. `cache` is `[id, up, cdr, entities]`. `last` records the call the cache last served.
  - Actions: `GetDown(e)`, `GetUp(T)` and `NextIteration` (`trav_cache_fini`, followed by a zeroed context).
  - `BuildDown`, `BuildUp` and `UpLoop` are the two recursive builders, in the code's order.
  - The references are graph notions from the community `Graphs` module. Up from T is the targets of T with their `Descendants` along the relationship. Down from e is e and its `Ancestors` that are themselves targets.
  - The world is fixed during an iteration, because a query runs deferred. Every acyclic world within the bounds is an initial state, so a world changed between iterations is just another initial state. Every entity has a table; one with no ids is in the root table.
- **`ReachableGeneration`** keeps what `ReachableCache` abstracts: the two counters of one record, `current` and `generation`, as `Width`-bit counters that wrap (`Bump`). `fresh` says whether the cached ids still match the graph. Each action is one call's whole effect on the record: `Invalidate` (`propagate_invalidate_tables`: bump only a valid record, ids now stale), `Propagate` (`flecs_emit_propagate`: bump always, ids unchanged), `Rebuild(ev)` (`flecs_emit_forward` on a miss: ids rebuilt, `current` set only for OnAdd/OnRemove) and `Revalidate` (the parent-revalidate path of `forward_table_up`). The struct is declared outside `src/`; a new record starts one generation behind, so its first read misses.
- **`ReachableValid`** is the abstract specification: the flag `valid` and `fresh`, with the same four steps. Invalidation and propagation clear the flag; only an OnAdd/OnRemove rebuild or a revalidation sets it, and both make the ids fresh, so every step keeps `valid => fresh`. `ReachableGeneration` instantiates it with `valid <- (current = generation)` and states `RefinesValidFlag == Abs!Spec`.
- `MCReachableCache`, `MCVec`, `MCEmitDispatch` and `MCTravCache` give the constants model values and named sets for the `.cfg` files.

## Runs and what they show

| Run | Checks | Result |
|---|---|---|
| `reach` | TypeOK, CacheSound: with ChildOf and IsA both traversable (ChildOf walks through IsA pairs, propagation is filtered by relationship), one traversable pair per entity, 3 entities and up to 3 owners of X, a valid cache equals the from-scratch walk. | pass (3,094 distinct states under entity symmetry and the view below) |
| `reach_wrap` | RefinesValidFlag: `ReachableGeneration` (the counters) implements `ReachableValid` (the flag) with `valid <- (current = generation)`. | **violation**: propagation bumps `generation` on an invalid record until it wraps onto `current` (observable.c:348) |
| `reach_deep` | CacheSound over a four-level IsA chain. | **violation**: a revalidated intermediate cache loses an id that it reaches through a valid cache and that a lower table masks (skipped at observable.c:678; only direct ids masked one table below are recorded, at 818) |
| `reach_skip` | CacheSound with an inherited `(Likes, p)` after `(IsA, p)`. | **violation**: the dirty-cache do/while ends on the Likes pair and the for loop's `i++` skips it (observable.c:802) |
| `reach_multi` | CacheSound with two IsA parents per entity. Each component has one owner, so the deep-masking defect cannot occur. | **violation**: the do/while passes the first pair's `cr` on every iteration, so the second parent is never walked (observable.c:800) |
| `trav_single` | TypeOK, UpServes and DownServes: with one target per entity, and up traversal asked only for tables that hold the relationship, every call returns exactly the reference set, whatever calls came before it. | pass (1,052 states) |
| `trav_stale` | UpServes, with up traversal also asked for tables without the relationship. | **violation**: the reset at trav_cache.c:136 keeps the key, so the next call for the first table gets the empty list |
| `trav_return` | UpServes with two targets per entity. | **violation**: `return` at trav_cache.c:83 drops the table's remaining targets once one target has no parent |
| `trav_key` | UpSound (nothing that is not up from the table) with 4 entities and two targets. | **violation**: the key is the table's first pair only (trav_cache.c:140), so e3's table is served e4's list, which lists e3 itself |
| `vec` | TypeOK, CountWithinSize, RefinesVecSeq. | pass (569 states) |
| `emit` | TypeOK; RecordsLive and ObserversComplete of the index (maps released when empty, so `observable_fini`'s asserts hold; `observers_get` returns each matching bucket with observers exactly once); SourcesOwn (every invocation names a source that owns the id and is the entity or an IsA ancestor, in forwarding, propagation and both override OnSets); SetReachesInheritors (spec S4 at any depth); NewlyInheritedNotified (spec S2, also for entities below the one that gained the pair). | pass (20,481 states) |
| `emit_nearest` | NearestOwnerWins: self and self_up observers are told the owner the entity sees the id from. | **violation**: propagation does not stop below an entity that owns the id (observable.c:297) |

Each passing property has a mutant in `PROJECT.json`: a plausible bug in a mapped definition
that TLC catches under the same cfg. For example, invalidation that does not descend, a sub-cache
element recording the record as source, append growing one element late, a
remove_ordered shift that stops one element short, or a map kept after its last entry.

### The reachable-cache defects

All three break spec 8 invariant 3: a valid cache is marked `current = generation` while its
contents differ from a walk from scratch. The next emit through that pair then forwards, and
propagates, the wrong set of ids. The TLC traces are short, 5 or 6 steps. They need
multi-level IsA hierarchies, a second IsA parent, or an inherited user pair sorted after IsA,
and ordinary tests build those only rarely.

### Propagation past an owner

`flecs_emit_propagate_id` uses `owned` only to skip the self_up observers of a table that
owns the id; it then recurses below that table with the source still set to the emitter.
In the TLC trace e3 IsA e1 IsA e2, e1 owns V, an OnAdd V self_up observer exists, and e2
gains V: the observer runs for e3 with source e2, although e3 sees e1's V (spec 4.5, spec 8
invariant 5). It takes a three-level chain with an override in the middle.

### Generation wrap

The counters are `int32_t` and are never reset. `flecs_emit_propagate` bumps `generation`
on every record below a changed entity, whether or not it is already invalid; only
`propagate_invalidate_tables` skips invalid records (observable.c:382). A record that stays
invalid (never rebuilt by an OnAdd or OnRemove, since OnSet rebuilds do not validate) while
values keep changing above it therefore counts `generation` through the whole range. At
`Width = 2` TLC's trace is a new record followed by three propagations: `generation` equals
`current`, and a cache that was never built reads as valid. That step is no step of
`ReachableValid`, where propagation always clears the flag. At 32 bits it takes 2^32 - 1
propagations. That is out of reach of any test, but not of a long-running program in which values
above such a record keep changing. Spec 9 asks that 32-bit overflow never alias two generations. The
signed overflow is undefined in C. The model takes the wrap that a two's-complement build
gives.

### The traversal-cache defects

The three `trav_cache.c` defects all return a wrong list for a key that matches. Each needs
two calls within one iteration, for different tables, or a table with two targets, and the
query tests rarely build either.

## Bounds

- ReachableCache uses 3 entities, or 4 for deep and multi, and one component X.
  - Relationships: IsA; ChildOf and IsA; or IsA and Likes.
  - `MaxTravPairs` caps the traversable pairs one entity owns (1, or 2 for multi). `MaxOwners` caps how many entities own one component (1 where masking must be ruled out).
  - `DagDepthMax = 8` is above any depth an acyclic graph of 4 entities reaches.
  - Observers only for X (`ObsX`).
  - The `reach` run uses symmetry over its three entities. With one traversable pair per entity and every relationship traversable, a type holds at most one pair, so the id order of entities never decides the order of a walk.
  - It also uses the view `LiveCaches`, which blanks `cache[p]` while `valid[p]` is FALSE. An invalid cache is never read: `ForwardCachedIds` reads only valid caches, and a rebuild first empties the cache (`ecs_vec_reset_t` at observable.c:930 and 746). So two states that differ only there have the same futures.
  - Three entities are enough for one level of masking and a two-level walk with parent revalidation. Four are needed for the deep and multi-parent shapes.
- ReachableGeneration uses `Width = 2`: four generations, so the wrap takes three propagations. The wrap happens at any width after 2^Width - 1 bumps; a larger width only lengthens the trace.
- Vec uses 2 stored values and counts up to 3. Growth then rounds 3 up to 4, and reclaim and copy_shrink produce sizes 1 and 3, which are not powers of two.
- TravCache uses 3 entities, or 4 for the key run, with at most one component and one relationship. `MaxTargets` is 1, or 2 where a table needs two targets. Three entities give a two-level chain beside a root; the key collision needs two tables with the same first pair and different second pairs, which takes four.
- EmitDispatch uses 3 entities, V and IsA, at most one IsA pair per entity (`MaxParents = 1`), batches of up to 2 ids (so V and `(IsA, p)` arrive together, the override-on-add case), and 2 live observers out of 5 (OnAdd V self_up, OnSet V self_up, OnSet V up, Wildcard V self, OnAdd `(IsA, *)` self). Three entities give a two-level chain, enough for propagation below the first level, forwarding to an entity that is itself a base, and an owner in the middle of a chain. The 5 observers cover each bucket kind, the Wildcard record and a wildcard pair in the index.

## Fairness

None. Every property is a safety property, or an action property. Emit runs to completion
in one step (spec 5: it is single-threaded per world, with observers deferred), so there is
no waiting to be fair about.

## Not modelled, and why

- In dispatch: EcsAny emits, DontFragment ids, traversable relationships other than IsA, table events and bulk counts, and the evtx de-duplication of multi-component observers (in the observer code, outside `src/`). `observers_get` returns only the Any bucket for an EcsAny emit, while spec 4.3 also names Wildcard for non-pair ids; no run emits EcsAny, so this stays a hazard note.
- The OnSet for values newly inherited by descendants of an entity that gains an IsA pair: `ForwardDown` propagates with the event's record only (observable.c:1016), as the code does, and no property decides whether the spec requires more. It is listed as a hazard.
- DontFragment records and the `tr == NULL` path.
- `flecs_instantiate`.
- Observers that mutate the world during emit. `ecs_emit` wraps `flecs_emit` in `ecs_defer_begin`/`ecs_defer_end` (observable.c:1500-1502), and the mutating callers in the storage code (outside `src/`) emit while deferred, so an observer's changes are applied after the walk; each emit is taken as one atomic step.
- The generation counters inside `ReachableCache`: they are abstracted to the flag, and `reach_wrap` checks that abstraction on its own.
- FLECS_DAG_DEPTH_MAX cut-offs. The runs use `DagDepthMax = 8`, above any depth their graphs reach. With the limit at 2 and a four-level IsA chain, CacheSound fails: the release build compiles out the assert at observable.c:886, so the walk stops silently and the cache is validated. The same bounds with 8 pass (491,360 states). This is listed as a hazard.
- In `trav_cache.c`, the table cache's iteration order in `build_down_cache` is left open: the model takes children in id order. The property compares sets.
- `vec.h` is declarations and `_t` convenience macros only; the functions are modelled from `vec.c`.
- `stats.c` and `enum.hpp`: out of the spec's scope. The enum code is compile-time reflection. The statistics code is float arithmetic over ring buffers, and nothing under `src/` calls it, so there is no calling protocol to model. Its one ordering question is left unchecked: world, query and system stats advance the slot before recording (`t = t_next(s->t)`), while pipeline stats record at `s->t` and then advance.

## Plan for later work

1. Deferred command flushing, once the storage code that applies deferred operations is available to model.
2. An abstract `Reachable` spec (caches as a function of the types), with `ReachableCache` refining it under the inputs where CacheSound holds. `ReachableValid` is the abstraction of one record's flag; the whole cache is not yet refined.
