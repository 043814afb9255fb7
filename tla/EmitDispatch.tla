---------------------------- MODULE EmitDispatch ----------------------------
(***************************************************************************)
(* Which observers flecs_emit invokes (src/src/observable.c, 442-622,     *)
(* 908-1463): the direct dispatch of each emitted id, forwarding of the   *)
(* ids reachable through an added or removed IsA pair, downward           *)
(* propagation, the Wildcard pass and the OnSet of overrides.             *)
(*                                                                         *)
(* It composes two modules.  Observable is the index the observers are    *)
(* registered in, and the bucket lookup (flecs_event_observers_get) that  *)
(* dispatch goes through.  ReachableCache gives the ids a forward reaches *)
(* from a pair; here the cache is taken to hold them (ReachableCache      *)
(* checks when it does).                                                   *)
(*                                                                         *)
(* An observer is one (event, id, bucket) triple: the bucket is the map   *)
(* of the event-id record it sits in (self, self_up or up).  `log` is the *)
(* sequence of invocations of the last emit, in the code's order.  The    *)
(* only relationship is IsA and the only component with data is V.  Every *)
(* entity is alone in its table, so a table is its entity's type.         *)
(***************************************************************************)
EXTENDS Integers, Sequences, SequencesExt, FiniteSets

CONSTANTS
    EntityOrder,              \* entities, in the order of their ids
    V,                        \* a component with data and a non-trivial set
    IsA, EcsAny, EcsWildcard, \* builtin ids
    OnAdd, OnRemove, OnSet, EvWildcard,  \* builtin events
    Observers,                \* the observers that may be created
    MaxObservers,             \* bound: observers at one time
    MaxParents,               \* bound: IsA pairs one entity owns
    MaxBatch                  \* bound: ids added or removed by one call

Entities == ToSet(EntityOrder)
Parents  == {IsA} \X Entities
\* Ids sort V first, then the IsA pairs by target.
IdOrder  == <<V>> \o [k \in 1..Len(EntityOrder) |-> <<IsA, EntityOrder[k]>>]
Kinds    == {"self", "self_up", "up"}
NoEv  == "none"    \* a NULL event record
NoEnt == "none"    \* no entity

VARIABLES
    sparse, mapInit, ider,  \* the observable's index (Observable)
    obs,    \* the observers
    type,   \* type[e]: the ids of e's table
    old,    \* type before the last operation
    last,   \* the last operation: [op, ent]
    log     \* the invocations of the last emit

vars == <<sparse, mapInit, ider, obs, type, old, last, log>>

Idx == INSTANCE Observable
       WITH BuiltinEvents <- {OnAdd, OnRemove, OnSet, EvWildcard},
            UserEvents <- {}, Comps <- {V}, Rels <- {IsA}, Tgts <- Entities

RC == INSTANCE ReachableCache
      WITH CompOrder <- <<V>>, RelOrder <- <<IsA>>, TravRels <- {IsA},
           InheritIds <- {V} \cup Parents, DagDepthMax <- Len(EntityOrder) + 1,
           MaxTravPairs <- MaxParents, ObservableIds <- {},
           MaxOwners <- Len(EntityOrder),
           valid <- [p \in Parents |-> FALSE], cache <- [p \in Parents |-> <<>>],
           observed <- {}

ASSUME Observers \subseteq [ev : {OnAdd, OnRemove, OnSet, EvWildcard},
                            id : Idx!Ids, kind : Kinds]

Entry == [o : Observers, event : {OnAdd, OnRemove, OnSet}, id : {V} \cup Parents,
          ent : Entities, src : Entities]

TypeOK ==
    /\ obs \subseteq Observers
    /\ type \in [Entities -> SUBSET ({V} \cup Parents)]
    /\ old \in [Entities -> SUBSET ({V} \cup Parents)]
    /\ last \in [op : {"none", "add", "remove", "set", "observe"}, ent : Entities \cup {NoEnt}]
    /\ log \in Seq(Entry)

\* table->_->traversable_count, record->cr: x is the target of a pair.
IsTarget(ty, x) == \E y \in Entities : <<IsA, x>> \in ty[y]
\* EcsTableHasIsA
HasIsA(T) == T \cap Parents # {}

\* flecs_event_record_get_if: the record, or NULL when it has no observers.
ER(ev) == IF Idx!EventRecordGetIf(ev) THEN ev ELSE NoEv

\* flecs_event_observers_get; none for a NULL record.
Iders(er, id) == IF er = NoEv THEN <<>> ELSE Idx!ObserversGet(er, id)

\* flecs_observers_invoke on one bucket of one event-id record: its observer,
\* if there is one, runs for entity x with source src.
Fire(er, w, kind, event, id, x, src) ==
    LET o == [ev |-> er, id |-> w, kind |-> kind]
    IN IF o \in obs THEN <<[o |-> o, event |-> event, id |-> id, ent |-> x, src |-> src]>>
       ELSE <<>>

\* The dispatch loops: for each event-id record, the listed buckets in order.
Invoke(er, iders, kinds, event, id, x, src) ==
    FlattenSeq([k \in 1..Len(iders) |->
        FlattenSeq([j \in 1..Len(kinds) |-> Fire(er, iders[k], kinds[j], event, id, x, src)])])

\* Owned takes precedence: up always, self_up only for a table without id.
UpKinds(T, id) == IF id \in T THEN <<"up">> ELSE <<"up", "self_up">>

-----------------------------------------------------------------------------
(***************************************************************************)
(* Propagation and forwarding.                                             *)
(***************************************************************************)

RECURSIVE Propagate(_, _, _, _, _, _, _), PropagateOneLevel(_, _, _, _, _, _, _)

\* Mutant: the walk stops at the tables directly below x.
PropagateOneLevel(ty, er, iders, event, id, x, src) ==
    LET below == SelectSeq(EntityOrder, LAMBDA y : <<IsA, x>> \in ty[y])
    IN FlattenSeq([k \in 1..Len(below) |->
           Invoke(er, iders, UpKinds(ty[below[k]], id), event, id, below[k], src)])

\* flecs_emit_propagate from the record of target x, and
\* flecs_emit_propagate_id over the tables holding (IsA, x): up and, unless
\* the table owns id, self_up observers run with source src; then the walk
\* continues below every entity of the table that is itself a target.
Propagate(ty, er, iders, event, id, x, src) ==
    LET below == SelectSeq(EntityOrder, LAMBDA y : <<IsA, x>> \in ty[y])
    IN FlattenSeq([k \in 1..Len(below) |->
           Invoke(er, iders, UpKinds(ty[below[k]], id), event, id, below[k], src)
           \o Propagate(ty, er, iders, event, id, below[k], src)])

\* flecs_emit_forward_id for the reachable id rid owned by src: the
\* event's up and self_up observers and, when rid has storage (V, not an
\* IsA pair), the OnSet observers of erOnset.
ForwardId(er, erOnset, event, T, e, rid, src) ==
    Invoke(er, Iders(er, rid), UpKinds(T, rid), event, rid, e, src)
    \o (IF rid = V THEN Invoke(erOnset, Iders(erOnset, rid), UpKinds(T, rid), OnSet, rid, e, src)
        ELSE <<>>)

\* The tail of flecs_emit_forward: when e is a target, every reachable id
\* the table does not own is propagated below e (flecs_propagate_entities)
\* with the event's observers and its owner as source.
ForwardDown(ty, er, event, T, e, elems) ==
    FlattenSeq([k \in 1..Len(elems) |->
        IF elems[k][1] \in T THEN <<>>
        ELSE Propagate(ty, er, Iders(er, elems[k][1]), event, elems[k][1], e, elems[k][2])])

\* Mutant: the new ids are forwarded to e only, never below it.
ForwardNoDown(ty, er, erFwd, event, T, e, elems) ==
    FlattenSeq([k \in 1..Len(elems) |->
        ForwardId(er, erFwd, event, T, e, elems[k][1], elems[k][2])])

\* flecs_emit_forward of pair p for e, whose table is T; elems is the
\* pair's reachable cache.
Forward(ty, er, erFwd, event, T, e, elems) ==
    FlattenSeq([k \in 1..Len(elems) |->
        ForwardId(er, erFwd, event, T, e, elems[k][1], elems[k][2])])
    \o (IF IsTarget(ty, e) THEN ForwardDown(ty, er, event, T, e, elems) ELSE <<>>)

-----------------------------------------------------------------------------
(***************************************************************************)
(* flecs_emit.                                                             *)
(***************************************************************************)

\* One iteration of the id loop: forwarding for an IsA pair (the OnSet
\* observers join for OnAdd), then, unless nothing observes id and no
\* override is possible or the table does not hold id, the self and
\* self_up observers, and propagation below e when e is a target.
DispatchId(ty, er, erOnset, event, T, e, id, canFwd, canOverride) ==
    LET iders == Iders(er, id)
    IN (IF canFwd /\ id \in Parents
        THEN Forward(ty, er, IF event = OnAdd THEN erOnset ELSE NoEv, event, T, e,
                     SetToSeq(RC!Reachable(ty, id)))
        ELSE <<>>)
       \o (IF (iders = <<>> /\ ~canOverride) \/ id \notin T THEN <<>>
           ELSE Invoke(er, iders, <<"self", "self_up">>, event, id, e, e)
                \o (IF iders # <<>> /\ IsTarget(ty, e)
                    THEN Propagate(ty, er, iders, event, id, e, e) ELSE <<>>))

\* The loop over the emitted ids, for event record er.
Pass(ty, er, erOnset, event, T, e, ids, canFwd, canOverride) ==
    FlattenSeq([i \in 1..Len(ids) |->
        DispatchId(ty, er, erOnset, event, T, e, ids[i], canFwd, canOverride)])

\* flecs_table_get_override (not in src/, from spec 4.4 phase 4): a table
\* that owns id and also inherits it overrides the base, the first owner
\* found up its IsA pairs, depth first in id order.
RECURSIVE Owner(_, _, _), UpOwner(_, _, _)
Owner(ty, x, id) == IF id \in ty[x] THEN x ELSE UpOwner(ty, ty[x], id)
UpOwner(ty, T, id) ==
    LET ps == SelectSeq(EntityOrder, LAMBDA t : <<IsA, t>> \in T)
        rs == [k \in 1..Len(ps) |-> Owner(ty, ps[k], id)]
        k  == SelectInSeq(rs, LAMBDA r : r # NoEnt)
    IN IF k = 0 THEN NoEnt ELSE rs[k]

\* flecs_emit_on_set_for_override_on_add: nothing unless the table
\* overrides V, or the previous table already had (IsA, base); else the
\* OnSet self and self_up observers see e's own value.
OverrideOnAdd(ty, erOnset, T, other, e) ==
    LET base  == IF V \in T THEN UpOwner(ty, T, V) ELSE NoEnt
        iders == Iders(erOnset, V)
    IN IF base = NoEnt \/ <<IsA, base>> \in other THEN <<>>
       ELSE Invoke(erOnset, iders, <<"self", "self_up">>, OnSet, V, e, e)

\* Mutant: the source is left at the entity instead of the base.
OverrideOnRemoveSelf(ty, erOnset, T, e) ==
    LET base == IF V \in T THEN UpOwner(ty, T, V) ELSE NoEnt
    IN IF base = NoEnt THEN <<>>
       ELSE Invoke(erOnset, Iders(erOnset, V), <<"self_up", "up">>, OnSet, V, e, e)

\* flecs_emit_on_set_for_override_on_remove: the OnSet self_up and up
\* observers see the base's value.
OverrideOnRemove(ty, erOnset, T, e) ==
    LET base == IF V \in T THEN UpOwner(ty, T, V) ELSE NoEnt
    IN IF base = NoEnt THEN <<>>
       ELSE Invoke(erOnset, Iders(erOnset, V), <<"self_up", "up">>, OnSet, V, e, base)

\* Mutant: the Wildcard pass reports the Wildcard event as it.event.
EmitWildcardEvent(ty, event, ids, e, T, other) ==
    LET er      == ER(event)
        wcer    == ER(EvWildcard)
        erOnset == ER(OnSet)
        canOA   == event = OnAdd /\ HasIsA(T)
        canOR   == event = OnRemove /\ HasIsA(other)
    IN Pass(ty, er, erOnset, event, T, e, ids, event # OnSet, canOA \/ canOR)
       \o (IF wcer # NoEv /\ er # wcer
           THEN Pass(ty, wcer, erOnset, EvWildcard, T, e, ids, FALSE, canOA \/ canOR)
           ELSE <<>>)

\* flecs_emit of event for ids of entity e in table T, coming from table
\* other: the id loop for the event's record, again for the Wildcard
\* event's record (without forwarding), then the override OnSet for V.
Emit(ty, event, ids, e, T, other) ==
    LET er      == ER(event)
        wcer    == ER(EvWildcard)
        erOnset == ER(OnSet)
        canOA   == event = OnAdd /\ HasIsA(T)
        canOR   == event = OnRemove /\ HasIsA(other)
    IN Pass(ty, er, erOnset, event, T, e, ids, event # OnSet, canOA \/ canOR)
       \o (IF wcer # NoEv /\ er # wcer
           THEN Pass(ty, wcer, erOnset, event, T, e, ids, FALSE, canOA \/ canOR)
           ELSE <<>>)
       \o (IF V \notin ToSet(ids) THEN <<>>
           ELSE IF canOA THEN OverrideOnAdd(ty, erOnset, T, other, e)
           ELSE IF canOR THEN OverrideOnRemove(ty, erOnset, T, e)
           ELSE <<>>)

-----------------------------------------------------------------------------
(***************************************************************************)
(* Operations.                                                             *)
(***************************************************************************)

Init ==
    /\ Idx!Init
    /\ obs = {}
    /\ type = [e \in Entities |-> {}]
    /\ old = type
    /\ last = [op |-> "none", ent |-> NoEnt]
    /\ log = <<>>

\* The emitted ids, in type order.
Sorted(B) == SelectSeq(IdOrder, LAMBDA i : i \in B)

Batches(S) == {B \in SUBSET S : B # {} /\ Cardinality(B) <= MaxBatch}

\* The relationship layer refuses an IsA pair that would close a cycle.
CanAdd(e, B) ==
    /\ \A p \in B \cap Parents : p[2] # e /\ e \notin RC!UpFrom(type, p[2])
    /\ Cardinality((type[e] \cup B) \cap Parents) <= MaxParents

\* Add ids to e: the entity moves to its new table, then OnAdd is emitted
\* there with the previous table as other_table.
AddIds(e, B) ==
    /\ CanAdd(e, B)
    /\ LET ty2 == [type EXCEPT ![e] = @ \cup B]
       IN /\ type' = ty2
          /\ log' = Emit(ty2, OnAdd, Sorted(B), e, ty2[e], type[e])
    /\ old' = type
    /\ last' = [op |-> "add", ent |-> e]
    /\ UNCHANGED <<sparse, mapInit, ider, obs>>

\* Remove ids from e: OnRemove is emitted on the current table with the
\* destination as other_table, then the entity moves.
RemoveIds(e, B) ==
    /\ log' = Emit(type, OnRemove, Sorted(B), e, type[e], type[e] \ B)
    /\ type' = [type EXCEPT ![e] = @ \ B]
    /\ old' = type
    /\ last' = [op |-> "remove", ent |-> e]
    /\ UNCHANGED <<sparse, mapInit, ider, obs>>

\* ecs_modified of V on e: OnSet, with no other table.
SetV(e) ==
    /\ V \in type[e]
    /\ log' = Emit(type, OnSet, <<V>>, e, type[e], {})
    /\ old' = type
    /\ last' = [op |-> "set", ent |-> e]
    /\ UNCHANGED <<sparse, mapInit, ider, obs, type>>

\* An observer is created or deleted; its event-id record is ensured or
\* released in the index (from the spec: the observer code is not in src/).
Observe(o) ==
    /\ o \notin obs
    /\ Idx!Register(o.ev, o.id)
    /\ obs' = obs \cup {o}
    /\ old' = type
    /\ last' = [op |-> "observe", ent |-> NoEnt]
    /\ log' = <<>>
    /\ UNCHANGED type

Unobserve(o) ==
    /\ o \in obs
    /\ Idx!Unregister(o.ev, o.id)
    /\ obs' = obs \ {o}
    /\ old' = type
    /\ last' = [op |-> "observe", ent |-> NoEnt]
    /\ log' = <<>>
    /\ UNCHANGED type

Next ==
    \/ \E e \in Entities : \E B \in Batches(({V} \cup Parents) \ type[e]) : AddIds(e, B)
    \/ \E e \in Entities : \E B \in Batches(type[e]) : RemoveIds(e, B)
    \/ \E e \in Entities : SetV(e)
    \/ \E o \in Observers : Observe(o) \/ Unobserve(o)

Spec == Init /\ [][Next]_vars

-----------------------------------------------------------------------------
(***************************************************************************)
(* Properties.  The references are spec 4.5's resolution rule: an entity  *)
(* sees an id from itself if it owns it, else from the nearest ancestor   *)
(* along IsA that owns it.                                                 *)
(***************************************************************************)

\* The entities n IsA steps above x.
RECURSIVE Level(_, _, _)
Level(ty, x, n) ==
    IF n = 0 THEN {x}
    ELSE {t \in Entities : \E y \in Level(ty, x, n - 1) : <<IsA, t>> \in ty[y]}

\* The owners of id nearest to x (x itself when it owns id).
NearestOwners(ty, x, id) ==
    LET owners(n) == {y \in Level(ty, x, n) : id \in ty[y]}
        ds == {n \in 0..Len(EntityOrder) : owners(n) # {}}
    IN IF ds = {} THEN {} ELSE owners(Min(ds))

\* The world an invocation describes: OnRemove observers run before the
\* entity leaves its table, all others after the change.
World(en) == IF en.event = OnRemove THEN old ELSE type

\* Every observer invoked by an emit is told a source that owns the id and
\* is the entity itself or one of its IsA ancestors, in forwarding,
\* propagation and the override OnSet alike.
SourcesOwn ==
    \A k \in 1..Len(log) :
        LET en == log[k]
            w  == World(en)
        IN /\ en.id \in w[en.src]
           /\ \E n \in 0..Len(EntityOrder) : en.src \in Level(w, en.ent, n)

\* Spec 4.5 and spec 8 invariant 5 (nearest ancestor wins), for observers
\* that match the entity's own resolution of an id (self and self_up):
\* the source they are told is the owner the entity sees the id from.
NearestOwnerWins ==
    \A k \in 1..Len(log) :
        log[k].o.kind \in {"self", "self_up"} =>
            log[k].src \in NearestOwners(World(log[k]), log[k].ent, log[k].id)

\* Spec scenario S4: after ecs_modified of V on e, every self_up OnSet
\* observer of V runs for every entity that sees V from e, however far
\* below e it is.
SetReachesInheritors ==
    last.op = "set" =>
        \A o \in obs, x \in Entities \ {last.ent} :
            /\ o.ev = OnSet /\ o.id = V /\ o.kind = "self_up"
            /\ last.ent \in NearestOwners(type, x, V)
            => \E k \in 1..Len(log) : log[k].o = o /\ log[k].ent = x /\ log[k].src = last.ent

\* Spec scenario S2, downward too: after an add, every self_up OnAdd
\* observer of V runs for every entity that did not see V before and now
\* sees it from an ancestor, with that ancestor as source; through the
\* added pair's forwarding or through propagation of the added V.
NewlyInheritedNotified ==
    last.op = "add" =>
        \A o \in obs, x \in Entities :
            /\ o.ev = OnAdd /\ o.id = V /\ o.kind = "self_up"
            /\ NearestOwners(old, x, V) = {}
            /\ NearestOwners(type, x, V) # {}
            /\ x \notin NearestOwners(type, x, V)
            => \E k \in 1..Len(log) :
                   log[k].o = o /\ log[k].ent = x /\ log[k].src \in NearestOwners(type, x, V)

\* The index the dispatch reads stays as Observable requires.
RecordsLive == Idx!RecordsLive

\* Bucket lookup returns every matching record with observers.
ObserversComplete == Idx!ObserversComplete

==============================================================================
