----------------------------- MODULE Observable -----------------------------
(***************************************************************************)
(* The observable's event index (src/src/observable.c, lines 13-245): per *)
(* event an event record; per (event, id) an event-id record holding the  *)
(* observers for the id, with its observer_count.  The ids Any, Wildcard  *)
(* and (Wildcard, Wildcard) live in fixed fields of the event record, all *)
(* other ids in the event_ids map, which is created on first insert and   *)
(* released when its last entry is removed.  Builtin event records are    *)
(* inline; user event records live in a sparse set and are never removed.  *)
(*                                                                         *)
(* Observers are registered and unregistered by the observer code, which  *)
(* calls flecs_event_record_ensure, flecs_event_id_record_ensure and      *)
(* flecs_event_id_record_remove and keeps observer_count.                 *)
(***************************************************************************)
EXTENDS Integers, Sequences, SequencesExt

CONSTANTS BuiltinEvents,  \* OnAdd, OnRemove, OnSet, Wildcard (inline records)
          UserEvents,     \* events whose records live in the sparse set
          Comps,          \* plain ids
          Rels, Tgts,     \* relationships and targets of concrete pairs
          EcsAny,         \* the Any id
          EcsWildcard,    \* the Wildcard id
          MaxObservers    \* bound: observers registered at one time

\* A NULL event-id record pointer (counts are never negative).
NULL == -1

Events == BuiltinEvents \cup UserEvents
PairWildcard == <<EcsWildcard, EcsWildcard>>
FixedIds == {EcsAny, EcsWildcard, PairWildcard}
Pairs == (Rels \cup {EcsWildcard}) \X (Tgts \cup {EcsWildcard})
Ids == Comps \cup {EcsAny, EcsWildcard} \cup Pairs
\* Ids an emitted event carries: concrete ids, and EcsAny.
EmitIds == Comps \cup (Rels \X Tgts) \cup {EcsAny}

IsPair(id) == id \in Pairs

VARIABLES
    sparse,   \* user events with a record in observable->events
    mapInit,  \* mapInit[ev]: ecs_map_is_init(&er->event_ids)
    ider      \* ider[ev][id]: observer_count of the event-id record, or NULL

vars == <<sparse, mapInit, ider>>

TypeOK ==
    /\ sparse \subseteq UserEvents
    /\ mapInit \in [Events -> BOOLEAN]
    /\ ider \in [Events -> [Ids -> {NULL} \cup 1..MaxObservers]]

\* flecs_event_record_get: builtin records always exist, user records once
\* ensured.
EventRecordGet(ev) == ev \in BuiltinEvents \/ ev \in sparse

\* flecs_event_record_get_if: a record that holds any event-id record.
EventRecordGetIf(ev) ==
    /\ EventRecordGet(ev)
    /\ \/ mapInit[ev]
       \/ \E id \in FixedIds : ider[ev][id] # NULL

\* flecs_event_id_record_get: a fixed field, or the map when it exists.
IdRecordIn(ev, id) == IF id \in FixedIds \/ mapInit[ev] THEN ider[ev][id] ELSE NULL
EventIdRecordGet(ev, id) == IF EventRecordGet(ev) THEN IdRecordIn(ev, id) ELSE NULL

\* flecs_event_id_record_get_if: only a record that has observers.
HasObservers(ev, id) ==
    LET r == EventIdRecordGet(ev, id) IN r # NULL /\ r > 0

\* Mutant: the (rel, *) bucket is looked up under (*, tgt) again.
ObserversGetNoSwc(ev, id) ==
    LET cands ==
          (IF id # EcsAny THEN <<EcsAny>> ELSE <<>>) \o <<id>> \o
          (IF id = EcsAny THEN <<>>
           ELSE IF IsPair(id)
           THEN SelectSeq(<<<<EcsWildcard, id[2]>>, PairWildcard>>, LAMBDA w : w # id)
           ELSE IF id # EcsWildcard THEN <<EcsWildcard>> ELSE <<>>)
    IN IF ~EventRecordGet(ev) THEN <<>>
       ELSE SelectSeq(cands, LAMBDA w : HasObservers(ev, w))

\* flecs_event_observers_get: the records with observers among EcsAny, the id
\* itself and, for a pair, (*, tgt), (rel, *) and (*, *) when different
\* from the id; for another id except EcsWildcard, EcsWildcard.  EcsAny gets
\* its own record only.
ObserversGet(ev, id) ==
    LET cands ==
          (IF id # EcsAny THEN <<EcsAny>> ELSE <<>>) \o <<id>> \o
          (IF id = EcsAny THEN <<>>
           ELSE IF IsPair(id)
           THEN SelectSeq(<<<<EcsWildcard, id[2]>>, <<id[1], EcsWildcard>>, PairWildcard>>,
                          LAMBDA w : w # id)
           ELSE IF id # EcsWildcard THEN <<EcsWildcard>> ELSE <<>>)
    IN IF ~EventRecordGet(ev) THEN <<>>
       ELSE SelectSeq(cands, LAMBDA w : HasObservers(ev, w))

\* flecs_observers_exist
ObserversExist(ev, id) == EventRecordGetIf(ev) /\ HasObservers(ev, id)

-----------------------------------------------------------------------------

Init ==
    /\ sparse = {}
    /\ mapInit = [ev \in Events |-> FALSE]
    /\ ider = [ev \in Events |-> [id \in Ids |-> NULL]]

TotalObservers ==
    MapThenSumSet(LAMBDA b : IF ider[b[1]][b[2]] = NULL THEN 0 ELSE ider[b[1]][b[2]],
                  Events \X Ids)

\* flecs_event_record_ensure: a user event gets its sparse entry.
EventRecordEnsure(ev) == IF ev \in UserEvents THEN sparse \cup {ev} ELSE sparse

\* flecs_event_id_record_ensure, as the new [ider, mapInit]: an existing
\* record is returned as is; else a calloc'ed one (observer_count 0) goes
\* into a fixed field or, after ecs_map_init_w_params_if, into the map.
EventIdRecordEnsure(ev, id) ==
    IF IdRecordIn(ev, id) # NULL THEN [i |-> ider, m |-> mapInit]
    ELSE [i |-> [ider EXCEPT ![ev][id] = 0],
          m |-> IF id \in FixedIds THEN mapInit ELSE [mapInit EXCEPT ![ev] = TRUE]]

\* Mutant: the map is kept when its last entry is removed.
EventIdRecordRemoveKeep(ev, id) ==
    [i |-> [ider EXCEPT ![ev][id] = NULL], m |-> mapInit]

\* flecs_event_id_record_remove: clear the fixed field, or remove the map
\* entry and release the map once it is empty.
EventIdRecordRemove(ev, id) ==
    [i |-> [ider EXCEPT ![ev][id] = NULL],
     m |-> IF id \in FixedIds THEN mapInit
           ELSE [mapInit EXCEPT ![ev] =
                    \E k \in Ids \ (FixedIds \cup {id}) : ider[ev][k] # NULL]]

\* An observer for (ev, id) is created: the event record and the event-id
\* record are ensured and the record counts one more observer.
Register(ev, id) ==
    /\ TotalObservers < MaxObservers
    /\ sparse' = EventRecordEnsure(ev)
    /\ LET r == EventIdRecordEnsure(ev, id)
       IN /\ ider' = [r.i EXCEPT ![ev][id] = @ + 1]
          /\ mapInit' = r.m

\* An observer for (ev, id) is deleted: the count drops, and the record is
\* removed and freed with the last observer.
Unregister(ev, id) ==
    /\ HasObservers(ev, id)
    /\ IF ider[ev][id] > 1
       THEN /\ ider' = [ider EXCEPT ![ev][id] = @ - 1]
            /\ UNCHANGED mapInit
       ELSE LET r == EventIdRecordRemove(ev, id)
            IN ider' = r.i /\ mapInit' = r.m
    /\ UNCHANGED sparse

Next == \E ev \in Events, id \in Ids : Register(ev, id) \/ Unregister(ev, id)

Spec == Init /\ [][Next]_vars

-----------------------------------------------------------------------------
(***************************************************************************)
(* Properties.                                                             *)
(***************************************************************************)

\* The index holds exactly what the registered observers need, after any
\* sequence of registrations and deletions on fixed and mapped ids: an
\* event has records only once its event record exists, and an event_ids map is initialized exactly while
\* it holds a record.  So once all observers are gone no map is left
\* initialized, which is what flecs_observable_fini asserts.
RecordsLive ==
    \A ev \in Events :
        /\ \A id \in Ids : ider[ev][id] # NULL => EventRecordGet(ev)
        /\ mapInit[ev] <=> \E k \in Ids \ FixedIds : ider[ev][k] # NULL

\* The buckets spec 4.3 says observers_matching collects for id: EcsAny
\* unless id is EcsAny, the id itself, and the wildcard refinements of a pair
\* or, for a non-pair id, EcsWildcard.
SpecMatching(id) ==
    ({EcsAny} \ {id}) \cup {id} \cup
    (IF IsPair(id) THEN {<<EcsWildcard, id[2]>>, <<id[1], EcsWildcard>>, PairWildcard}
     ELSE {EcsWildcard})

\* flecs_event_observers_get returns, for every event and every id in S,
\* each record with observers among SpecMatching(id) exactly once.
ObserversMatch(S) ==
    \A ev \in Events, id \in S :
        LET got == ObserversGet(ev, id)
        IN /\ ToSet(got) = {w \in SpecMatching(id) : HasObservers(ev, w)}
           /\ Len(got) = Cardinality(ToSet(got))

\* Dispatch for concrete ids (components and pairs) finds exactly the
\* observers registered for the id, for EcsAny, and for the matching
\* wildcards, whatever records the registrations and deletions left.
ObserversComplete == ObserversMatch(EmitIds \ {EcsAny})

==============================================================================
