-------------------------------- MODULE Vec ---------------------------------
(***************************************************************************)
(* The growable buffer ecs_vec_t (src/src/datastructures/vec.c): count,   *)
(* size and the allocated array, one slot per element of the allocation. *)
(* Each ecs_vec_* call that changes the vector is an action; the helpers   *)
(* they call (set_size, set_min_size, ...) are operators on the record     *)
(* [count, size, array] so that a call is modelled with everything it     *)
(* calls.  Fresh memory from malloc/realloc holds Undef; the caller writes *)
(* an element into the slot append returns.                               *)
(***************************************************************************)
EXTENDS Integers

CONSTANTS Vals,      \* values a caller stores
          Zero,      \* the all-zero element (memset 0)
          Undef,     \* the contents of uninitialized memory
          MaxCount   \* bound: element counts requested by callers

Data == Vals \cup {Zero, Undef}

VARIABLE vec

\* flecs_next_pow_of_2
RECURSIVE PowAtLeast(_, _)
PowAtLeast(n, p) == IF p >= n THEN p ELSE PowAtLeast(n, 2 * p)
NextPow2(n) == PowAtLeast(n, 1)

MaxSize == NextPow2(MaxCount)

\* Storage of n slots whose first `keep` slots are copied from array a.
Realloc(a, keep, n) == [k \in 0..(n - 1) |-> IF k < keep THEN a[k] ELSE Undef]

Empty == [count |-> 0, size |-> 0, array |-> Realloc(<<>>, 0, 0)]

\* ecs_vec_fini: release the array (nothing to do when there is none).
Fini(V) == IF V.size > 0 THEN Empty ELSE V

\* ecs_vec_set_size: at least count, rounded up to a power of two, floor 2;
\* the array is reallocated only when that changes the size.
SetSize(V, n) ==
    IF V.size = n THEN V
    ELSE LET n1 == IF n < V.count THEN V.count ELSE n
             n2 == IF NextPow2(n1) < 2 THEN 2 ELSE NextPow2(n1)
         IN IF n2 = V.size THEN V
            ELSE [V EXCEPT !.size = n2,
                           !.array = Realloc(V.array, IF V.size < n2 THEN V.size ELSE n2, n2)]

SetMinSize(V, n) == IF n > V.size THEN SetSize(V, n) ELSE V

SetMinCount(V, n) ==
    LET W == SetMinSize(V, n)
    IN IF W.count < n THEN [W EXCEPT !.count = n] ELSE W

\* ecs_vec_set_min_count_zeromem: the slots from the old count on are zeroed.
SetMinCountZeromem(V, n) ==
    IF V.count < n
    THEN LET W == SetMinCount(V, n)
         IN [W EXCEPT !.array = [k \in DOMAIN @ |->
                                   IF V.count <= k /\ k < n THEN Zero ELSE @[k]]]
    ELSE V

SetCount(V, n) ==
    IF V.count # n
    THEN [(IF V.size < n THEN SetSize(V, n) ELSE V) EXCEPT !.count = n]
    ELSE V

\* Mutant: append grows only once count exceeds size.
AppendLateGrow(V, x) ==
    LET W == IF V.size < V.count THEN SetSize(V, V.count + 1) ELSE V
    IN [W EXCEPT !.count = V.count + 1,
                 !.array = IF V.count \in DOMAIN @ THEN [@ EXCEPT ![V.count] = x] ELSE @]

\* ecs_vec_append, with the caller's write of x into the returned slot.
AppendV(V, x) ==
    LET W == IF V.size = V.count THEN SetSize(V, V.count + 1) ELSE V
    IN [W EXCEPT !.count = V.count + 1, !.array[V.count] = x]

\* ecs_vec_remove: the last element is copied into slot i.
RemoveV(V, i) ==
    LET c == V.count - 1
    IN IF i = c THEN [V EXCEPT !.count = c]
       ELSE [V EXCEPT !.count = c, !.array[i] = V.array[c]]

\* Mutant: the shift stops one element short.
RemoveOrderedShort(V, i) ==
    LET c == V.count - 1
    IN [V EXCEPT !.count = c,
                 !.array = [k \in DOMAIN @ |->
                              IF i <= k /\ k < c - 1 THEN @[k + 1] ELSE @[k]]]

\* ecs_vec_remove_ordered: the elements after i move one slot down.
RemoveOrderedV(V, i) ==
    LET c == V.count - 1
    IN [V EXCEPT !.count = c,
                 !.array = [k \in DOMAIN @ |->
                              IF i <= k /\ k < c THEN @[k + 1] ELSE @[k]]]

\* ecs_vec_reclaim: shrink the array to count, or free it when empty.
ReclaimV(V) ==
    IF V.count < V.size
    THEN IF V.count > 0
         THEN [V EXCEPT !.size = V.count, !.array = Realloc(V.array, V.count, V.count)]
         ELSE Fini(V)
    ELSE V

\* ecs_vec_copy_shrink: a duplicate with size = count (no array if empty).
CopyShrinkV(V) ==
    [count |-> V.count, size |-> V.count,
     array |-> Realloc(V.array, V.count, V.count)]

-----------------------------------------------------------------------------

TypeOK ==
    vec \in [count : 0..MaxCount, size : 0..MaxSize,
             array : UNION {[0..(n - 1) -> Data] : n \in 0..MaxSize}]

\* ecs_vec_init(elem_count): count 0, an uninitialized array of
\* elem_count slots (none for 0, as in a zero-initialized ecs_vec_t).
Init == \E n \in 0..MaxCount : vec = [count |-> 0, size |-> n,
                                      array |-> Realloc(<<>>, 0, n)]

Append(x) == vec.count < MaxCount /\ vec' = AppendV(vec, x)

\* The index must be below count (ecs_assert ... ECS_OUT_OF_RANGE).
Remove(i) == i < vec.count /\ vec' = RemoveV(vec, i)

RemoveOrdered(i) == i < vec.count /\ vec' = RemoveOrderedV(vec, i)

\* Mutant: a caller pops an empty vector.
RemoveLastUnchecked == vec' = [vec EXCEPT !.count = @ - 1]

\* ecs_vec_remove_last checks nothing; its callers pop what they pushed,
\* so it is only called on a non-empty vector.
RemoveLast == vec.count > 0 /\ vec' = [vec EXCEPT !.count = @ - 1]

SetSizeA(n) == vec' = SetSize(vec, n)
SetMinSizeA(n) == vec' = SetMinSize(vec, n)
SetMinCountA(n) == vec' = SetMinCount(vec, n)
SetMinCountZeromemA(n) == vec' = SetMinCountZeromem(vec, n)
SetCountA(n) == vec' = SetCount(vec, n)

\* ecs_vec_grow(n): set_count(count + n), n >= 0 asserted.
Grow(n) == vec.count + n <= MaxCount /\ vec' = SetCount(vec, vec.count + n)

Clear == vec' = [vec EXCEPT !.count = 0]

\* ecs_vec_reset: init with no slots when there is no storage, else clear.
Reset == vec' = IF vec.size = 0 THEN Empty ELSE [vec EXCEPT !.count = 0]

FiniA == vec' = Fini(vec)
Reclaim == vec' = ReclaimV(vec)

\* v = ecs_vec_copy_shrink(v), the original then freed.
CopyShrink == vec' = CopyShrinkV(vec)

Next ==
    \/ \E x \in Vals : Append(x)
    \/ \E i \in 0..(MaxCount - 1) : Remove(i) \/ RemoveOrdered(i)
    \/ RemoveLast
    \/ \E n \in 0..MaxCount :
          \/ SetSizeA(n) \/ SetMinSizeA(n) \/ SetMinCountA(n)
          \/ SetMinCountZeromemA(n) \/ SetCountA(n) \/ Grow(n)
    \/ Clear \/ Reset \/ FiniA \/ Reclaim \/ CopyShrink

Spec == Init /\ [][Next]_vec

-----------------------------------------------------------------------------
(***************************************************************************)
(* Properties.                                                             *)
(***************************************************************************)

\* Memory safety of every call: the slots 0..count-1 that ecs_vec_get,
\* ecs_vec_last and the element copies of remove/remove_ordered read lie
\* inside the allocation, after any sequence of appends, removes, count
\* changes and shrinks (reclaim, copy_shrink, set_size below the size).
CountWithinSize == vec.count <= vec.size

\* The elements, as the abstract buffer sees them.
Elements == [k \in 1..vec.count |->
                IF k - 1 \in DOMAIN vec.array THEN vec.array[k - 1] ELSE Undef]

Abstract == INSTANCE VecSeq WITH seq <- Elements

\* Every call keeps the elements the contract says it keeps: append puts
\* the written value last, remove moves the last element into the hole,
\* remove_ordered shifts, set_count and grow only truncate or extend, and
\* reallocations (set_size, reclaim, copy_shrink, growth in append)
\* preserve the first count elements.
RefinesVecSeq == Abstract!Spec
==============================================================================
