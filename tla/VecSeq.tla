------------------------------- MODULE VecSeq -------------------------------
(***************************************************************************)
(* What the growable buffer promises (spec 4.1), with its storage left    *)
(* out: a sequence of elements.  Slots a call hands out uninitialized hold *)
(* any value.  Calls that only change the allocation (set_size, reclaim,  *)
(* copy) leave the sequence as it is.  Indices are 0-based, as in the API. *)
(***************************************************************************)
EXTENDS Integers, Sequences

CONSTANTS Data,      \* values an element may hold
          MaxCount   \* bound on the element count

VARIABLE seq

\* The sequence extended to n elements by arbitrary values.
Extended(n) == {seq \o ext : ext \in [1..(n - Len(seq)) -> Data]}

Init == seq = <<>>

AppendElem(v) == seq' = Append(seq, v)

\* remove(i): the last element takes the place of element i.
Remove(i) ==
    /\ i < Len(seq)
    /\ seq' = [k \in 1..(Len(seq) - 1) |->
                  IF k = i + 1 THEN seq[Len(seq)] ELSE seq[k]]

RemoveLast == seq' = SubSeq(seq, 1, Len(seq) - 1)

RemoveOrdered(i) ==
    /\ i < Len(seq)
    /\ seq' = SubSeq(seq, 1, i) \o SubSeq(seq, i + 2, Len(seq))

\* set_count(n): truncate, or extend with uninitialized elements.
SetCount(n) ==
    \/ n <= Len(seq) /\ seq' = SubSeq(seq, 1, n)
    \/ n > Len(seq) /\ seq' \in Extended(n)

\* Extended with the given value (set_min_count_zeromem: zero).
ExtendWith(n, v) ==
    seq' = seq \o [k \in 1..(n - Len(seq)) |-> v]

Clear == seq' = <<>>

Next ==
    \/ \E v \in Data : Len(seq) < MaxCount /\ AppendElem(v)
    \/ \E i \in 0..MaxCount : Remove(i) \/ RemoveOrdered(i)
    \/ Len(seq) > 0 /\ RemoveLast
    \/ \E n \in 0..MaxCount : SetCount(n)
    \/ \E n \in 0..MaxCount, v \in Data : n > Len(seq) /\ ExtendWith(n, v)
    \/ Clear

Spec == Init /\ [][Next]_seq
==============================================================================
