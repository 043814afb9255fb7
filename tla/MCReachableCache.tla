-------------------------- MODULE MCReachableCache --------------------------
(***************************************************************************)
(* Model-checking instances of ReachableCache.                            *)
(***************************************************************************)
EXTENDS ReachableCache

CONSTANTS e1, e2, e3, e4, X, Y, IsARel, ChildOfRel, LikesRel

\* Entity orders for three and four entities.
Ents3 == <<e1, e2, e3>>
\* Entity renamings, for runs in which the id order of entities is never
\* observed (at most one pair per type).
SymEnts3 == Permutations({e1, e2, e3})
Ents4 == <<e1, e2, e3, e4>>

CompsX  == <<X>>
CompsXY == <<X, Y>>

\* IsA only; IsA and ChildOf (builtin ids: ChildOf sorts before IsA); IsA and
\* a user relationship Likes (user ids sort after the builtins).
RelsIsA        == <<IsARel>>
RelsChildOfIsA == <<ChildOfRel, IsARel>>
RelsIsALikes   == <<IsARel, LikesRel>>

TravIsA        == {IsARel}
TravChildOfIsA == {ChildOfRel, IsARel}

\* Components, and pairs of IsA and Likes, are inherited through IsA.
InheritAll == Ids \cap (Comps \cup ({IsARel, LikesRel} \X Entities))

ObsX == {X}

\* The contents of an invalid cache are never read: a miss resets them
\* before the rebuild (ecs_vec_reset_t, observable.c:930 and the
\* revalidation at 838), so states that differ only there are the same.
LiveCaches == <<type, valid, [p \in Recs |-> IF valid[p] THEN cache[p] ELSE <<>>], observed>>
ObsNone == {}
==============================================================================
