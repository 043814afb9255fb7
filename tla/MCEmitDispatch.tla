---------------------------- MODULE MCEmitDispatch ----------------------------
(***************************************************************************)
(* Model-checking instances of EmitDispatch.                              *)
(***************************************************************************)
EXTENDS EmitDispatch

CONSTANTS e1, e2, e3, VComp, IsARel, AnyId, WildcardId,
          OnAddEv, OnRemoveEv, OnSetEv, WildcardEv

Ents3 == <<e1, e2, e3>>
\* self_up observers of V for OnAdd and OnSet, an up observer of V for
\* OnSet, a self observer of V for the Wildcard event, and an OnAdd
\* observer of (IsA, *), which the pair wildcard lookups reach.
Obs5 == {[ev |-> OnAddEv, id |-> VComp, kind |-> "self_up"],
         [ev |-> OnSetEv, id |-> VComp, kind |-> "self_up"],
         [ev |-> OnSetEv, id |-> VComp, kind |-> "up"],
         [ev |-> WildcardEv, id |-> VComp, kind |-> "self"],
         [ev |-> OnAddEv, id |-> <<IsARel, WildcardId>>, kind |-> "self"]}
===============================================================================
