---------------------------- MODULE MCTravCache ----------------------------
EXTENDS TravCache

CONSTANTS e1, e2, e3, e4, X, R

Ents3 == <<e1, e2, e3>>
Ents4 == <<e1, e2, e3, e4>>
CompsX == {X}
CompsNone == {}
==============================================================================
