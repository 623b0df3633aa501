------------------------------- MODULE MCLists -------------------------------
(* Instances of Lists.tla for TLC.                                         *)
EXTENDS Lists

CONSTANTS a, b, c

\* b joins or leaves.
AddOrRemove == {[add |-> {b}, remove |-> {}], [add |-> {}, remove |-> {b}]}

\* Somebody makes b an admin too, or gives the remote to b, with a reader c.
AdminsByHand == {[participants |-> {a, b}, admins |-> {a, b}],
                 [participants |-> {b, c}, admins |-> {b}]}
=============================================================================
