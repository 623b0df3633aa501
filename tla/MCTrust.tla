------------------------------- MODULE MCTrust -------------------------------
(***************************************************************************)
(* Small instances of Trust for TLC.                                       *)
(***************************************************************************)
EXTENDS Trust, TLC

CONSTANTS p, q, me, ann, bob, cy

\* ann administers; the remote is hers, bob's and mine.
Trio == [members |-> {me, ann, bob}, admins |-> {ann}]

\* ... and cy's.
Quartet == [members |-> {me, ann, bob, cy}, admins |-> {ann}]

JustTrio == {Trio}
AddCy    == {Trio, Quartet}
\* Helpers with the same role may be exchanged.
Helpers == Permutations(Proc)
=============================================================================
