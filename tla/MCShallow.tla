------------------------------ MODULE MCShallow ------------------------------
(***************************************************************************)
(* Small instances of Shallow for TLC.                                     *)
(***************************************************************************)
EXTENDS Shallow, TLC

CONSTANTS x1, x2, x3, y, own, main, tmp

(* The remote is cloned at x2; y forks off before it, and this repository  *)
(* may build on x2.  Others move the only branch to y or delete it.        *)
Fork == x1 :> {} @@ x2 :> {x1} @@ y :> {x1} @@ own :> {x2}

ToX2  == main :> x2
Moves == {main :> y, main :> NoCommit}

(* A line of three commits, cloned at its end.  Others make a branch one   *)
(* commit before the end and delete it again.                              *)
Line == x1 :> {} @@ x2 :> {x1} @@ x3 :> {x2}

ToEnd    == main :> x3 @@ tmp :> NoCommit
Branched == {main :> x3 @@ tmp :> x2, ToEnd}
=============================================================================
