----------------------------- MODULE MCEncRemote -----------------------------
(***************************************************************************)
(* Small instances of EncRemote for TLC.                                   *)
(***************************************************************************)
EXTENDS EncRemote, TLC

CONSTANTS c1, c2, c3, main, dev, a, b

\* c2 and c3 both build on c1: a fork, so that forcing drops history.
ForkAnc == c1 :> {c1} @@ c2 :> {c1, c2} @@ c3 :> {c1, c3}

\* Each clone has a branch of its own off c1.
ForkedClones == a :> {c1, c2} @@ b :> {c1, c3}

\* b has still to commit.
OneCommitted == a :> {c1, c2} @@ b :> {c1}

\* Pushes of one refspec to main.
Update(x) == main :> [src |-> x, force |-> FALSE]
Force(x)  == main :> [src |-> x, force |-> TRUE]
Delete    == main :> [src |-> NoCommit, force |-> FALSE]

\* Of two refspecs: one may pass and the other not.
Both(x, y) == main :> [src |-> x, force |-> FALSE] @@ dev :> [src |-> y, force |-> FALSE]

\* Both clones push their own branch: b's replaces a's by force; a's is
\* refused while b's is there, unless main is deleted in between, but the
\* ref that it pushes with it passes.
RaceBatches == a :> {Both(c2, c1)} @@ b :> {Force(c3), Delete}

\* Both force: a push repeated after it landed overrides the other's.
LateBatches == a :> {Force(c2)} @@ b :> {Force(c3)}
=============================================================================
