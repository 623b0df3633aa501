------------------------------ MODULE RefStore ------------------------------
(***************************************************************************)
(* What an encrypted remote promises the people who push to it, with no    *)
(* trace of packs, manifests, leases or retries: a set of named refs that  *)
(* pushes change atomically, one at a time, each against the refs as they  *)
(* are and never against an older reading of them, and a store from which  *)
(* every commit a ref reaches can be rebuilt.                              *)
(*                                                                         *)
(* EncRemote.tla is shown to implement this specification.                 *)
(***************************************************************************)
EXTENDS Integers

CONSTANTS
  Ref,       \* ref names
  Commit,    \* the commits of the users' history
  Anc,       \* Anc[x]: x and its ancestors
  NoCommit   \* the value of a ref that does not exist

VARIABLES
  refs,      \* the commit every ref names
  stored,    \* the commits the remote can give back
  asked      \* what the last push was asked to change, and to force

abstractVars == <<refs, stored, asked>>

\* What the commits of S reach.
Reach(S) == UNION {Anc[x] : x \in S}

\* The commits refs name.
Named(rs) == {rs[r] : r \in Ref} \ {NoCommit}

Init ==
  /\ refs = [r \in Ref |-> NoCommit]
  /\ stored = {}
  /\ asked = [touched |-> {}, forced |-> {}]

(* A push: it changes the refs it was asked to change and no other; a ref  *)
(* it was not asked to force only moves forward from where it is now; what *)
(* was stored stays, and everything the refs reach is stored.              *)
Push ==
  /\ asked' \in [touched : SUBSET Ref, forced : SUBSET Ref]
  /\ refs' \in [Ref -> Commit \cup {NoCommit}]
  /\ \A r \in Ref \ asked'.touched : refs'[r] = refs[r]
  /\ \A r \in asked'.touched \ asked'.forced :
        /\ refs'[r] \in Commit
        /\ refs[r] # NoCommit => refs[r] \in Anc[refs'[r]]
  /\ stored \subseteq stored'
  /\ Reach(Named(refs')) \subseteq stored'

(* A repack: no ref changes, and exactly what they reach is stored.        *)
Repack ==
  /\ asked' = [touched |-> {}, forced |-> {}]
  /\ UNCHANGED refs
  /\ stored' = Reach(Named(refs))

Next == Push \/ Repack

Spec == Init /\ [][Next]_abstractVars
=============================================================================
