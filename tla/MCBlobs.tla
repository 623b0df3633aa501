------------------------------- MODULE MCBlobs -------------------------------
(* Instances of Blobs.tla for TLC.                                         *)
EXTENDS Blobs

CONSTANTS a, b

\* a pushes and repacks, b fetches.
PushAndFetch == (a :> {"push", "repack"}) @@ (b :> {"fetch"})
=============================================================================
