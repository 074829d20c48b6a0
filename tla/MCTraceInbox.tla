---------------------------- MODULE MCTraceInbox ----------------------------
(* TraceInbox on small instances. *)
EXTENDS TraceInbox, TLC

\* Keys, and digests, are interchangeable.
Symmetry == Permutations(Keys) \cup Permutations(Digests)
=============================================================================
