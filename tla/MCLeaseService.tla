--------------------------- MODULE MCLeaseService ---------------------------
(* LeaseService for TLC.  Handlers, keys and accessors are interchangeable. *)
EXTENDS LeaseService, TLC

Symmetry == Permutations(Handler) \cup Permutations(Key)
              \cup Permutations(Accessor)
=============================================================================
