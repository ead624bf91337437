---------------------------- MODULE MCAdmission ----------------------------
(* Admission for TLC.  Handlers, hosts and nonces are interchangeable.      *)
EXTENDS Admission, TLC

Symmetry == Permutations(Handler) \cup Permutations(Host)
              \cup Permutations(Nonce)
=============================================================================
