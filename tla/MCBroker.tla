------------------------------ MODULE MCBroker ------------------------------
(* Broker for TLC.  Handlers, hosts and nonces are interchangeable.         *)
EXTENDS Broker, TLC

Symmetry == Permutations(Handler) \cup Permutations(Host)
              \cup Permutations(Nonce)
=============================================================================
