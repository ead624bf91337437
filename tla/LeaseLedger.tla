----------------------------- MODULE LeaseLedger -----------------------------
(***************************************************************************)
(* What the bridge promises about the leases it hands out: for a host and  *)
(* a volume a lease is delivered only when none that was delivered before  *)
(* is still usable.  A lease ends by revocation or by expiry, and does not *)
(* come back.                                                              *)
(***************************************************************************)
CONSTANTS Key, Accessor

VARIABLES usable,   \* delivered leases that Vault still honours, per key
          spent     \* leases that have been delivered

vars == <<usable, spent>>

Init == /\ usable = [k \in Key |-> {}]
        /\ spent = {}

Deliver(k, a) == /\ usable[k] = {}
                 /\ a \notin spent
                 /\ usable' = [usable EXCEPT ![k] = {a}]
                 /\ spent' = spent \cup {a}

\* A lease whose token ended before the response was written.
DeliverEnded(a) == /\ a \notin spent
                   /\ spent' = spent \cup {a}
                   /\ UNCHANGED usable

End(k, a) == /\ a \in usable[k]
             /\ usable' = [usable EXCEPT ![k] = @ \ {a}]
             /\ UNCHANGED spent

Next == \/ \E k \in Key, a \in Accessor : Deliver(k, a) \/ End(k, a)
        \/ \E a \in Accessor : DeliverEnded(a)

Spec == Init /\ [][Next]_vars
=============================================================================
