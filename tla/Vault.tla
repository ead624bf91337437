-------------------------------- MODULE Vault --------------------------------
(***************************************************************************)
(* HashiCorp Vault as the bridge uses it through internal/broker/vault.go: *)
(* it creates tokens, names each by an accessor, and revokes a token by    *)
(* its accessor.  Vault itself is external to the repository.              *)
(*                                                                         *)
(* The client gives a call up when its timeout expires, when the request   *)
(* it serves is cancelled, or when the process stops.  Vault may then      *)
(* still serve the call, later or never: such a call is a late call.       *)
(***************************************************************************)
EXTENDS Naturals

CONSTANTS Key,          \* what a token is created for: a host and a volume
          Accessor,     \* token accessors
          None          \* the accessor has not been given out

VARIABLES live,         \* accessors of the tokens that Vault honours
          owner,        \* the key each accessor was created for
          lateCreate,   \* create calls given up by the client, per key
          lateRevoke    \* accessors whose revocation the client gave up

vaultVars == <<live, owner, lateCreate, lateRevoke>>

VaultTypeOK == /\ live \subseteq Accessor
               /\ owner \in [Accessor -> Key \cup {None}]
               /\ lateCreate \in [Key -> Nat]
               /\ lateRevoke \subseteq Accessor

VaultInit == /\ live = {}
             /\ owner = [a \in Accessor |-> None]
             /\ lateCreate = [k \in Key |-> 0]
             /\ lateRevoke = {}

\* A token is created under an accessor never used before.
Mint(k, a) == /\ owner[a] = None
              /\ owner' = [owner EXCEPT ![a] = k]
              /\ live' = live \cup {a}

\* A token is revoked.  For an accessor whose token is gone Vault answers 400,
\* "invalid accessor", which the client takes for success.
Kill(a) == live' = live \ {a}

\* The answers of the client's issue and revoke.
IssueAnswered(k, a) == Mint(k, a) /\ UNCHANGED <<lateCreate, lateRevoke>>

IssueGivenUp(k) == /\ lateCreate' = [lateCreate EXCEPT ![k] = @ + 1]
                   /\ UNCHANGED <<live, owner, lateRevoke>>

RevokeAnswered(a) == Kill(a) /\ UNCHANGED <<owner, lateCreate, lateRevoke>>

RevokeGivenUp(a) == /\ lateRevoke' = lateRevoke \cup {a}
                    /\ UNCHANGED <<live, owner, lateCreate>>

\* Vault serves a call nobody waits for any more.
ServeLateCreate(k, a) == /\ lateCreate[k] > 0
                         /\ lateCreate' = [lateCreate EXCEPT ![k] = @ - 1]
                         /\ Mint(k, a)
                         /\ UNCHANGED lateRevoke

ServeLateRevoke(a) == /\ a \in lateRevoke
                      /\ lateRevoke' = lateRevoke \ {a}
                      /\ Kill(a)
                      /\ UNCHANGED <<owner, lateCreate>>

\* The token's time to live runs out.
Expire(a) == /\ a \in live
             /\ Kill(a)
             /\ UNCHANGED <<owner, lateCreate, lateRevoke>>
=============================================================================
