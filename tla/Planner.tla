------------------------------- MODULE Planner -------------------------------
(***************************************************************************)
(* The audit planner, internal/model/model.go: Parse accepts a request that *)
(* describes a lease and an operation, BuildPlan says what the operation   *)
(* makes of the lease and in which steps.  The planner has no state and no *)
(* effects.  Whether its rules are sound shows when its plans are carried  *)
(* out, one after the other, late or twice: the executor of this module is *)
(* external, and carries out a plan if the lease is as the plan says.      *)
(***************************************************************************)
EXTENDS Naturals, FiniteSets

CONSTANTS MaxUint64,         \* the largest value of a uint64
          MaxRenewalCount,   \* model.MaxRenewalCount
          MaxPolicyCount,    \* model.MaxPolicyCount
          MinTTL, MaxTTL,    \* model.MinTTLSeconds, model.MaxTTLSeconds
          MinWrap, MaxWrap,  \* model.MinWrapTTL, model.MaxWrapTTL
          Assertion,         \* what a request has to assert
          Duration           \* bound: durations and counts in requests

ASSUME PlannerAssumption ==
  /\ MaxUint64 \in Nat /\ MaxRenewalCount \in Nat
  /\ 0 < MaxUint64 /\ 0 < MaxRenewalCount /\ MaxRenewalCount < MaxUint64
  /\ MaxPolicyCount \in Nat /\ MinTTL \in Nat /\ MaxTTL \in Nat
  /\ MinWrap \in Nat /\ MaxWrap \in Nat /\ Duration \subseteq Nat
  /\ 0 < MaxPolicyCount /\ 0 < MinTTL
  /\ MinWrap <= MinTTL /\ MinTTL <= MaxTTL /\ MinWrap <= MaxWrap
  /\ {1, MinTTL, MinWrap} \subseteq Duration

Uint64 == 0..MaxUint64

\* Addition as the machine does it.
Plus1(n) == IF n = MaxUint64 THEN 0 ELSE n + 1

State == {"absent", "active", "revoked"}
Operation == {"issue", "renew", "rotate", "revoke"}

\* What a request says about the lease.
Lease == [state : State, generation : Uint64, renewals : Uint64]

\* The terms it asks for; span is expiresAt - notBefore.
Terms == [policies : Duration, ttl : Duration, wrap : Duration,
          span : Duration, renewable : BOOLEAN]

VARIABLES lease,       \* the lease, as the executor knows it
          outstanding, \* tokens of the lease created and not revoked
          applied      \* history: operations carried out and on which lease

vars == <<lease, outstanding, applied>>

TypeOK == /\ lease \in Lease
          /\ lease.renewals <= MaxRenewalCount
          /\ outstanding \in Nat
          /\ applied \subseteq [operation : Operation, lease : Lease]

Init == /\ lease = [state |-> "absent", generation |-> 0, renewals |-> 0]
        /\ outstanding = 0
        /\ applied = {}

-----------------------------------------------------------------------------
(* Parse. *)

\* A plausible bug: >= instead of >.
CountInRangeStrictly(l) == l.renewals < MaxRenewalCount

CountInRange(l) == l.renewals <= MaxRenewalCount

ParseLease(l, t) ==
  /\ t.policies \in 1..MaxPolicyCount
  /\ t.ttl \in MinTTL..MaxTTL
  /\ t.wrap \in MinWrap..MaxWrap
  /\ t.wrap <= t.ttl
  /\ CountInRange(l)
  /\ t.span > 0 /\ t.span = t.ttl

\* A plausible bug: a rotation may lead to any other generation.
MayRotateElsewhere(l, target) == target # l.generation

MayRotate(l, target) == /\ l.generation < MaxUint64
                        /\ target = Plus1(l.generation)

\* A plausible bug: one renewal too many.
MayRenewOffByOne(l, target) == target = l.generation

MayRenew(l, target) == /\ target = l.generation
                       /\ l.renewals < MaxRenewalCount

\* validTransition; expected and target are the generations of the request.
ValidTransition(op, l, expected, target, renewable) ==
  /\ expected = l.generation
  /\ op = "issue" => /\ l.state = "absent" /\ l.generation = 0
                     /\ target = 1 /\ l.renewals = 0
  /\ op # "issue" => l.state = "active" /\ l.generation > 0
  /\ op = "renew" => renewable /\ MayRenew(l, target)
  /\ op = "rotate" => MayRotate(l, target)
  /\ op = "revoke" => target = l.generation

\* Every assertion must be there and true.
ParseAssertions(asserted) == asserted = Assertion

\* The document is wellFormed if it is strict JSON with exactly the known keys,
\* values of the right types, and references that all differ.
Parse(wellFormed, asserted, op, l, expected, target, t) ==
  /\ wellFormed
  /\ ParseLease(l, t)
  /\ ParseAssertions(asserted)
  /\ ValidTransition(op, l, expected, target, t.renewable)

-----------------------------------------------------------------------------
(* BuildPlan. *)

TargetState(op) == IF op = "revoke" THEN "revoked" ELSE "active"

TargetRenewalCount(op, l) == IF op = "renew" THEN Plus1(l.renewals)
                             ELSE IF op = "revoke" THEN l.renewals ELSE 0

Transition(op, l, target) == [state |-> TargetState(op), generation |-> target,
                              renewals |-> TargetRenewalCount(op, l)]

\* A plausible bug: a rotation leaves the previous lease alone.
BlockedStepsKeeping(op) ==
  CASE op = "issue" -> {"create-scoped-lease", "wrap-token-material"}
    [] op = "renew" -> {"renew-lease"}
    [] op = "rotate" -> {"create-replacement-lease", "switch-lease-atomically",
                         "wrap-token-material"}
    [] op = "revoke" -> {"revoke-lease"}

\* The steps of an operation, without the ones that all operations share.
BlockedSteps(op) ==
  CASE op = "issue" -> {"create-scoped-lease", "wrap-token-material"}
    [] op = "renew" -> {"renew-lease"}
    [] op = "rotate" -> {"create-replacement-lease", "revoke-previous-lease",
                         "switch-lease-atomically", "wrap-token-material"}
    [] op = "revoke" -> {"revoke-lease"}

Creating == {"create-scoped-lease", "create-replacement-lease"}
Revoking == {"revoke-lease", "revoke-previous-lease"}

-----------------------------------------------------------------------------
(* The executor. *)

\* A plan for the lease as it is, is carried out.  A plan that was made for
\* another state of the lease, or has been carried out already, is accepted
\* only if the lease has come to look the same again.
Execute(wellFormed, asserted, op, expected, target, t) ==
  /\ Parse(wellFormed, asserted, op, lease, expected, target, t)
  /\ lease' = Transition(op, lease, target)
  /\ outstanding' = outstanding + Cardinality(BlockedSteps(op) \cap Creating)
                      - Cardinality(BlockedSteps(op) \cap Revoking)
  /\ applied' = applied \cup {[operation |-> op, lease |-> lease]}

Next == \E wellFormed \in BOOLEAN, asserted \in SUBSET Assertion,
           op \in Operation, expected \in Uint64, target \in Uint64,
           t \in Terms :
          Execute(wellFormed, asserted, op, expected, target, t)

Spec == Init /\ [][Next]_vars

-----------------------------------------------------------------------------
(* Properties. *)

\* A plan is carried out at most once, and no plan made before another was
\* carried out fits afterwards: generation, renewal count and state never
\* come back to what they were.
PlansApplyOnce == \A a \in applied : a.lease # lease

\* Carrying out the steps of the plans leaves one token while the lease is
\* active and none before and after.
TokensBalance == outstanding = IF lease.state = "active" THEN 1 ELSE 0

\* An active lease can be revoked, however often it was renewed and rotated:
\* what BuildPlan makes of a lease, Parse accepts again.
AlwaysRevocable ==
  lease.state = "active" =>
    \E t \in Terms : Parse(TRUE, Assertion, "revoke", lease, lease.generation,
                           lease.generation, t)
=============================================================================
