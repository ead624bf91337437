---------------------------- MODULE PlannerProofs ----------------------------
(***************************************************************************)
(* Proofs about Planner, for every value of its constants.                 *)
(***************************************************************************)
EXTENDS Planner, TLAPS, FiniteSetTheorems

USE PlannerAssumption

\* The order in which a lease goes through its states.
Before(x, y) ==
  \/ x.generation < y.generation
  \/ x.generation = y.generation /\ x.renewals < y.renewals
  \/ /\ x.generation = y.generation /\ x.renewals = y.renewals
     /\ x.state = "active" /\ y.state = "revoked"

\* Only an absent lease has generation 0.
GenerationInv == lease.state = "absent" <=> lease.generation = 0

\* Every lease that an operation was carried out on lies behind.
PastInv == \A a \in applied : Before(a.lease, lease)

IInv == TypeOK /\ GenerationInv /\ PastInv /\ TokensBalance

-----------------------------------------------------------------------------
(* What the planner's operators return. *)

\* A transition goes forward, and to a lease whose numbers are in range.
LEMMA TransitionGoesOn ==
  ASSUME NEW op \in Operation, NEW l \in Lease, NEW expected \in Uint64,
         NEW target \in Uint64, NEW renewable,
         l.renewals <= MaxRenewalCount,
         ValidTransition(op, l, expected, target, renewable)
  PROVE  LET next == Transition(op, l, target) IN
         /\ next \in Lease
         /\ next.renewals <= MaxRenewalCount
         /\ next.generation > 0 /\ next.state # "absent"
         /\ Before(l, next)
  <1> DEFINE next == Transition(op, l, target)
  <1>1. /\ next.state = TargetState(op) /\ next.generation = target
        /\ next.renewals = TargetRenewalCount(op, l)
    BY DEF Transition
  <1>2. CASE op = "issue"
    BY <1>1, <1>2 DEF ValidTransition, Transition, TargetState,
                      TargetRenewalCount, Lease, State, Uint64, Before
  <1>3. CASE op = "renew"
    BY <1>1, <1>3 DEF ValidTransition, MayRenew, Transition, TargetState,
                      TargetRenewalCount, Plus1, Lease, State, Uint64, Before
  <1>4. CASE op = "rotate"
    BY <1>1, <1>4 DEF ValidTransition, MayRotate, Transition, TargetState,
                      TargetRenewalCount, Plus1, Lease, State, Uint64, Before
  <1>5. CASE op = "revoke"
    BY <1>1, <1>5 DEF ValidTransition, Transition, TargetState,
                      TargetRenewalCount, Lease, State, Uint64, Before
  <1> QED BY <1>2, <1>3, <1>4, <1>5 DEF Operation

\* The order is transitive and irreflexive.
LEMMA BeforeTransitive ==
  ASSUME NEW x \in Lease, NEW y \in Lease, NEW z \in Lease,
         Before(x, y), Before(y, z)
  PROVE  Before(x, z)
  BY DEF Before, Lease, Uint64

LEMMA BeforeIrreflexive ==
  ASSUME NEW x \in Lease PROVE ~Before(x, x)
  BY DEF Before, Lease, Uint64

\* How many tokens the steps of an operation create and revoke.
LEMMA StepCounts ==
  ASSUME NEW op \in Operation
  PROVE  /\ Cardinality(BlockedSteps(op) \cap Creating) =
              IF op \in {"issue", "rotate"} THEN 1 ELSE 0
         /\ Cardinality(BlockedSteps(op) \cap Revoking) =
              IF op \in {"rotate", "revoke"} THEN 1 ELSE 0
  <1>1. CASE op = "issue"
    <2>1. /\ BlockedSteps(op) \cap Creating = {"create-scoped-lease"}
          /\ BlockedSteps(op) \cap Revoking = {}
      BY <1>1 DEF BlockedSteps, Creating, Revoking
    <2> QED BY <1>1, <2>1, FS_Singleton, FS_EmptySet
  <1>2. CASE op = "renew"
    <2>1. /\ BlockedSteps(op) \cap Creating = {}
          /\ BlockedSteps(op) \cap Revoking = {}
      BY <1>2 DEF BlockedSteps, Creating, Revoking
    <2> QED BY <1>2, <2>1, FS_EmptySet
  <1>3. CASE op = "rotate"
    <2>1. /\ BlockedSteps(op) \cap Creating = {"create-replacement-lease"}
          /\ BlockedSteps(op) \cap Revoking = {"revoke-previous-lease"}
      BY <1>3 DEF BlockedSteps, Creating, Revoking
    <2> QED BY <1>3, <2>1, FS_Singleton
  <1>4. CASE op = "revoke"
    <2>1. /\ BlockedSteps(op) \cap Creating = {}
          /\ BlockedSteps(op) \cap Revoking = {"revoke-lease"}
      BY <1>4 DEF BlockedSteps, Creating, Revoking
    <2> QED BY <1>4, <2>1, FS_Singleton, FS_EmptySet
  <1> QED BY <1>1, <1>2, <1>3, <1>4 DEF Operation

-----------------------------------------------------------------------------
(* The invariant. *)

LEMMA ExecuteInv ==
  ASSUME IInv, NEW wellFormed \in BOOLEAN,
         NEW asserted \in SUBSET Assertion, NEW op \in Operation,
         NEW expected \in Uint64, NEW target \in Uint64, NEW t \in Terms,
         Execute(wellFormed, asserted, op, expected, target, t)
  PROVE  IInv'
  <1>1. /\ ValidTransition(op, lease, expected, target, t.renewable)
        /\ lease' = Transition(op, lease, target)
        /\ applied' = applied \cup {[operation |-> op, lease |-> lease]}
    BY DEF Execute, Parse
  <1>2. /\ lease \in Lease /\ lease.renewals <= MaxRenewalCount
        /\ outstanding \in Nat
        /\ applied \subseteq [operation : Operation, lease : Lease]
    BY DEF IInv, TypeOK
  <1>3. /\ lease' \in Lease /\ lease'.renewals <= MaxRenewalCount
        /\ lease'.generation > 0 /\ lease'.state # "absent"
        /\ Before(lease, lease')
    BY <1>1, <1>2, TransitionGoesOn
  <1>4. outstanding' = IF lease'.state = "active" THEN 1 ELSE 0
    <2>1. /\ outstanding = IF op = "issue" THEN 0 ELSE 1
          /\ lease'.state = IF op = "revoke" THEN "revoked" ELSE "active"
      BY <1>1 DEF IInv, TokensBalance, ValidTransition, Transition, TargetState
    <2> DEFINE created == Cardinality(BlockedSteps(op) \cap Creating)
               revoked == Cardinality(BlockedSteps(op) \cap Revoking)
    <2>2. /\ created = IF op \in {"issue", "rotate"} THEN 1 ELSE 0
          /\ revoked = IF op \in {"rotate", "revoke"} THEN 1 ELSE 0
      BY StepCounts
    <2>3. outstanding' = outstanding + created - revoked
      BY DEF Execute
    <2> HIDE DEF created, revoked
    <2> QED BY <2>1, <2>2, <2>3 DEF Operation
  <1>5. TypeOK'
    BY <1>1, <1>2, <1>3, <1>4 DEF TypeOK
  <1>6. GenerationInv'
    BY <1>3 DEF GenerationInv
  <1>7. PastInv'
    BY <1>1, <1>2, <1>3, BeforeTransitive DEF IInv, PastInv
  <1> QED BY <1>4, <1>5, <1>6, <1>7 DEF IInv, TokensBalance

THEOREM Inductive == Spec => []IInv
  <1>1. Init => IInv
    BY DEF Init, IInv, TypeOK, GenerationInv, PastInv, TokensBalance, Lease,
           State, Uint64
  <1>2. IInv /\ [Next]_vars => IInv'
    <2> SUFFICES ASSUME IInv, [Next]_vars PROVE IInv'
      OBVIOUS
    <2>1. CASE Next
      BY <2>1, ExecuteInv DEF Next
    <2>2. CASE UNCHANGED vars
      BY <2>2 DEF IInv, TypeOK, GenerationInv, PastInv, TokensBalance, vars
    <2> QED BY <2>1, <2>2
  <1> QED BY <1>1, <1>2, PTL DEF Spec

-----------------------------------------------------------------------------
(* The theorems. *)

\* Generations and renewal counts stay in range for every plan that Parse
\* accepts.
THEOREM TypeCorrect == Spec => []TypeOK
  <1>1. IInv => TypeOK
    BY DEF IInv
  <1> QED BY <1>1, Inductive, PTL

\* The rules of validTransition let no plan be carried out twice, or late.
THEOREM EveryPlanAppliesOnce == Spec => []PlansApplyOnce
  <1>1. IInv => PlansApplyOnce
    BY BeforeIrreflexive DEF IInv, TypeOK, PastInv, PlansApplyOnce
  <1> QED BY <1>1, Inductive, PTL

\* The steps that blockedSteps lists create and revoke tokens in pairs.
THEOREM StepsBalance == Spec => []TokensBalance
  <1>1. IInv => TokensBalance
    BY DEF IInv
  <1> QED BY <1>1, Inductive, PTL

\* Parse accepts the revocation of every active lease.
THEOREM ActiveLeaseIsRevocable == Spec => []AlwaysRevocable
  <1>1. IInv => AlwaysRevocable
    <2> SUFFICES ASSUME IInv, lease.state = "active"
                 PROVE  \E t \in Terms :
                          Parse(TRUE, Assertion, "revoke", lease,
                                lease.generation, lease.generation, t)
      BY DEF AlwaysRevocable
    <2> DEFINE t == [policies |-> 1, ttl |-> MinTTL, wrap |-> MinWrap,
                     span |-> MinTTL, renewable |-> FALSE]
    <2>1. t \in Terms
      BY DEF Terms
    <2>2. lease.generation > 0
      BY DEF IInv, TypeOK, GenerationInv, Lease, Uint64
    <2>3. ValidTransition("revoke", lease, lease.generation, lease.generation,
                          t.renewable)
      BY <2>2 DEF ValidTransition
    <2>4. ParseLease(lease, t)
      BY DEF IInv, TypeOK, ParseLease, CountInRange
    <2>5. Parse(TRUE, Assertion, "revoke", lease, lease.generation,
                lease.generation, t)
      BY <2>3, <2>4 DEF Parse, ParseAssertions
    <2> QED BY <2>1, <2>5
  <1> QED BY <1>1, Inductive, PTL
=============================================================================
