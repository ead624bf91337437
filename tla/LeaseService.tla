---------------------------- MODULE LeaseService ----------------------------
(***************************************************************************)
(* The lease operations of internal/broker/server.go: handleIssue and      *)
(* handleRevoke from the moment a request has been admitted.  Handlers run *)
(* concurrently and take operationMu; inside it they call Vault and update *)
(* the lease state.  A handler is split at each of those calls, because    *)
(* each may fail and the process may stop before its result is used.       *)
(*                                                                         *)
(* Vault is module Vault.  The state store is used through its promise,    *)
(* module DurableMap, which module LeaseStore implements.                  *)
(***************************************************************************)
EXTENDS Vault, FiniteSets

CONSTANTS Handler,      \* request goroutines
          NoHandler,    \* nobody holds operationMu
          MaxFaults     \* bound on crashes, unanswered creates and failed
                        \* clean-ups

VARIABLES pc,           \* where each handler is
          op,           \* the operation it serves, "none" when idle
          key,          \* leaseStateKey of its request, None when idle
          acc,          \* the accessor it works on
          status,       \* the HTTP status of its last answer, 0 before it
          operationMu,  \* the holder of server.operationMu
          leases,       \* the lease state
          stable,       \* the lease state a power loss would bring back
          running,      \* the process is up
          delivered,    \* accessors of the leases sent with status 200
          faults        \* faults so far

handlerVars == <<pc, op, key, acc, status>>
storeVars == <<leases, stable, running>>
vars == <<vaultVars, handlerVars, operationMu, storeVars, delivered, faults>>

Store == INSTANCE DurableMap WITH map <- leases

ASSUME ServiceAssumption == /\ None \notin Accessor
                            /\ None \notin Key
                            /\ NoHandler \notin Handler
                            /\ MaxFaults \in Nat

Entry == Accessor \cup {None}
Critical == {"revoke", "issue", "encrypt", "set", "cleanup", "respond",
             "remove"}

TypeOK == /\ VaultTypeOK
          /\ pc \in [Handler -> {"idle", "waiting"} \cup Critical]
          /\ op \in [Handler -> {"none", "issue", "revoke"}]
          /\ key \in [Handler -> Key \cup {None}]
          /\ acc \in [Handler -> Entry]
          /\ status \in [Handler -> {0, 200, 204, 500, 502}]
          /\ operationMu \in Handler \cup {NoHandler}
          /\ leases \in [Key -> Entry]
          /\ stable \in [Key -> Entry]
          /\ running \in BOOLEAN
          /\ delivered \subseteq Accessor
          /\ faults \in 0..MaxFaults

Init == /\ VaultInit
        /\ Store!Init
        /\ pc = [h \in Handler |-> "idle"]
        /\ op = [h \in Handler |-> "none"]
        /\ key = [h \in Handler |-> None]
        /\ acc = [h \in Handler |-> None]
        /\ status = [h \in Handler |-> 0]
        /\ operationMu = NoHandler
        /\ delivered = {}
        /\ faults = 0

-----------------------------------------------------------------------------
(* Steps that several operations share. *)

Goto(h, where) == pc' = [pc EXCEPT ![h] = where]

\* The handler answers and returns; the deferred Unlock runs.
Answer(h, code) == /\ Goto(h, "idle")
                   /\ status' = [status EXCEPT ![h] = code]
                   /\ op' = [op EXCEPT ![h] = "none"]
                   /\ key' = [key EXCEPT ![h] = None]
                   /\ acc' = [acc EXCEPT ![h] = None]
                   /\ operationMu' = NoHandler

\* The handler goes on to its next call with the accessor it has.
Proceed(h, where) == /\ Goto(h, where)
                     /\ UNCHANGED <<op, key, acc, status, operationMu>>

CountFault == faults < MaxFaults /\ faults' = faults + 1

\* A request that the admission checks have accepted.
Admit(h, o, k) ==
  /\ running /\ pc[h] = "idle"
  /\ Goto(h, "waiting")
  /\ op' = [op EXCEPT ![h] = o]
  /\ key' = [key EXCEPT ![h] = k]
  /\ status' = [status EXCEPT ![h] = 0]
  /\ UNCHANGED <<vaultVars, acc, operationMu, storeVars, delivered, faults>>

\* A plausible bug: the operations are not serialized.
MayEnterAlways(h) == running /\ pc[h] = "waiting"

MayEnter(h) == running /\ pc[h] = "waiting" /\ operationMu = NoHandler

\* operationMu.Lock and, under it, the lookup of the recorded accessor.
Enter(h, where) ==
  /\ operationMu' = h
  /\ Goto(h, where)
  /\ acc' = [acc EXCEPT ![h] = leases[key[h]]]
  /\ UNCHANGED <<vaultVars, op, key, status, storeVars, delivered, faults>>

\* A plausible bug: the recorded accessor is not compared with "".
EnterWithPreviousUnchecked(h) == /\ MayEnter(h)
                                 /\ Enter(h, "revoke")

\* Both operations first revoke the accessor that is on record.
EnterWithPrevious(h) == /\ MayEnter(h)
                        /\ leases[key[h]] # None
                        /\ Enter(h, "revoke")

IssueWithoutPrevious(h) == /\ MayEnter(h)
                           /\ op[h] = "issue" /\ leases[key[h]] = None
                           /\ Enter(h, "issue")

RevokeNothing(h) == /\ MayEnter(h)
                    /\ op[h] = "revoke" /\ leases[key[h]] = None
                    /\ Answer(h, 204)
                    /\ UNCHANGED <<vaultVars, storeVars, delivered, faults>>

\* A plausible bug: the entry is dropped and the token left to expire.
RevokePreviousSkipped(h) ==
  /\ pc[h] = "revoke"
  /\ Proceed(h, IF op[h] = "issue" THEN "issue" ELSE "remove")
  /\ UNCHANGED <<vaultVars, storeVars, delivered, faults>>

\* vault.revoke returns nil.
RevokePrevious(h) ==
  /\ pc[h] = "revoke"
  /\ RevokeAnswered(acc[h])
  /\ Proceed(h, IF op[h] = "issue" THEN "issue" ELSE "remove")
  /\ UNCHANGED <<storeVars, delivered, faults>>

\* A plausible bug: the error of vault.revoke is ignored.
RevokePreviousFailsIgnored(h) ==
  /\ pc[h] = "revoke"
  /\ RevokeGivenUp(acc[h])
  /\ Proceed(h, IF op[h] = "issue" THEN "issue" ELSE "remove")
  /\ UNCHANGED <<storeVars, delivered, faults>>

\* A plausible bug: the handler tries again for as long as it takes.
RevokePreviousFailsRetried(h) ==
  /\ pc[h] = "revoke"
  /\ RevokeGivenUp(acc[h])
  /\ Goto(h, "waiting")
  /\ operationMu' = NoHandler
  /\ UNCHANGED <<op, key, acc, status, storeVars, delivered, faults>>

\* vault.revoke returns an error; Vault may or may not have served the call.
RevokePreviousFails(h) ==
  /\ pc[h] = "revoke"
  /\ RevokeGivenUp(acc[h])
  /\ Answer(h, 502)
  /\ UNCHANGED <<storeVars, delivered, faults>>

-----------------------------------------------------------------------------
(* handleIssue: create a token, encrypt it, record its accessor, send it. *)

Issue(h, a) ==
  /\ pc[h] = "issue"
  /\ IssueAnswered(key[h], a)
  /\ acc' = [acc EXCEPT ![h] = a]
  /\ Goto(h, "encrypt")
  /\ UNCHANGED <<op, key, status, operationMu, storeVars, delivered, faults>>

\* Vault refuses: no token is created.
IssueRejected(h) ==
  /\ pc[h] = "issue"
  /\ Answer(h, 502)
  /\ UNCHANGED <<vaultVars, storeVars, delivered, faults>>

\* No usable answer: a token may have been created, or may yet be.
IssueFails(h) ==
  /\ pc[h] = "issue"
  /\ IssueGivenUp(key[h])
  /\ Answer(h, 502)
  /\ CountFault
  /\ UNCHANGED <<storeVars, delivered>>

\* A plausible bug: the record is sent before its accessor is stored.
EncryptUnrecorded(h) ==
  /\ pc[h] = "encrypt"
  /\ Proceed(h, "respond")
  /\ UNCHANGED <<vaultVars, storeVars, delivered, faults>>

Encrypt(h) ==
  /\ pc[h] = "encrypt"
  /\ Proceed(h, "set")
  /\ UNCHANGED <<vaultVars, storeVars, delivered, faults>>

EncryptFails(h) ==
  /\ pc[h] = "encrypt"
  /\ Proceed(h, "cleanup")
  /\ UNCHANGED <<vaultVars, storeVars, delivered, faults>>

SetState(h) ==
  /\ pc[h] = "set"
  /\ Store!Put(key[h], acc[h])
  /\ Proceed(h, "respond")
  /\ UNCHANGED <<vaultVars, delivered, faults>>

\* A plausible bug: the new token is not revoked.
SetStateFailsUncleaned(h) ==
  /\ pc[h] = "set"
  /\ Answer(h, 500)
  /\ UNCHANGED <<vaultVars, storeVars, delivered, faults>>

SetStateFails(h) ==
  /\ pc[h] = "set"
  /\ Proceed(h, "cleanup")
  /\ UNCHANGED <<vaultVars, storeVars, delivered, faults>>

\* The new token is revoked with a context of its own; errors are ignored.
CleanUp(h) ==
  /\ pc[h] = "cleanup"
  /\ RevokeAnswered(acc[h])
  /\ Answer(h, 500)
  /\ UNCHANGED <<storeVars, delivered, faults>>

CleanUpFails(h) ==
  /\ pc[h] = "cleanup"
  /\ RevokeGivenUp(acc[h])
  /\ Answer(h, 500)
  /\ CountFault
  /\ UNCHANGED <<storeVars, delivered>>

Respond(h) ==
  /\ pc[h] = "respond"
  /\ delivered' = delivered \cup {acc[h]}
  /\ Answer(h, 200)
  /\ UNCHANGED <<vaultVars, storeVars, faults>>

\* The response does not reach the host; writeJSON ignores the error.
RespondLost(h) ==
  /\ pc[h] = "respond"
  /\ Answer(h, 200)
  /\ UNCHANGED <<vaultVars, storeVars, delivered, faults>>

-----------------------------------------------------------------------------
(* handleRevoke: forget the accessor that has been revoked. *)

RemoveState(h) ==
  /\ pc[h] = "remove"
  /\ Store!Delete(key[h])
  /\ Answer(h, 204)
  /\ UNCHANGED <<vaultVars, delivered, faults>>

RemoveStateFails(h) ==
  /\ pc[h] = "remove"
  /\ Answer(h, 500)
  /\ UNCHANGED <<vaultVars, storeVars, delivered, faults>>

-----------------------------------------------------------------------------
(* The process stops and starts. *)

\* The call to Vault that is under way, if there is one, becomes a late call.
GiveUpCalls ==
  /\ lateCreate' = [k \in Key |->
       lateCreate[k] + IF \E h \in Handler : pc[h] = "issue" /\ key[h] = k
                       THEN 1 ELSE 0]
  /\ lateRevoke' = lateRevoke \cup
       {acc[h] : h \in {g \in Handler : pc[g] \in {"revoke", "cleanup"}}}
  /\ UNCHANGED <<live, owner>>

AllHandlersGone ==
  /\ pc' = [h \in Handler |-> "idle"]
  /\ op' = [h \in Handler |-> "none"]
  /\ key' = [h \in Handler |-> None]
  /\ acc' = [h \in Handler |-> None]
  /\ status' = [h \in Handler |-> 0]
  /\ operationMu' = NoHandler

Crash == /\ GiveUpCalls
         /\ AllHandlersGone
         /\ Store!Crash
         /\ CountFault
         /\ UNCHANGED delivered

Restart == /\ Store!Recover
           /\ UNCHANGED <<vaultVars, handlerVars, operationMu, delivered,
                          faults>>

PowerLoss == /\ GiveUpCalls
             /\ AllHandlersGone
             /\ Store!PowerLoss
             /\ CountFault
             /\ UNCHANGED delivered

Settle == /\ Store!Settle
          /\ UNCHANGED <<vaultVars, handlerVars, operationMu, delivered,
                         faults>>

\* What Vault does on its own.
VaultStep == /\ \/ \E k \in Key, a \in Accessor : ServeLateCreate(k, a)
                \/ \E a \in Accessor : ServeLateRevoke(a) \/ Expire(a)
             /\ UNCHANGED <<handlerVars, operationMu, storeVars, delivered,
                            faults>>

LockStep(h) == EnterWithPrevious(h) \/ IssueWithoutPrevious(h)
               \/ RevokeNothing(h)

CriticalStep(h) ==
  \/ RevokePrevious(h) \/ RevokePreviousFails(h)
  \/ (\E a \in Accessor : Issue(h, a)) \/ IssueRejected(h) \/ IssueFails(h)
  \/ Encrypt(h) \/ EncryptFails(h) \/ SetState(h) \/ SetStateFails(h)
  \/ CleanUp(h) \/ CleanUpFails(h) \/ Respond(h) \/ RespondLost(h)
  \/ RemoveState(h) \/ RemoveStateFails(h)

Next == \/ \E h \in Handler : LockStep(h) \/ CriticalStep(h)
        \/ \E h \in Handler, o \in {"issue", "revoke"}, k \in Key :
             Admit(h, o, k)
        \/ VaultStep \/ Crash \/ Restart

Spec == Init /\ [][Next]_vars

\* Calls to Vault end by their timeout, file system calls return, and a
\* sync.Mutex does not starve a waiter for ever.
Fairness == \A h \in Handler : WF_vars(CriticalStep(h)) /\ SF_vars(LockStep(h))

FairSpec == Spec /\ Fairness

\* The same system on a machine that may lose power.
PowerLossSpec == Init /\ [][Next \/ PowerLoss \/ Settle]_vars

-----------------------------------------------------------------------------
(* Properties. *)

\* The delivered leases of a key that Vault still honours.
Usable(k) == {a \in delivered \cap live : owner[a] = k}

\* A lease that a host holds and Vault honours is the one on record for its
\* host and volume, so that a revocation or a replacement finds it, whatever
\* failed and whenever the process stopped in between.
UsableLeaseIsRecorded == \A k \in Key : Usable(k) \subseteq {leases[k]}

\* "A replacement request revokes the previous accessor before creating
\* another lease" (README.md:72): when handleIssue calls vault.issue, the host
\* has no usable lease for the volume, although earlier requests may have
\* failed half way and left any entry on record.
NoUsableLeaseAtCreate ==
  \A h \in Handler : pc[h] = "issue" => Usable(key[h]) = {}

\* A 204 of handleRevoke means that no lease of that host and volume is usable
\* any more, also when the handler found nothing on record and called nobody.
RevokedMeansUnusable ==
  [][\A h \in Handler, k \in Key :
       key[h] = k /\ status[h] # 204 /\ status'[h] = 204
         => Usable(k)' = {}]_vars

\* Tokens that nobody can revoke through the bridge: live, not on record, and
\* not in the hands of a handler that will record or revoke them.
Orphans == {a \in live : /\ leases[owner[a]] # a
                         /\ \A h \in Handler : acc[h] # a}

\* The creates without an answer that Vault may still serve.
PendingCreates == {p \in Key \X (1..MaxFaults) : p[2] <= lateCreate[p[1]]}

\* Each token that escapes the record is due to one create without an answer,
\* one clean-up that Vault did not confirm, or one crash: errors of encryption
\* or of the state file alone never leave a token behind.
OrphansHaveCauses ==
  Cardinality(Orphans) + Cardinality(PendingCreates) <= faults

\* Every admitted request is answered, or its process stops.
EveryRequestAnswered ==
  \A h \in Handler : pc[h] = "waiting" ~> pc[h] = "idle"

\* The service implements the ledger: leases of one host and volume are never
\* usable at the same time, and no lease is delivered twice.
Ledger == INSTANCE LeaseLedger WITH usable <- [k \in Key |-> Usable(k)],
                                    spent <- delivered
ImplementsLedger == Ledger!Spec
=============================================================================
