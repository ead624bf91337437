------------------------- MODULE LeaseServiceProofs -------------------------
(***************************************************************************)
(* The lease operations keep every usable lease on record and hand out one *)
(* lease at a time per host and volume, for every number of handlers, keys *)
(* and tokens, and for every pattern of failing calls, late calls, crashes *)
(* and restarts; and they leave a token behind only with a cause.          *)
(***************************************************************************)
EXTENDS LeaseService, FiniteSetTheorems, TLAPS

USE ServiceAssumption

\* A handler at work has a request.
HandlersHaveRequests ==
  \A h \in Handler : pc[h] # "idle" => key[h] \in Key

\* A handler between Lock and Unlock is the holder of operationMu.
MutualExclusion == \A h \in Handler : pc[h] \in Critical => operationMu = h

\* What a handler has established when it comes to its next call.
Established(h) ==
  /\ pc[h] \in {"revoke", "encrypt", "set", "cleanup", "respond"} =>
       acc[h] \in Accessor
  /\ pc[h] \in {"revoke", "respond"} => leases[key[h]] = acc[h]
  /\ pc[h] \in {"issue", "encrypt", "set", "remove"} => Usable(key[h]) = {}
  /\ pc[h] \in {"encrypt", "set", "respond"} =>
       owner[acc[h]] = key[h] /\ acc[h] \notin delivered

\* A delivered lease is a token that Vault has created.
DeliveredAreMinted == \A a \in delivered : owner[a] # None

IInv == /\ TypeOK
        /\ HandlersHaveRequests
        /\ MutualExclusion
        /\ \A h \in Handler : Established(h)
        /\ DeliveredAreMinted
        /\ UsableLeaseIsRecorded

-----------------------------------------------------------------------------
(* What a step may do to the tokens that matter. *)

\* Delivered tokens keep their owner and do not come back to life.
Quiet == /\ delivered' = delivered
         /\ \A a \in delivered : owner'[a] = owner[a]
         /\ \A a \in delivered : a \in live' => a \in live

\* Without a delivery, the usable leases become fewer at most.
LEMMA UsableShrinks ==
  ASSUME Quiet PROVE \A k \in Key : Usable(k)' \subseteq Usable(k)
  BY DEF Quiet, Usable

\* A new token is not a delivered one, and no owner changes.
LEMMA MintIsQuiet ==
  ASSUME TypeOK, DeliveredAreMinted, delivered' = delivered,
         NEW k \in Key, NEW a \in Accessor, Mint(k, a)
  PROVE  /\ Quiet
         /\ owner' \in [Accessor -> Key \cup {None}]
         /\ live' \subseteq Accessor
         /\ \A b \in Accessor : owner[b] # None => owner'[b] = owner[b]
         /\ owner'[a] = k /\ a \notin delivered
<1>1. /\ owner \in [Accessor -> Key \cup {None}] /\ live \subseteq Accessor
      /\ delivered \subseteq Accessor
  BY DEF TypeOK, VaultTypeOK
<1>2. owner[a] = None /\ owner' = [owner EXCEPT ![a] = k] /\ live' = live \cup {a}
  BY DEF Mint
<1>3. a \notin delivered
  BY <1>2 DEF DeliveredAreMinted
<1>4. QED
  BY <1>1, <1>2, <1>3 DEF Quiet

\* A lease that ends is taken away, no more.
LEMMA KillIsQuiet ==
  ASSUME delivered' = delivered, owner' = owner, NEW a, Kill(a) PROVE Quiet
  BY DEF Kill, Quiet

\* The holder of operationMu is alone in the critical section.
LEMMA OthersOutside ==
  ASSUME IInv, NEW h \in Handler, pc[h] \in Critical,
         NEW g \in Handler, g # h
  PROVE  pc[g] \notin Critical
  BY DEF IInv, MutualExclusion

\* Nothing is claimed about a handler outside the critical section.
LEMMA OutsideEstablished ==
  ASSUME NEW h \in Handler, pc'[h] \notin Critical PROVE Established(h)'
  BY DEF Established, Critical

\* An answer gives the handler's variables values of their types.
LEMMA AnswerStep ==
  ASSUME IInv, NEW h \in Handler, NEW code \in {0, 200, 204, 500, 502},
         Answer(h, code), pc[h] \in Critical \/ operationMu = NoHandler
  PROVE  /\ pc' \in [Handler -> {"idle", "waiting"} \cup Critical]
         /\ op' \in [Handler -> {"none", "issue", "revoke"}]
         /\ key' \in [Handler -> Key \cup {None}]
         /\ acc' \in [Handler -> Entry]
         /\ status' \in [Handler -> {0, 200, 204, 500, 502}]
         /\ operationMu' \in Handler \cup {NoHandler}
         /\ HandlersHaveRequests'
         /\ MutualExclusion'
         /\ \A g \in Handler : Established(g)'
<1>1. /\ pc' = [pc EXCEPT ![h] = "idle"]
      /\ status' = [status EXCEPT ![h] = code]
      /\ op' = [op EXCEPT ![h] = "none"]
      /\ key' = [key EXCEPT ![h] = None]
      /\ acc' = [acc EXCEPT ![h] = None]
      /\ operationMu' = NoHandler
  BY DEF Answer, Goto
<1>2. \A g \in Handler : pc'[g] \notin Critical
  <2> SUFFICES ASSUME NEW g \in Handler PROVE pc'[g] \notin Critical
    OBVIOUS
  <2>1. CASE g = h
    BY <1>1, <2>1 DEF IInv, TypeOK, Critical
  <2>2. CASE g # h
    <3>1. pc'[g] = pc[g]
      BY <1>1, <2>2 DEF IInv, TypeOK
    <3>2. pc[g] \notin Critical
      BY <2>2, OthersOutside DEF IInv, MutualExclusion
    <3>3. QED
      BY <3>1, <3>2
  <2>3. QED
    BY <2>1, <2>2
<1>3. HandlersHaveRequests'
  BY <1>1 DEF IInv, TypeOK, HandlersHaveRequests
<1>4. QED
  BY <1>1, <1>2, <1>3, OutsideEstablished
     DEF IInv, TypeOK, Entry, MutualExclusion

\* A handler that goes on keeps operationMu, and the others stay outside.
LEMMA ProceedStep ==
  ASSUME IInv, NEW h \in Handler, NEW where \in Critical,
         pc[h] \in Critical, Goto(h, where),
         UNCHANGED <<op, key, status, operationMu>>,
         acc' \in [Handler -> Entry], Established(h)'
  PROVE  /\ pc' \in [Handler -> {"idle", "waiting"} \cup Critical]
         /\ HandlersHaveRequests'
         /\ MutualExclusion'
         /\ \A g \in Handler : Established(g)'
<1>1. pc' = [pc EXCEPT ![h] = where]
  BY DEF Goto
<1>2. pc' \in [Handler -> {"idle", "waiting"} \cup Critical]
  BY <1>1 DEF IInv, TypeOK
<1>3. HandlersHaveRequests'
  BY <1>1 DEF IInv, TypeOK, HandlersHaveRequests, Critical
<1>4. MutualExclusion'
  BY <1>1 DEF IInv, TypeOK, MutualExclusion
<1>5. ASSUME NEW g \in Handler PROVE Established(g)'
  <2>1. CASE g = h
    BY <2>1
  <2>2. CASE g # h
    <3>1. pc'[g] = pc[g]
      BY <1>1, <2>2 DEF IInv, TypeOK
    <3>2. QED
      BY <2>2, <3>1, OthersOutside, OutsideEstablished
  <2>3. QED
    BY <2>1, <2>2
<1>6. QED
  BY <1>2, <1>3, <1>4, <1>5

\* The record stays complete while it is not changed and nothing is delivered.
LEMMA RecordKept ==
  ASSUME IInv, Quiet, leases' = leases
  PROVE  UsableLeaseIsRecorded' /\ DeliveredAreMinted'
<1>1. UsableLeaseIsRecorded'
  BY UsableShrinks DEF IInv, UsableLeaseIsRecorded
<1>2. DeliveredAreMinted'
  BY DEF IInv, DeliveredAreMinted, Quiet
<1>3. QED
  BY <1>1, <1>2

-----------------------------------------------------------------------------
\* Nothing is at work and nothing is on record at the start.
LEMMA InitInv == Init => IInv
<1> SUFFICES ASSUME Init PROVE IInv
  OBVIOUS
<1> USE DEF Init, Store!Init, Store!EmptyMap, VaultInit
<1>1. TypeOK
  <2>1. VaultTypeOK
    BY DEF VaultTypeOK
  <2>2. /\ pc \in [Handler -> {"idle", "waiting"} \cup Critical]
        /\ op \in [Handler -> {"none", "issue", "revoke"}]
        /\ key \in [Handler -> Key \cup {None}]
        /\ acc \in [Handler -> Entry]
        /\ status \in [Handler -> {0, 200, 204, 500, 502}]
    BY DEF Entry
  <2>3. leases \in [Key -> Entry] /\ stable \in [Key -> Entry]
    BY DEF Entry
  <2>4. running \in BOOLEAN
    BY Zenon
  <2>5. QED
    BY <2>1, <2>2, <2>3, <2>4 DEF TypeOK
<1>2. HandlersHaveRequests /\ MutualExclusion /\ DeliveredAreMinted
  BY DEF HandlersHaveRequests, MutualExclusion, DeliveredAreMinted, Critical
<1>3. \A h \in Handler : Established(h)
  BY DEF Established
<1>4. UsableLeaseIsRecorded
  BY DEF UsableLeaseIsRecorded, Usable
<1>5. QED
  BY <1>1, <1>2, <1>3, <1>4 DEF IInv

\* An admission only makes a handler wait.
LEMMA AdmitInv ==
  ASSUME IInv, NEW h \in Handler, NEW o \in {"issue", "revoke"}, NEW k \in Key,
         Admit(h, o, k)
  PROVE  IInv'
<1>1. /\ pc[h] = "idle" /\ pc' = [pc EXCEPT ![h] = "waiting"]
      /\ op' = [op EXCEPT ![h] = o]
      /\ key' = [key EXCEPT ![h] = k]
      /\ status' = [status EXCEPT ![h] = 0]
      /\ UNCHANGED <<live, owner, lateCreate, lateRevoke, acc, operationMu,
                     leases, stable, running, delivered, faults>>
  BY DEF Admit, Goto, vaultVars, storeVars
<1>2. TypeOK'
  BY <1>1 DEF IInv, TypeOK, VaultTypeOK
<1>3. HandlersHaveRequests' /\ MutualExclusion'
  BY <1>1 DEF IInv, TypeOK, HandlersHaveRequests, MutualExclusion, Critical
<1>4. ASSUME NEW g \in Handler PROVE Established(g)'
  <2>1. CASE g = h
    BY <1>1, <2>1, OutsideEstablished DEF IInv, TypeOK, Critical
  <2>2. CASE g # h
    <3>1. pc'[g] = pc[g] /\ key'[g] = key[g]
      BY <1>1, <2>2 DEF IInv, TypeOK
    <3>2. QED
      BY <1>1, <3>1 DEF IInv, Established, Usable
  <2>3. QED
    BY <2>1, <2>2
<1>5. UsableLeaseIsRecorded' /\ DeliveredAreMinted'
  BY <1>1, RecordKept DEF Quiet
<1>6. QED
  BY <1>2, <1>3, <1>4, <1>5 DEF IInv

\* With nothing on record there is nothing usable.
LEMMA NothingRecorded ==
  ASSUME IInv, NEW k \in Key, leases[k] = None PROVE Usable(k) = {}
<1>1. Usable(k) \subseteq {None} /\ Usable(k) \subseteq Accessor
  BY DEF IInv, TypeOK, UsableLeaseIsRecorded, Usable
<1>2. QED
  BY <1>1

\* The lock goes to one handler, which goes by what is on record.
LEMMA LockInv == ASSUME IInv, NEW h \in Handler, LockStep(h) PROVE IInv'
<1>1. ASSUME NEW where \in {"revoke", "issue"}, MayEnter(h), Enter(h, where),
             where = "revoke" => leases[key[h]] # None,
             where = "issue" => leases[key[h]] = None
      PROVE  IInv'
  <2>1. /\ pc[h] = "waiting" /\ operationMu = NoHandler /\ operationMu' = h
        /\ pc' = [pc EXCEPT ![h] = where]
        /\ acc' = [acc EXCEPT ![h] = leases[key[h]]]
        /\ UNCHANGED <<live, owner, lateCreate, lateRevoke, op, key, status,
                       leases, stable, running, delivered, faults>>
    BY <1>1 DEF MayEnter, Enter, Goto, vaultVars, storeVars
  <2>2. key[h] \in Key /\ leases[key[h]] \in Entry
    BY <2>1 DEF IInv, TypeOK, HandlersHaveRequests
  <2>3. TypeOK'
    BY <1>1, <2>1, <2>2 DEF IInv, TypeOK, VaultTypeOK, Critical
  <2>4. HandlersHaveRequests'
    BY <2>1, <2>2 DEF IInv, TypeOK, HandlersHaveRequests
  <2>5. \A g \in Handler : g # h => pc'[g] = pc[g] /\ pc'[g] \notin Critical
    BY <2>1 DEF IInv, TypeOK, MutualExclusion
  <2>6. MutualExclusion'
    BY <2>1, <2>5 DEF MutualExclusion
  <2>7. Established(h)'
    <3>1. pc'[h] = where /\ acc'[h] = leases[key[h]]
      BY <2>1 DEF IInv, TypeOK
    <3>2. CASE where = "revoke"
      BY <1>1, <2>1, <2>2, <3>1, <3>2 DEF Established, Entry
    <3>3. CASE where = "issue"
      <4>1. Usable(key[h]) = {}
        BY <1>1, <2>2, <3>3, NothingRecorded
      <4>2. Usable(key[h])' = {}
        BY <2>1, <4>1 DEF Usable
      <4>3. QED
        BY <3>1, <3>3, <4>2 DEF Established
    <3>4. QED
      BY <1>1, <3>2, <3>3
  <2>8. \A g \in Handler : Established(g)'
    BY <2>5, <2>7, OutsideEstablished
  <2>9. UsableLeaseIsRecorded' /\ DeliveredAreMinted'
    BY <2>1, RecordKept DEF Quiet
  <2>10. QED
    BY <2>3, <2>4, <2>6, <2>8, <2>9 DEF IInv
<1>2. CASE EnterWithPrevious(h)
  BY <1>1, <1>2 DEF EnterWithPrevious
<1>3. CASE IssueWithoutPrevious(h)
  BY <1>1, <1>3 DEF IssueWithoutPrevious
<1>4. CASE RevokeNothing(h)
  <2>1. /\ Answer(h, 204) /\ operationMu = NoHandler
        /\ UNCHANGED <<live, owner, lateCreate, lateRevoke, leases, stable,
                       running, delivered, faults>>
    BY <1>4 DEF RevokeNothing, MayEnter, vaultVars, storeVars
  <2>2. TypeOK' /\ HandlersHaveRequests' /\ MutualExclusion'
        /\ \A g \in Handler : Established(g)'
    BY <2>1, AnswerStep DEF IInv, TypeOK, VaultTypeOK
  <2>3. UsableLeaseIsRecorded' /\ DeliveredAreMinted'
    BY <2>1, RecordKept DEF Quiet
  <2>4. QED
    BY <2>2, <2>3 DEF IInv
<1>5. QED
  BY <1>2, <1>3, <1>4 DEF LockStep

-----------------------------------------------------------------------------
(* The critical section, one lemma per group of calls. *)

\* A step that answers, with what it may have done to Vault and the record.
LEMMA AnsweredInv ==
  ASSUME IInv, NEW h \in Handler, NEW code \in {0, 200, 204, 500, 502},
         pc[h] \in Critical, Answer(h, code),
         VaultTypeOK', UNCHANGED <<stable, running>>, faults' \in 0..MaxFaults,
         leases' \in [Key -> Entry], delivered' \subseteq Accessor,
         UsableLeaseIsRecorded', DeliveredAreMinted'
  PROVE  IInv'
<1>1. TypeOK' /\ HandlersHaveRequests' /\ MutualExclusion'
      /\ \A g \in Handler : Established(g)'
  BY AnswerStep DEF IInv, TypeOK
<1>2. QED
  BY <1>1 DEF IInv

\* A step that goes on.
LEMMA ProceededInv ==
  ASSUME IInv, NEW h \in Handler, NEW where \in Critical, pc[h] \in Critical,
         Goto(h, where), UNCHANGED <<op, key, status, operationMu>>,
         acc' \in [Handler -> Entry], Established(h)',
         VaultTypeOK', UNCHANGED <<stable, running, delivered, faults>>,
         leases' \in [Key -> Entry],
         UsableLeaseIsRecorded', DeliveredAreMinted'
  PROVE  IInv'
<1>1. /\ pc' \in [Handler -> {"idle", "waiting"} \cup Critical]
      /\ HandlersHaveRequests' /\ MutualExclusion'
      /\ \A g \in Handler : Established(g)'
  BY ProceedStep
<1>2. TypeOK'
  BY <1>1 DEF IInv, TypeOK
<1>3. QED
  BY <1>1, <1>2 DEF IInv

\* The faults stay within their bound.
LEMMA CountFaultType ==
  ASSUME IInv, CountFault PROVE faults' \in 0..MaxFaults
  BY DEF IInv, TypeOK, CountFault

\* A confirmed revocation leaves nothing usable for the key.
LEMMA RevokePreviousInv ==
  ASSUME IInv, NEW h \in Handler, RevokePrevious(h) \/ RevokePreviousFails(h)
  PROVE  IInv'
<1>1. /\ pc[h] = "revoke" /\ pc[h] \in Critical /\ key[h] \in Key
      /\ acc[h] \in Accessor /\ leases[key[h]] = acc[h]
  BY DEF IInv, HandlersHaveRequests, Established, Critical, RevokePrevious,
         RevokePreviousFails
<1>2. CASE RevokePrevious(h)
  <2> DEFINE where == IF op[h] = "issue" THEN "issue" ELSE "remove"
  <2>1. /\ Kill(acc[h]) /\ live' = live \ {acc[h]}
        /\ UNCHANGED <<owner, lateCreate, lateRevoke, leases, stable, running,
                       delivered, faults, op, key, acc, status, operationMu>>
        /\ Goto(h, where)
    BY <1>2 DEF RevokePrevious, RevokeAnswered, Kill, Proceed, storeVars
  <2>2. where \in Critical /\ where \in {"issue", "remove"}
    BY DEF Critical
  <2>3. UsableLeaseIsRecorded' /\ DeliveredAreMinted'
    BY <2>1, RecordKept, KillIsQuiet
  <2>4. Usable(key[h])' = {}
    <3>1. Usable(key[h]) \subseteq {acc[h]}
      BY <1>1 DEF IInv, UsableLeaseIsRecorded
    <3>2. QED
      BY <2>1, <3>1 DEF Usable
  <2>5. Established(h)'
    <3>1. pc'[h] = where
      BY <2>1 DEF Goto, IInv, TypeOK
    <3>2. QED
      BY <2>2, <2>4, <3>1 DEF Established
  <2>6. VaultTypeOK' /\ acc' \in [Handler -> Entry] /\ leases' \in [Key -> Entry]
    BY <2>1 DEF IInv, TypeOK, VaultTypeOK
  <2> HIDE DEF where
  <2>7. QED
    BY <1>1, <2>1, <2>2, <2>3, <2>5, <2>6, ProceededInv
<1>3. CASE RevokePreviousFails(h)
  <2>1. /\ Answer(h, 502) /\ lateRevoke' = lateRevoke \cup {acc[h]}
        /\ UNCHANGED <<live, owner, lateCreate, leases, stable, running,
                       delivered, faults>>
    BY <1>3 DEF RevokePreviousFails, RevokeGivenUp, storeVars
  <2>2. UsableLeaseIsRecorded' /\ DeliveredAreMinted'
    BY <2>1, RecordKept DEF Quiet
  <2>3. /\ VaultTypeOK' /\ leases' \in [Key -> Entry]
        /\ delivered' \subseteq Accessor /\ faults' \in 0..MaxFaults
    BY <1>1, <2>1 DEF IInv, TypeOK, VaultTypeOK
  <2>4. QED
    BY <1>1, <2>1, <2>2, <2>3, AnsweredInv
<1>4. QED
  BY <1>2, <1>3

\* A new token has never been delivered, so it makes nothing usable yet.
LEMMA IssueInv ==
  ASSUME IInv, NEW h \in Handler,
         (\E a \in Accessor : Issue(h, a)) \/ IssueRejected(h) \/ IssueFails(h)
  PROVE  IInv'
<1>1. pc[h] = "issue" /\ pc[h] \in Critical /\ key[h] \in Key
  BY DEF IInv, HandlersHaveRequests, Critical, Issue, IssueRejected, IssueFails
<1>2. ASSUME NEW a \in Accessor, Issue(h, a) PROVE IInv'
  <2>1. /\ Mint(key[h], a) /\ acc' = [acc EXCEPT ![h] = a]
        /\ Goto(h, "encrypt")
        /\ UNCHANGED <<lateCreate, lateRevoke, leases, stable, running,
                       delivered, faults, op, key, status, operationMu>>
    BY <1>2 DEF Issue, IssueAnswered, storeVars
  <2>2. /\ Quiet /\ owner' \in [Accessor -> Key \cup {None}]
        /\ live' \subseteq Accessor
        /\ owner'[a] = key[h] /\ a \notin delivered
    BY <1>1, <2>1, MintIsQuiet DEF IInv
  <2>3. UsableLeaseIsRecorded' /\ DeliveredAreMinted'
    BY <2>1, <2>2, RecordKept
  <2>4. Usable(key[h])' = {}
    <3>1. Usable(key[h]) = {}
      BY <1>1 DEF IInv, Established
    <3>2. \A b \in Accessor : b \in delivered /\ b \in live'
                              => b \in live /\ owner'[b] = owner[b]
      BY <2>2 DEF Quiet
    <3>3. QED
      BY <2>1, <3>1, <3>2 DEF Usable, IInv, TypeOK
  <2>5. Established(h)'
    <3>1. pc'[h] = "encrypt" /\ acc'[h] = a /\ key'[h] = key[h]
      BY <2>1 DEF Goto, IInv, TypeOK
    <3>2. QED
      BY <2>1, <2>2, <2>4, <3>1 DEF Established
  <2>6. VaultTypeOK' /\ acc' \in [Handler -> Entry] /\ leases' \in [Key -> Entry]
    BY <2>1, <2>2 DEF IInv, TypeOK, VaultTypeOK, Entry
  <2>7. "encrypt" \in Critical
    BY DEF Critical
  <2>8. QED
    BY <1>1, <2>1, <2>3, <2>5, <2>6, <2>7, ProceededInv
<1>3. CASE IssueRejected(h) \/ IssueFails(h)
  <2>1. /\ Answer(h, 502)
        /\ UNCHANGED <<live, owner, lateRevoke, leases, stable, running,
                       delivered>>
        /\ \/ lateCreate' = lateCreate /\ faults' = faults
           \/ lateCreate' = [lateCreate EXCEPT ![key[h]] = @ + 1] /\ CountFault
    BY <1>3 DEF IssueRejected, IssueFails, IssueGivenUp, vaultVars, storeVars
  <2>2. UsableLeaseIsRecorded' /\ DeliveredAreMinted'
    BY <2>1, RecordKept DEF Quiet
  <2>3. faults' \in 0..MaxFaults
    BY <2>1, CountFaultType DEF IInv, TypeOK
  <2>4. VaultTypeOK' /\ leases' \in [Key -> Entry] /\ delivered' \subseteq Accessor
    BY <1>1, <2>1 DEF IInv, TypeOK, VaultTypeOK
  <2>5. QED
    BY <1>1, <2>1, <2>2, <2>3, <2>4, AnsweredInv
<1>4. QED
  BY <1>2, <1>3

\* Encryption, and failures that lead to the clean-up, move the handler only.
LEMMA MoveInv ==
  ASSUME IInv, NEW h \in Handler,
         Encrypt(h) \/ EncryptFails(h) \/ SetStateFails(h)
  PROVE  IInv'
<1>1. PICK to \in {"set", "cleanup"} :
        /\ pc[h] \in {"encrypt", "set"}
        /\ to = "set" => pc[h] = "encrypt"
        /\ Proceed(h, to)
        /\ UNCHANGED <<vaultVars, storeVars, delivered, faults>>
  BY DEF Encrypt, EncryptFails, SetStateFails
<1>2. /\ Goto(h, to) /\ pc[h] \in Critical /\ to \in Critical
      /\ UNCHANGED <<op, key, acc, status, operationMu, live, owner, lateCreate,
                     lateRevoke, leases, stable, running, delivered, faults>>
  BY <1>1 DEF Proceed, Critical, vaultVars, storeVars
<1>3. Established(h)'
  <2>1. pc'[h] = to
    BY <1>2 DEF Goto, IInv, TypeOK
  <2>2. Established(h)
    BY DEF IInv
  <2>3. QED
    BY <1>1, <1>2, <2>1, <2>2 DEF Established, Usable
<1>4. UsableLeaseIsRecorded' /\ DeliveredAreMinted'
  BY <1>2, RecordKept DEF Quiet
<1>5. VaultTypeOK' /\ acc' \in [Handler -> Entry] /\ leases' \in [Key -> Entry]
  BY <1>2 DEF IInv, TypeOK, VaultTypeOK
<1>6. QED
  BY <1>2, <1>3, <1>4, <1>5, ProceededInv

\* What is recorded is the token that the response will name.
LEMMA SetStateInv ==
  ASSUME IInv, NEW h \in Handler, SetState(h) PROVE IInv'
<1>1. /\ pc[h] = "set" /\ pc[h] \in Critical /\ key[h] \in Key
      /\ acc[h] \in Accessor /\ Usable(key[h]) = {}
      /\ owner[acc[h]] = key[h] /\ acc[h] \notin delivered
  BY DEF IInv, HandlersHaveRequests, Established, Critical, SetState
<1>2. /\ leases' = [leases EXCEPT ![key[h]] = acc[h]] /\ Goto(h, "respond")
      /\ UNCHANGED <<op, key, acc, status, operationMu, live, owner, lateCreate,
                     lateRevoke, stable, running, delivered, faults>>
  BY DEF SetState, Store!Put, Store!Update, Proceed, vaultVars
<1>3. UsableLeaseIsRecorded'
  <2> SUFFICES ASSUME NEW k \in Key PROVE Usable(k)' \subseteq {leases'[k]}
    BY DEF UsableLeaseIsRecorded
  <2>1. Usable(k)' = Usable(k)
    BY <1>2 DEF Usable
  <2>2. CASE k = key[h]
    BY <1>1, <2>1, <2>2
  <2>3. CASE k # key[h]
    BY <1>2, <2>1, <2>3 DEF IInv, TypeOK, UsableLeaseIsRecorded
  <2>4. QED
    BY <2>2, <2>3
<1>4. DeliveredAreMinted'
  BY <1>2 DEF IInv, DeliveredAreMinted
<1>5. Established(h)'
  <2>1. pc'[h] = "respond" /\ leases'[key[h]] = acc[h]
    BY <1>1, <1>2 DEF Goto, IInv, TypeOK
  <2>2. QED
    BY <1>1, <1>2, <2>1 DEF Established
<1>6. VaultTypeOK' /\ acc' \in [Handler -> Entry] /\ leases' \in [Key -> Entry]
  BY <1>1, <1>2 DEF IInv, TypeOK, VaultTypeOK, Entry
<1>7. "respond" \in Critical
  BY DEF Critical
<1>8. QED
  BY <1>1, <1>2, <1>3, <1>4, <1>5, <1>6, <1>7, ProceededInv

\* A clean-up revokes a token, or leaves it as it is.
LEMMA CleanUpInv ==
  ASSUME IInv, NEW h \in Handler, CleanUp(h) \/ CleanUpFails(h) PROVE IInv'
<1>1. pc[h] = "cleanup" /\ pc[h] \in Critical /\ acc[h] \in Accessor
  BY DEF IInv, Established, Critical, CleanUp, CleanUpFails
<1>2. /\ Answer(h, 500)
      /\ UNCHANGED <<owner, lateCreate, leases, stable, running, delivered>>
      /\ \/ live' = live \ {acc[h]} /\ lateRevoke' = lateRevoke
            /\ faults' = faults
         \/ live' = live /\ lateRevoke' = lateRevoke \cup {acc[h]} /\ CountFault
  BY DEF CleanUp, CleanUpFails, RevokeAnswered, Kill, RevokeGivenUp, storeVars
<1>3. UsableLeaseIsRecorded' /\ DeliveredAreMinted'
  BY <1>2, RecordKept DEF Quiet
<1>4. faults' \in 0..MaxFaults
  BY <1>2, CountFaultType DEF IInv, TypeOK
<1>5. VaultTypeOK' /\ leases' \in [Key -> Entry] /\ delivered' \subseteq Accessor
  BY <1>1, <1>2 DEF IInv, TypeOK, VaultTypeOK
<1>6. QED
  BY <1>1, <1>2, <1>3, <1>4, <1>5, AnsweredInv

\* The token that is delivered is the one on record.
LEMMA RespondInv ==
  ASSUME IInv, NEW h \in Handler, Respond(h) \/ RespondLost(h) PROVE IInv'
<1>1. /\ pc[h] = "respond" /\ pc[h] \in Critical /\ key[h] \in Key
      /\ acc[h] \in Accessor /\ leases[key[h]] = acc[h]
      /\ owner[acc[h]] = key[h]
  BY DEF IInv, HandlersHaveRequests, Established, Critical, Respond, RespondLost
<1>2. /\ Answer(h, 200)
      /\ UNCHANGED <<live, owner, lateCreate, lateRevoke, leases, stable,
                     running, faults>>
      /\ delivered' = delivered \/ delivered' = delivered \cup {acc[h]}
  BY DEF Respond, RespondLost, vaultVars, storeVars
<1>3. UsableLeaseIsRecorded'
  <2> SUFFICES ASSUME NEW k \in Key PROVE Usable(k)' \subseteq {leases[k]}
    BY <1>2 DEF UsableLeaseIsRecorded
  <2>1. \A a \in Usable(k)' : a \in Usable(k) \/ (a = acc[h] /\ k = key[h])
    BY <1>1, <1>2 DEF Usable
  <2>2. QED
    BY <1>1, <2>1 DEF IInv, UsableLeaseIsRecorded
<1>4. DeliveredAreMinted'
  BY <1>1, <1>2 DEF IInv, DeliveredAreMinted
<1>5. /\ VaultTypeOK' /\ leases' \in [Key -> Entry] /\ delivered' \subseteq Accessor
      /\ faults' \in 0..MaxFaults
  BY <1>1, <1>2 DEF IInv, TypeOK, VaultTypeOK
<1>6. QED
  BY <1>1, <1>2, <1>3, <1>4, <1>5, AnsweredInv

\* After an effective revocation the entry can go.
LEMMA RemoveStateInv ==
  ASSUME IInv, NEW h \in Handler, RemoveState(h) \/ RemoveStateFails(h)
  PROVE  IInv'
<1>1. /\ pc[h] = "remove" /\ pc[h] \in Critical /\ key[h] \in Key
      /\ Usable(key[h]) = {}
  BY DEF IInv, HandlersHaveRequests, Established, Critical, RemoveState,
         RemoveStateFails
<1>2. PICK code \in {204, 500} :
        /\ Answer(h, code)
        /\ leases' = leases \/ leases' = [leases EXCEPT ![key[h]] = None]
        /\ UNCHANGED <<live, owner, lateCreate, lateRevoke, stable, running,
                       delivered, faults>>
  BY DEF RemoveState, RemoveStateFails, Store!Delete, Store!Update, vaultVars,
         storeVars
<1>3. UsableLeaseIsRecorded'
  <2> SUFFICES ASSUME NEW k \in Key PROVE Usable(k)' \subseteq {leases'[k]}
    BY DEF UsableLeaseIsRecorded
  <2>1. Usable(k)' = Usable(k)
    BY <1>2 DEF Usable
  <2>2. CASE k = key[h]
    BY <1>1, <2>1, <2>2
  <2>3. CASE k # key[h]
    BY <1>2, <2>1, <2>3 DEF IInv, TypeOK, UsableLeaseIsRecorded
  <2>4. QED
    BY <2>2, <2>3
<1>4. DeliveredAreMinted'
  BY <1>2 DEF IInv, DeliveredAreMinted
<1>5. /\ VaultTypeOK' /\ leases' \in [Key -> Entry] /\ delivered' \subseteq Accessor
      /\ faults' \in 0..MaxFaults
  BY <1>1, <1>2 DEF IInv, TypeOK, VaultTypeOK, Entry
<1>6. QED
  BY <1>1, <1>2, <1>3, <1>4, <1>5, AnsweredInv

-----------------------------------------------------------------------------
(* Vault on its own, and the process. *)

\* Late calls and expiry take tokens away or mint what nobody was given.
LEMMA VaultStepInv == ASSUME IInv, VaultStep PROVE IInv'
<1>1. UNCHANGED <<pc, op, key, acc, status, operationMu, leases, stable,
                  running, delivered, faults>>
  BY DEF VaultStep, handlerVars, storeVars
<1>2. /\ Quiet /\ VaultTypeOK'
      /\ \A b \in Accessor : owner[b] # None => owner'[b] = owner[b]
  <2>1. ASSUME NEW k \in Key, NEW a \in Accessor, ServeLateCreate(k, a)
        PROVE  /\ Quiet /\ VaultTypeOK'
               /\ \A b \in Accessor : owner[b] # None => owner'[b] = owner[b]
    <3>1. /\ Mint(k, a) /\ lateRevoke' = lateRevoke /\ lateCreate[k] > 0
          /\ lateCreate' = [lateCreate EXCEPT ![k] = @ - 1]
      BY <2>1 DEF ServeLateCreate
    <3>2. /\ Quiet /\ owner' \in [Accessor -> Key \cup {None}]
          /\ live' \subseteq Accessor
          /\ \A b \in Accessor : owner[b] # None => owner'[b] = owner[b]
      BY <1>1, <3>1, MintIsQuiet DEF IInv
    <3>3. lateCreate' \in [Key -> Nat]
      BY <3>1 DEF IInv, TypeOK, VaultTypeOK
    <3>4. QED
      BY <3>1, <3>2, <3>3 DEF IInv, TypeOK, VaultTypeOK
  <2>2. ASSUME NEW a \in Accessor, ServeLateRevoke(a) \/ Expire(a)
        PROVE  /\ Quiet /\ VaultTypeOK'
               /\ \A b \in Accessor : owner[b] # None => owner'[b] = owner[b]
    <3>1. /\ Kill(a) /\ owner' = owner /\ lateCreate' = lateCreate
          /\ lateRevoke' \subseteq lateRevoke
      BY <2>2 DEF ServeLateRevoke, Expire
    <3>2. Quiet
      BY <1>1, <3>1, KillIsQuiet
    <3>3. QED
      BY <3>1, <3>2 DEF Kill, IInv, TypeOK, VaultTypeOK
  <2>3. QED
    BY <2>1, <2>2 DEF VaultStep
<1>3. TypeOK'
  BY <1>1, <1>2 DEF IInv, TypeOK
<1>4. HandlersHaveRequests' /\ MutualExclusion'
  BY <1>1 DEF IInv, HandlersHaveRequests, MutualExclusion
<1>5. ASSUME NEW h \in Handler PROVE Established(h)'
  <2>1. CASE pc[h] \notin Critical
    BY <1>1, <2>1, OutsideEstablished
  <2>2. CASE pc[h] \in Critical
    <3>1. key[h] \in Key /\ key[h] # None /\ Established(h)
      BY <2>2 DEF IInv, HandlersHaveRequests, Critical
    <3>2. Usable(key[h]) = {} => Usable(key[h])' = {}
      BY <1>1, <1>2, <3>1, UsableShrinks DEF Usable
    <3>3. QED
      BY <1>1, <1>2, <3>1, <3>2 DEF Established
  <2>3. QED
    BY <2>1, <2>2
<1>6. UsableLeaseIsRecorded' /\ DeliveredAreMinted'
  BY <1>1, <1>2, RecordKept
<1>7. QED
  BY <1>3, <1>4, <1>5, <1>6 DEF IInv

\* A crash ends all handlers and leaves the record.
LEMMA CrashInv == ASSUME IInv, Crash PROVE IInv'
<1>1. /\ pc' = [h \in Handler |-> "idle"]
      /\ op' = [h \in Handler |-> "none"]
      /\ key' = [h \in Handler |-> None]
      /\ acc' = [h \in Handler |-> None]
      /\ status' = [h \in Handler |-> 0]
      /\ operationMu' = NoHandler
      /\ UNCHANGED <<live, owner, leases, stable, delivered>>
      /\ running' = FALSE /\ CountFault
  BY DEF Crash, GiveUpCalls, AllHandlersGone, Store!Crash
<1>2. VaultTypeOK'
  <2>1. lateCreate' \in [Key -> Nat]
    BY DEF IInv, TypeOK, VaultTypeOK, Crash, GiveUpCalls
  <2>2. lateRevoke' \subseteq Accessor
    BY DEF IInv, TypeOK, VaultTypeOK, Crash, GiveUpCalls, Established
  <2>3. QED
    BY <1>1, <2>1, <2>2 DEF IInv, TypeOK, VaultTypeOK
<1>3. TypeOK'
  <2>1. /\ pc' \in [Handler -> {"idle", "waiting"} \cup Critical]
        /\ op' \in [Handler -> {"none", "issue", "revoke"}]
        /\ key' \in [Handler -> Key \cup {None}]
        /\ acc' \in [Handler -> Entry]
        /\ status' \in [Handler -> {0, 200, 204, 500, 502}]
    BY <1>1 DEF Entry
  <2>2. running' \in BOOLEAN
    BY <1>1, Zenon
  <2>3. QED
    BY <1>1, <1>2, <2>1, <2>2, CountFaultType DEF IInv, TypeOK
<1>4. HandlersHaveRequests' /\ MutualExclusion'
  BY <1>1 DEF HandlersHaveRequests, MutualExclusion, Critical
<1>5. \A h \in Handler : Established(h)'
  BY <1>1 DEF Established
<1>6. UsableLeaseIsRecorded' /\ DeliveredAreMinted'
  BY <1>1, RecordKept DEF Quiet
<1>7. QED
  BY <1>3, <1>4, <1>5, <1>6 DEF IInv

\* Steps that leave everything but running as it is.
LEMMA FrameInv ==
  ASSUME IInv, running' \in BOOLEAN,
         UNCHANGED <<live, owner, lateCreate, lateRevoke, pc, op, key, acc,
                     status, operationMu, leases, stable, delivered, faults>>
  PROVE  IInv'
<1>1. TypeOK'
  BY DEF IInv, TypeOK, VaultTypeOK
<1>2. HandlersHaveRequests' /\ MutualExclusion' /\ DeliveredAreMinted'
  BY DEF IInv, HandlersHaveRequests, MutualExclusion, DeliveredAreMinted
<1>3. UsableLeaseIsRecorded' /\ \A h \in Handler : Established(h)'
  BY DEF IInv, UsableLeaseIsRecorded, Established, Usable
<1>4. QED
  BY <1>1, <1>2, <1>3 DEF IInv

\* Every step of the service keeps the invariant.
LEMMA InvStep == IInv /\ [Next]_vars => IInv'
<1> SUFFICES ASSUME IInv, [Next]_vars PROVE IInv'
  OBVIOUS
<1>1. ASSUME NEW h \in Handler, CriticalStep(h) PROVE IInv'
  BY <1>1, RevokePreviousInv, IssueInv, MoveInv, SetStateInv, CleanUpInv,
     RespondInv, RemoveStateInv DEF CriticalStep
<1>2. CASE Restart
  <2>1. running' = TRUE
    BY <1>2 DEF Restart, Store!Recover
  <2>2. running' \in BOOLEAN
    BY <2>1, Zenon
  <2>3. QED
    BY <1>2, <2>2, FrameInv DEF Restart, Store!Recover, vaultVars, handlerVars
<1>3. CASE UNCHANGED vars
  BY <1>3, FrameInv DEF vars, vaultVars, handlerVars, storeVars, IInv, TypeOK
<1>4. QED
  BY <1>1, <1>2, <1>3, LockInv, AdmitInv, VaultStepInv, CrashInv DEF Next

\* The invariant holds in every reachable state.
THEOREM ServiceInvariant == Spec => []IInv
<1>1. Init => IInv
  BY InitInv
<1>2. IInv /\ [Next]_vars => IInv'
  BY InvStep
<1>3. QED
  BY <1>1, <1>2, PTL DEF Spec

\* The variables of the service keep their types.
THEOREM ServiceTypeCorrect == Spec => []TypeOK
<1>1. IInv => TypeOK
  BY DEF IInv
<1>2. QED
  BY <1>1, ServiceInvariant, PTL

\* A usable lease is always the one on record for its host and volume.
THEOREM UsableLeasesAreRecorded == Spec => []UsableLeaseIsRecorded
<1>1. IInv => UsableLeaseIsRecorded
  BY DEF IInv
<1>2. QED
  BY <1>1, ServiceInvariant, PTL

\* When handleIssue creates a lease, the host has no usable one for the volume.
THEOREM NoUsableLeaseWhenCreating == Spec => []NoUsableLeaseAtCreate
<1>1. IInv => NoUsableLeaseAtCreate
  BY DEF IInv, Established, NoUsableLeaseAtCreate
<1>2. QED
  BY <1>1, ServiceInvariant, PTL

\* When handleRevoke answers 204, no lease of that host and volume is usable.
THEOREM RevocationsAreEffective == Spec => RevokedMeansUnusable
<1>1. ASSUME IInv, [Next]_vars, NEW h \in Handler, NEW k \in Key,
             key[h] = k, status[h] # 204, status'[h] = 204
      PROVE  Usable(k)' = {}
  <2>1. ASSUME NEW g \in Handler, NEW code, Answer(g, code)
        PROVE  g = h /\ code = 204
    BY <1>1, <2>1 DEF IInv, TypeOK, Answer
  <2>2. ASSUME NEW g \in Handler, RevokeNothing(g) PROVE Usable(k)' = {}
    <3>1. g = h
      BY <2>1, <2>2 DEF RevokeNothing
    <3>2. Usable(k) = {}
      BY <1>1, <2>2, <3>1, NothingRecorded DEF RevokeNothing
    <3>3. QED
      BY <2>2, <3>2 DEF RevokeNothing, vaultVars, Usable
  <2>3. ASSUME NEW g \in Handler, RemoveState(g) PROVE Usable(k)' = {}
    <3>1. g = h
      BY <2>1, <2>3 DEF RemoveState
    <3>2. Usable(k) = {}
      BY <1>1, <2>3, <3>1 DEF RemoveState, IInv, Established
    <3>3. QED
      BY <2>3, <3>2 DEF RemoveState, vaultVars, Usable
  <2>4. ASSUME NEW g \in Handler, CriticalStep(g), ~RemoveState(g) PROVE FALSE
    <3>1. \/ status' = status
          \/ \E code \in {200, 500, 502} : Answer(g, code)
      BY <2>4 DEF CriticalStep, RevokePrevious, RevokePreviousFails, Issue,
         IssueRejected, IssueFails, Encrypt, EncryptFails, SetState,
         SetStateFails, CleanUp, CleanUpFails, Respond, RespondLost,
         RemoveStateFails, Proceed
    <3>2. QED
      BY <1>1, <2>1, <3>1
  <2>5. ASSUME NEW g \in Handler, NEW o \in {"issue", "revoke"},
               NEW j \in Key, Admit(g, o, j)
        PROVE  FALSE
    BY <1>1, <2>5 DEF Admit, IInv, TypeOK
  <2>6. ASSUME NEW g \in Handler, EnterWithPrevious(g) \/ IssueWithoutPrevious(g)
        PROVE  FALSE
    BY <1>1, <2>6 DEF EnterWithPrevious, IssueWithoutPrevious, Enter
  <2>7. ASSUME VaultStep \/ Restart \/ UNCHANGED vars PROVE FALSE
    BY <1>1, <2>7 DEF VaultStep, Restart, vars, handlerVars
  <2>8. ASSUME Crash PROVE FALSE
    BY <1>1, <2>8 DEF Crash, AllHandlersGone
  <2>9. QED
    BY <1>1, <2>2, <2>3, <2>4, <2>5, <2>6, <2>7, <2>8 DEF Next, LockStep
<1>2. IInv /\ [Next]_vars =>
        \A h \in Handler, k \in Key :
          key[h] = k /\ status[h] # 204 /\ status'[h] = 204 => Usable(k)' = {}
  BY <1>1
<1>3. QED
  BY <1>2, ServiceInvariant, PTL DEF Spec, RevokedMeansUnusable

-----------------------------------------------------------------------------
(* No token escapes the record without a cause. *)

\* Whose tokens are where: a live token and a recorded one have been minted,
\* the latter for the key it is recorded for.
TokensAreOwned == /\ \A a \in live : owner[a] \in Key
                  /\ \A k \in Key : leases[k] # None => owner[leases[k]] = k

\* What a handler knows of the token it holds and of the one on record.
Held(h) ==
  /\ pc[h] \notin Critical => acc[h] = None
  /\ pc[h] \in Critical /\ acc[h] # None => owner[acc[h]] = key[h]
  /\ pc[h] \in {"issue", "remove"} => acc[h] \notin live
  /\ pc[h] \in {"issue", "encrypt", "set", "remove"} =>
       leases[key[h]] \notin live

\* Every pending create was a fault, and what is counted is finite.
Countable == /\ \A k \in Key : lateCreate[k] <= faults
             /\ IsFiniteSet(Orphans) /\ IsFiniteSet(PendingCreates)

EscapeInv == /\ TokensAreOwned
             /\ \A h \in Handler : Held(h)
             /\ Countable
             /\ OrphansHaveCauses

\* A set that gains at most one element grows by at most one.
LEMMA OneMore ==
  ASSUME NEW S, IsFiniteSet(S), NEW x, NEW T \in SUBSET (S \cup {x})
  PROVE  /\ IsFiniteSet(T) /\ Cardinality(T) \in Nat
         /\ Cardinality(T) <= Cardinality(S) + 1
         /\ x \notin T => Cardinality(T) <= Cardinality(S)
<1>1. /\ IsFiniteSet(S \cup {x})
      /\ Cardinality(S \cup {x}) <= Cardinality(S) + 1
      /\ Cardinality(S) \in Nat
  <2>1. /\ IsFiniteSet(S \cup {x})
        /\ Cardinality(S \cup {x})
             = IF x \in S THEN Cardinality(S) ELSE Cardinality(S) + 1
    BY FS_AddElement
  <2>2. Cardinality(S) \in Nat
    BY FS_CardinalityType
  <2>3. QED
    BY <2>1, <2>2
<1>2. IsFiniteSet(T) /\ Cardinality(T) <= Cardinality(S \cup {x})
  BY <1>1, FS_Subset
<1>3. /\ Cardinality(T) \in Nat
      /\ Cardinality(S \cup {x}) \in Nat
  BY <1>1, <1>2, FS_CardinalityType
<1>4. ASSUME x \notin T PROVE Cardinality(T) <= Cardinality(S)
  BY <1>4, T \in SUBSET S, FS_Subset
<1>5. QED
  BY <1>1, <1>2, <1>3, <1>4

\* The tally stays right when nothing is added to what is counted ...
LEMMA TallyKept ==
  ASSUME IInv, EscapeInv, faults' \in Nat, faults <= faults',
         \A k \in Key : lateCreate'[k] <= faults',
         Orphans' \subseteq Orphans, PendingCreates' \subseteq PendingCreates
  PROVE  Countable' /\ OrphansHaveCauses'
<1>1. /\ IsFiniteSet(Orphans) /\ IsFiniteSet(PendingCreates)
      /\ Cardinality(Orphans) + Cardinality(PendingCreates) <= faults
      /\ faults \in Nat
  BY DEF EscapeInv, Countable, OrphansHaveCauses, IInv, TypeOK
<1>2. /\ IsFiniteSet(Orphans') /\ Cardinality(Orphans') <= Cardinality(Orphans)
      /\ IsFiniteSet(PendingCreates')
      /\ Cardinality(PendingCreates') <= Cardinality(PendingCreates)
  BY <1>1, FS_Subset
<1>3. /\ Cardinality(Orphans) \in Nat /\ Cardinality(Orphans') \in Nat
      /\ Cardinality(PendingCreates) \in Nat
      /\ Cardinality(PendingCreates') \in Nat
  BY <1>1, <1>2, FS_CardinalityType
<1>4. Cardinality(Orphans') + Cardinality(PendingCreates') <= faults'
  BY <1>1, <1>2, <1>3
<1>5. QED
  BY <1>2, <1>4 DEF Countable, OrphansHaveCauses

\* ... and when one fault adds one orphan or one pending create.
LEMMA TallyCounted ==
  ASSUME IInv, EscapeInv, faults' = faults + 1,
         \A k \in Key : lateCreate'[k] <= faults',
         NEW x,
         \/ /\ Orphans' \subseteq Orphans \cup {x}
            /\ PendingCreates' \subseteq PendingCreates
         \/ /\ Orphans' \subseteq Orphans
            /\ PendingCreates' \subseteq PendingCreates \cup {x}
  PROVE  Countable' /\ OrphansHaveCauses'
<1>1. /\ IsFiniteSet(Orphans) /\ IsFiniteSet(PendingCreates)
      /\ Cardinality(Orphans) + Cardinality(PendingCreates) <= faults
      /\ faults \in Nat
  BY DEF EscapeInv, Countable, OrphansHaveCauses, IInv, TypeOK
<1>2. /\ Cardinality(Orphans) \in Nat /\ Cardinality(PendingCreates) \in Nat
  BY <1>1, FS_CardinalityType
<1>3. /\ IsFiniteSet(Orphans') /\ Cardinality(Orphans') \in Nat
      /\ IsFiniteSet(PendingCreates') /\ Cardinality(PendingCreates') \in Nat
      /\ Cardinality(Orphans') + Cardinality(PendingCreates')
           <= Cardinality(Orphans) + Cardinality(PendingCreates) + 1
  <2>1. CASE /\ Orphans' \subseteq Orphans \cup {x}
             /\ PendingCreates' \subseteq PendingCreates
    <3>1. /\ IsFiniteSet(Orphans') /\ Cardinality(Orphans') \in Nat
          /\ Cardinality(Orphans') <= Cardinality(Orphans) + 1
      BY <1>1, <2>1, OneMore
    <3>2. /\ IsFiniteSet(PendingCreates')
          /\ Cardinality(PendingCreates') <= Cardinality(PendingCreates)
      BY <1>1, <2>1, FS_Subset
    <3>3. QED
      BY <1>2, <3>1, <3>2, FS_CardinalityType
  <2>2. CASE /\ Orphans' \subseteq Orphans
             /\ PendingCreates' \subseteq PendingCreates \cup {x}
    <3>1. /\ IsFiniteSet(PendingCreates') /\ Cardinality(PendingCreates') \in Nat
          /\ Cardinality(PendingCreates') <= Cardinality(PendingCreates) + 1
      BY <1>1, <2>2, OneMore
    <3>2. /\ IsFiniteSet(Orphans')
          /\ Cardinality(Orphans') <= Cardinality(Orphans)
      BY <1>1, <2>2, FS_Subset
    <3>3. QED
      BY <1>2, <3>1, <3>2, FS_CardinalityType
  <2>3. QED
    BY <2>1, <2>2
<1>4. QED
  BY <1>1, <1>2, <1>3 DEF Countable, OrphansHaveCauses

\* Nothing is known of a token that a handler outside does not hold, so only
\* the handler that steps can disturb what handlers know.
LEMMA HeldByOne ==
  ASSUME IInv, EscapeInv, NEW h \in Handler, Held(h)',
         pc[h] \in Critical \/ operationMu = NoHandler,
         \A g \in Handler : g # h => pc'[g] = pc[g] /\ acc'[g] = acc[g]
  PROVE  \A g \in Handler : Held(g)'
<1> SUFFICES ASSUME NEW g \in Handler, g # h PROVE Held(g)'
  OBVIOUS
<1>1. pc[g] \notin Critical
  BY OthersOutside DEF IInv, TypeOK, MutualExclusion
<1>2. pc'[g] \notin Critical /\ acc'[g] = None
  BY <1>1 DEF EscapeInv, Held
<1>3. QED
  BY <1>2 DEF Held, Critical

\* An answer lets go of the token, which may thereby become an orphan.
LEMMA AnswerEscape ==
  ASSUME IInv, EscapeInv, NEW h \in Handler, NEW code, Answer(h, code),
         pc[h] \in Critical \/ operationMu = NoHandler,
         owner' = owner, live' \subseteq live,
         \A a \in live', k \in Key : leases[k] = a => leases'[k] = a
  PROVE  /\ \A g \in Handler : Held(g)'
         /\ Orphans' \subseteq Orphans \cup {acc[h]}
         /\ acc[h] \notin live' \/ leases'[owner[acc[h]]] = acc[h]
              => Orphans' \subseteq Orphans
<1>1. /\ pc' = [pc EXCEPT ![h] = "idle"] /\ acc' = [acc EXCEPT ![h] = None]
      /\ pc'[h] = "idle" /\ acc'[h] = None
      /\ \A g \in Handler : g # h => pc'[g] = pc[g] /\ acc'[g] = acc[g]
  BY DEF Answer, Goto, IInv, TypeOK
<1>2. Held(h)'
  BY <1>1 DEF Held, Critical
<1>3. ASSUME NEW a \in Orphans' PROVE a \in Orphans \/ a = acc[h]
  BY <1>1, <1>3 DEF Orphans, EscapeInv, TokensAreOwned
<1>4. ASSUME NEW a \in Orphans'
      PROVE  a \in live' /\ leases'[owner[a]] # a
  BY <1>4 DEF Orphans
<1>5. QED
  BY <1>1, <1>2, <1>3, <1>4, HeldByOne

\* A handler that goes on keeps its token.
LEMMA ProceedEscape ==
  ASSUME IInv, EscapeInv, NEW h \in Handler, NEW where, Proceed(h, where),
         pc[h] \in Critical, owner' = owner, live' \subseteq live, Held(h)',
         \A a \in live', k \in Key : leases[k] = a => leases'[k] = a
  PROVE  (\A g \in Handler : Held(g)') /\ Orphans' \subseteq Orphans
<1>1. acc' = acc /\ \A g \in Handler : g # h => pc'[g] = pc[g]
  BY DEF Proceed, Goto, IInv, TypeOK
<1>2. Orphans' \subseteq Orphans
  BY <1>1 DEF Orphans, EscapeInv, TokensAreOwned
<1>3. QED
  BY <1>1, <1>2, HeldByOne

\* Creates that are waited for by nobody do not become more.
LEMMA PendingKept ==
  ASSUME lateCreate' = lateCreate PROVE PendingCreates' = PendingCreates
  BY DEF PendingCreates

\* A step that neither fails nor mints, and leaves what may be live on record.
LEMMA HarmlessStep ==
  ASSUME IInv, EscapeInv, owner' = owner, live' \subseteq live,
         lateCreate' = lateCreate, faults' = faults, TokensAreOwned',
         \A g \in Handler : Held(g)', Orphans' \subseteq Orphans
  PROVE  EscapeInv'
<1>1. faults \in Nat /\ \A k \in Key : lateCreate'[k] <= faults'
  BY DEF IInv, TypeOK, EscapeInv, Countable
<1>2. Countable' /\ OrphansHaveCauses'
  BY <1>1, TallyKept, PendingKept
<1>3. QED
  BY <1>2 DEF EscapeInv

\* There is no token at the start.
LEMMA InitEscape == Init => EscapeInv
<1> SUFFICES ASSUME Init PROVE EscapeInv
  OBVIOUS
<1>1. /\ live = {} /\ leases = [k \in Key |-> None]
      /\ lateCreate = [k \in Key |-> 0] /\ faults = 0
      /\ pc = [h \in Handler |-> "idle"] /\ acc = [h \in Handler |-> None]
  BY DEF Init, VaultInit, Store!Init, Store!EmptyMap
<1>2. TokensAreOwned /\ \A h \in Handler : Held(h)
  BY <1>1 DEF TokensAreOwned, Held, Critical
<1>3. Orphans = {} /\ PendingCreates = {}
  BY <1>1 DEF Orphans, PendingCreates
<1>4. IsFiniteSet({}) /\ Cardinality({}) = 0
  BY FS_EmptySet
<1>5. Countable /\ OrphansHaveCauses
  BY <1>1, <1>3, <1>4 DEF Countable, OrphansHaveCauses
<1>6. QED
  BY <1>2, <1>5 DEF EscapeInv

\* Taking the lock changes nothing that is counted.
LEMMA LockEscape ==
  ASSUME IInv, EscapeInv, NEW h \in Handler, LockStep(h) PROVE EscapeInv'
<1>1. /\ pc[h] = "waiting" /\ operationMu = NoHandler /\ acc[h] = None
      /\ UNCHANGED <<live, owner, lateCreate, leases, faults>>
      /\ TokensAreOwned'
  BY DEF LockStep, EnterWithPrevious, IssueWithoutPrevious, RevokeNothing,
         MayEnter, Enter, vaultVars, storeVars, EscapeInv, Held, TokensAreOwned,
         Critical
<1>2. ASSUME NEW where \in {"revoke", "issue"}, Enter(h, where),
             where = "issue" => leases[key[h]] = None
      PROVE  EscapeInv'
  <2>1. /\ pc'[h] = where /\ acc'[h] = leases[key[h]] /\ key'[h] = key[h]
        /\ \A g \in Handler : g # h => pc'[g] = pc[g] /\ acc'[g] = acc[g]
    BY <1>2 DEF Enter, Goto, IInv, TypeOK
  <2>2. Held(h)'
    <3>1. key[h] \in Key /\ None \notin live
      BY <1>1 DEF IInv, HandlersHaveRequests, TypeOK, VaultTypeOK
    <3>2. leases[key[h]] # None => owner[leases[key[h]]] = key[h]
      BY <3>1 DEF EscapeInv, TokensAreOwned
    <3>3. QED
      BY <1>1, <1>2, <2>1, <3>1, <3>2 DEF Held, Critical
  <2>3. \A g \in Handler : Held(g)'
    BY <1>1, <2>1, <2>2, HeldByOne
  <2>4. Orphans' \subseteq Orphans
    <3>1. None \notin live
      BY DEF IInv, TypeOK, VaultTypeOK
    <3>2. QED
      BY <1>1, <2>1, <3>1 DEF Orphans
  <2>5. QED
    BY <1>1, <2>3, <2>4, HarmlessStep
<1>3. CASE EnterWithPrevious(h)
  BY <1>2, <1>3 DEF EnterWithPrevious
<1>4. CASE IssueWithoutPrevious(h)
  BY <1>2, <1>4 DEF IssueWithoutPrevious
<1>5. CASE RevokeNothing(h)
  <2>1. Answer(h, 204)
    BY <1>5 DEF RevokeNothing
  <2>2. acc[h] \notin live'
    BY <1>1 DEF IInv, TypeOK, VaultTypeOK
  <2>3. (\A g \in Handler : Held(g)') /\ Orphans' \subseteq Orphans
    BY <1>1, <2>1, <2>2, AnswerEscape
  <2>4. QED
    BY <1>1, <2>3, HarmlessStep
<1>6. QED
  BY <1>3, <1>4, <1>5 DEF LockStep

\* Nor does an admission.
LEMMA AdmitEscape ==
  ASSUME IInv, EscapeInv, NEW h \in Handler, NEW o, NEW k, Admit(h, o, k)
  PROVE  EscapeInv'
<1>1. /\ pc[h] = "idle" /\ pc' = [pc EXCEPT ![h] = "waiting"]
      /\ key' = [key EXCEPT ![h] = k]
      /\ UNCHANGED <<live, owner, lateCreate, acc, leases, faults>>
  BY DEF Admit, Goto, vaultVars, storeVars
<1>2. TokensAreOwned' /\ Orphans' \subseteq Orphans
  BY <1>1 DEF EscapeInv, TokensAreOwned, Orphans
<1>3. ASSUME NEW g \in Handler PROVE Held(g)'
  <2>1. CASE g = h
    BY <1>1, <2>1 DEF EscapeInv, Held, Critical, IInv, TypeOK
  <2>2. CASE g # h
    <3>1. pc'[g] = pc[g] /\ key'[g] = key[g]
      BY <1>1, <2>2 DEF IInv, TypeOK
    <3>2. QED
      BY <1>1, <3>1 DEF EscapeInv, Held
  <2>3. QED
    BY <2>1, <2>2
<1>4. QED
  BY <1>1, <1>2, <1>3, HarmlessStep

\* A revocation can only take an orphan away.
LEMMA RevokePreviousEscape ==
  ASSUME IInv, EscapeInv, NEW h \in Handler,
         RevokePrevious(h) \/ RevokePreviousFails(h)
  PROVE  EscapeInv'
<1>1. /\ pc[h] = "revoke" /\ pc[h] \in Critical /\ key[h] \in Key
      /\ acc[h] \in Accessor /\ leases[key[h]] = acc[h]
      /\ owner[acc[h]] = key[h]
      /\ UNCHANGED <<owner, lateCreate, leases, faults>>
  BY DEF IInv, HandlersHaveRequests, Established, Critical, RevokePrevious,
         RevokePreviousFails, RevokeAnswered, RevokeGivenUp, storeVars,
         EscapeInv, Held
<1>2. CASE RevokePrevious(h)
  <2> DEFINE where == IF op[h] = "issue" THEN "issue" ELSE "remove"
  <2>1. live' = live \ {acc[h]} /\ Proceed(h, where)
    BY <1>2 DEF RevokePrevious, RevokeAnswered, Kill
  <2>2. where \in Critical /\ where \in {"issue", "remove"}
    BY DEF Critical
  <2> HIDE DEF where
  <2>3. Held(h)'
    <3>1. pc'[h] = where /\ acc'[h] = acc[h] /\ key'[h] = key[h]
      BY <2>1 DEF Proceed, Goto, IInv, TypeOK
    <3>2. QED
      BY <1>1, <2>1, <2>2, <3>1 DEF Held
  <2>4. (\A g \in Handler : Held(g)') /\ Orphans' \subseteq Orphans
    BY <1>1, <2>1, <2>3, ProceedEscape
  <2>5. TokensAreOwned'
    BY <1>1, <2>1 DEF EscapeInv, TokensAreOwned
  <2>6. QED
    BY <1>1, <2>1, <2>4, <2>5, HarmlessStep
<1>3. CASE RevokePreviousFails(h)
  <2>1. Answer(h, 502) /\ live' = live
    BY <1>3 DEF RevokePreviousFails, RevokeGivenUp
  <2>2. (\A g \in Handler : Held(g)') /\ Orphans' \subseteq Orphans
    BY <1>1, <2>1, AnswerEscape
  <2>3. TokensAreOwned'
    BY <1>1, <2>1 DEF EscapeInv, TokensAreOwned
  <2>4. QED
    BY <1>1, <2>1, <2>2, <2>3, HarmlessStep
<1>4. QED
  BY <1>2, <1>3

\* A new token is new to every record and to every handler.
LEMMA MintIsNew ==
  ASSUME IInv, EscapeInv, NEW k \in Key, NEW a \in Accessor, Mint(k, a)
  PROVE  /\ a \notin live /\ live' = live \cup {a} /\ owner'[a] = k
         /\ \A b \in Accessor : b # a => owner'[b] = owner[b]
         /\ \A j \in Key : leases[j] # a
         /\ \A h \in Handler : acc[h] # a
<1>1. /\ owner[a] = None /\ owner' = [owner EXCEPT ![a] = k]
      /\ live' = live \cup {a} /\ a # None
  BY DEF Mint
<1>2. \A j \in Key : leases[j] # a
  BY <1>1 DEF EscapeInv, TokensAreOwned
<1>3. ASSUME NEW h \in Handler PROVE acc[h] # a
  <2>1. CASE pc[h] \notin Critical
    BY <1>1, <2>1 DEF EscapeInv, Held
  <2>2. CASE pc[h] \in Critical
    <3>1. key[h] \in Key
      BY <2>2 DEF IInv, HandlersHaveRequests, Critical
    <3>2. QED
      BY <1>1, <2>2, <3>1 DEF EscapeInv, Held
  <2>3. QED
    BY <2>1, <2>2
<1>4. QED
  BY <1>1, <1>2, <1>3 DEF IInv, TypeOK, VaultTypeOK, EscapeInv, TokensAreOwned

\* A token in Vault's books is recorded nowhere before it is.
LEMMA MintOwned ==
  ASSUME IInv, EscapeInv, NEW k \in Key, NEW a \in Accessor, Mint(k, a),
         leases' = leases
  PROVE  TokensAreOwned'
<1>1. /\ live' = live \cup {a} /\ owner'[a] = k
      /\ \A b \in Accessor : b # a => owner'[b] = owner[b]
      /\ \A j \in Key : leases[j] # a
  BY MintIsNew
<1>2. live \subseteq Accessor /\ \A j \in Key : leases[j] \in Entry
  BY DEF IInv, TypeOK, VaultTypeOK
<1>3. QED
  BY <1>1, <1>2 DEF EscapeInv, TokensAreOwned, Entry

\* The handler that created a token holds it: it is no orphan.
LEMMA IssueEscape ==
  ASSUME IInv, EscapeInv, NEW h \in Handler, NEW a \in Accessor, Issue(h, a)
  PROVE  EscapeInv'
<1>1. /\ pc[h] = "issue" /\ pc[h] \in Critical /\ key[h] \in Key
      /\ Mint(key[h], a)
      /\ acc' = [acc EXCEPT ![h] = a] /\ Goto(h, "encrypt")
      /\ UNCHANGED <<key, leases, lateCreate, faults>>
  BY DEF Issue, IssueAnswered, storeVars, IInv, HandlersHaveRequests, Critical
<1>2. /\ a \notin live /\ live' = live \cup {a} /\ owner'[a] = key[h]
      /\ \A b \in Accessor : b # a => owner'[b] = owner[b]
      /\ \A j \in Key : leases[j] # a
  BY <1>1, MintIsNew
<1>3. /\ pc'[h] = "encrypt" /\ acc'[h] = a
      /\ \A g \in Handler : g # h => pc'[g] = pc[g] /\ acc'[g] = acc[g]
  BY <1>1 DEF Goto, IInv, TypeOK
<1>4. Held(h)'
  <2>1. leases[key[h]] \notin live
    BY <1>1 DEF EscapeInv, Held
  <2>2. QED
    BY <1>1, <1>2, <1>3, <2>1 DEF Held, Critical
<1>5. \A g \in Handler : Held(g)'
  BY <1>1, <1>3, <1>4, HeldByOne
<1>6. TokensAreOwned'
  BY <1>1, MintOwned
<1>7. Orphans' \subseteq Orphans
  <2> SUFFICES ASSUME NEW b \in Orphans' PROVE b \in Orphans
    OBVIOUS
  <2>1. b \in live /\ b # a /\ leases[owner'[b]] # b
    BY <1>1, <1>2, <1>3 DEF Orphans
  <2>2. owner'[b] = owner[b]
    BY <1>2, <2>1 DEF IInv, TypeOK, VaultTypeOK
  <2>3. acc[h] # b
    BY <1>1, <2>1 DEF EscapeInv, Held
  <2>4. \A g \in Handler : acc[g] # b
    BY <1>3, <2>3 DEF Orphans
  <2>5. QED
    BY <2>1, <2>2, <2>4 DEF Orphans
<1>8. faults \in Nat /\ \A k \in Key : lateCreate'[k] <= faults'
  BY <1>1 DEF IInv, TypeOK, EscapeInv, Countable
<1>9. Countable' /\ OrphansHaveCauses'
  BY <1>1, <1>7, <1>8, TallyKept, PendingKept
<1>10. QED
  BY <1>5, <1>6, <1>9 DEF EscapeInv

\* A create that Vault rejects leaves nothing.
LEMMA IssueRejectedEscape ==
  ASSUME IInv, EscapeInv, NEW h \in Handler, IssueRejected(h)
  PROVE  EscapeInv'
<1>1. /\ pc[h] = "issue" /\ pc[h] \in Critical /\ Answer(h, 502)
      /\ UNCHANGED <<live, owner, lateCreate, leases, faults>>
      /\ acc[h] \notin live /\ TokensAreOwned'
  BY DEF IssueRejected, Critical, vaultVars, storeVars, EscapeInv, Held,
         TokensAreOwned
<1>2. (\A g \in Handler : Held(g)') /\ Orphans' \subseteq Orphans
  BY <1>1, AnswerEscape
<1>3. QED
  BY <1>1, <1>2, HarmlessStep

\* One more create of a key may be served late.
LEMMA OnePending ==
  ASSUME IInv, NEW k \in Key, lateCreate' = [lateCreate EXCEPT ![k] = @ + 1]
  PROVE  PendingCreates' \subseteq PendingCreates \cup {<<k, lateCreate[k] + 1>>}
<1> SUFFICES ASSUME NEW p \in PendingCreates', p \notin PendingCreates
             PROVE  p = <<k, lateCreate[k] + 1>>
  OBVIOUS
<1>1. PICK j \in Key, i \in 1..MaxFaults : p = <<j, i>>
  BY DEF PendingCreates
<1>2. i <= lateCreate'[j] /\ ~ (i <= lateCreate[j])
  BY <1>1 DEF PendingCreates
<1>3. lateCreate \in [Key -> Nat] /\ i \in Int
  BY DEF IInv, TypeOK, VaultTypeOK
<1>4. j = k
  BY <1>2, <1>3
<1>5. i = lateCreate[k] + 1
  BY <1>2, <1>3, <1>4
<1>6. QED
  BY <1>1, <1>4, <1>5

\* A create without an answer is a fault, and one pending create.
LEMMA IssueFailsEscape ==
  ASSUME IInv, EscapeInv, NEW h \in Handler, IssueFails(h) PROVE EscapeInv'
<1>1. /\ pc[h] = "issue" /\ pc[h] \in Critical /\ key[h] \in Key
      /\ Answer(h, 502) /\ faults' = faults + 1
      /\ lateCreate' = [lateCreate EXCEPT ![key[h]] = @ + 1]
      /\ UNCHANGED <<live, owner, leases>>
      /\ acc[h] \notin live /\ TokensAreOwned'
  BY DEF IssueFails, IssueGivenUp, CountFault, Critical, storeVars, IInv,
         HandlersHaveRequests, EscapeInv, Held, TokensAreOwned
<1>2. (\A g \in Handler : Held(g)') /\ Orphans' \subseteq Orphans
  BY <1>1, AnswerEscape
<1>3. PendingCreates'
        \subseteq PendingCreates \cup {<<key[h], lateCreate[key[h]] + 1>>}
  BY <1>1, OnePending
<1>4. \A k \in Key : lateCreate'[k] <= faults'
  <2>1. /\ lateCreate \in [Key -> Nat] /\ faults \in Nat
        /\ \A k \in Key : lateCreate[k] <= faults
    BY DEF IInv, TypeOK, VaultTypeOK, EscapeInv, Countable
  <2>2. QED
    BY <1>1, <2>1
<1>5. Countable' /\ OrphansHaveCauses'
  BY <1>1, <1>2, <1>3, <1>4, TallyCounted
<1>6. QED
  BY <1>1, <1>2, <1>5 DEF EscapeInv

\* A handler that goes on with its token keeps it.
LEMMA MoveEscape ==
  ASSUME IInv, EscapeInv, NEW h \in Handler,
         Encrypt(h) \/ EncryptFails(h) \/ SetStateFails(h)
  PROVE  EscapeInv'
<1>1. PICK to \in {"set", "cleanup"} :
        /\ pc[h] \in {"encrypt", "set"} /\ Proceed(h, to)
        /\ UNCHANGED <<vaultVars, storeVars, delivered, faults>>
  BY DEF Encrypt, EncryptFails, SetStateFails
<1>2. /\ pc[h] \in Critical
      /\ UNCHANGED <<live, owner, lateCreate, leases, faults>>
      /\ TokensAreOwned'
  BY <1>1 DEF Critical, vaultVars, storeVars, EscapeInv, TokensAreOwned
<1>3. Held(h)'
  <2>1. pc'[h] = to /\ acc'[h] = acc[h] /\ key'[h] = key[h]
    BY <1>1 DEF Proceed, Goto, IInv, TypeOK
  <2>2. Held(h)
    BY DEF EscapeInv
  <2>3. QED
    BY <1>1, <1>2, <2>1, <2>2 DEF Held, Critical
<1>4. (\A g \in Handler : Held(g)') /\ Orphans' \subseteq Orphans
  BY <1>1, <1>2, <1>3, ProceedEscape
<1>5. QED
  BY <1>2, <1>4, HarmlessStep

\* The entry that SetState replaces names a token that is gone.
LEMMA SetStateEscape ==
  ASSUME IInv, EscapeInv, NEW h \in Handler, SetState(h) PROVE EscapeInv'
<1>1. /\ pc[h] = "set" /\ pc[h] \in Critical /\ key[h] \in Key
      /\ acc[h] \in Accessor /\ owner[acc[h]] = key[h]
      /\ leases[key[h]] \notin live
      /\ leases' = [leases EXCEPT ![key[h]] = acc[h]] /\ Proceed(h, "respond")
      /\ UNCHANGED <<live, owner, lateCreate, faults>>
  BY DEF SetState, Store!Put, Store!Update, vaultVars, IInv, Established,
         HandlersHaveRequests, Critical, EscapeInv, Held
<1>2. /\ leases \in [Key -> Entry]
      /\ \A k \in Key : k # key[h] => leases'[k] = leases[k]
      /\ leases'[key[h]] = acc[h]
  BY <1>1 DEF IInv, TypeOK
<1>3. TokensAreOwned'
  BY <1>1, <1>2 DEF EscapeInv, TokensAreOwned
<1>4. Held(h)'
  <2>1. pc'[h] = "respond" /\ acc'[h] = acc[h] /\ key'[h] = key[h]
    BY <1>1 DEF Proceed, Goto, IInv, TypeOK
  <2>2. QED
    BY <1>1, <2>1 DEF Held, Critical
<1>5. \A a \in live', k \in Key : leases[k] = a => leases'[k] = a
  BY <1>1, <1>2
<1>6. (\A g \in Handler : Held(g)') /\ Orphans' \subseteq Orphans
  BY <1>1, <1>4, <1>5, ProceedEscape
<1>7. QED
  BY <1>1, <1>3, <1>6, HarmlessStep

\* A clean-up without confirmation is a fault, and one orphan.
LEMMA CleanUpEscape ==
  ASSUME IInv, EscapeInv, NEW h \in Handler, CleanUp(h) \/ CleanUpFails(h)
  PROVE  EscapeInv'
<1>1. /\ pc[h] = "cleanup" /\ pc[h] \in Critical /\ Answer(h, 500)
      /\ UNCHANGED <<owner, lateCreate, leases>>
      /\ \/ live' = live \ {acc[h]} /\ faults' = faults
         \/ live' = live /\ faults' = faults + 1
  BY DEF CleanUp, CleanUpFails, RevokeAnswered, Kill, RevokeGivenUp, CountFault,
         storeVars, Critical
<1>2. TokensAreOwned'
  BY <1>1 DEF EscapeInv, TokensAreOwned
<1>3. /\ \A g \in Handler : Held(g)'
      /\ Orphans' \subseteq Orphans \cup {acc[h]}
      /\ acc[h] \notin live' => Orphans' \subseteq Orphans
  BY <1>1, AnswerEscape
<1>4. CASE live' = live \ {acc[h]} /\ faults' = faults
  BY <1>1, <1>2, <1>3, <1>4, HarmlessStep
<1>5. CASE live' = live /\ faults' = faults + 1
  <2>1. \A k \in Key : lateCreate'[k] <= faults'
    BY <1>1, <1>5 DEF IInv, TypeOK, VaultTypeOK, EscapeInv, Countable
  <2>2. Countable' /\ OrphansHaveCauses'
    BY <1>1, <1>3, <1>5, <2>1, TallyCounted, PendingKept
  <2>3. QED
    BY <1>2, <1>3, <2>2 DEF EscapeInv
<1>6. QED
  BY <1>1, <1>4, <1>5

\* A lease that is sent is on record.
LEMMA RespondEscape ==
  ASSUME IInv, EscapeInv, NEW h \in Handler, Respond(h) \/ RespondLost(h)
  PROVE  EscapeInv'
<1>1. /\ pc[h] = "respond" /\ pc[h] \in Critical /\ Answer(h, 200)
      /\ leases[key[h]] = acc[h] /\ owner[acc[h]] = key[h]
      /\ UNCHANGED <<live, owner, lateCreate, leases, faults>>
      /\ TokensAreOwned'
  BY DEF IInv, Established, Critical, Respond, RespondLost, vaultVars,
         storeVars, EscapeInv, TokensAreOwned
<1>2. (\A g \in Handler : Held(g)') /\ Orphans' \subseteq Orphans
  BY <1>1, AnswerEscape
<1>3. QED
  BY <1>1, <1>2, HarmlessStep

\* The entry that RemoveState drops names a token that is gone.
LEMMA RemoveStateEscape ==
  ASSUME IInv, EscapeInv, NEW h \in Handler,
         RemoveState(h) \/ RemoveStateFails(h)
  PROVE  EscapeInv'
<1>1. /\ pc[h] = "remove" /\ pc[h] \in Critical /\ key[h] \in Key
      /\ acc[h] \notin live /\ leases[key[h]] \notin live
      /\ UNCHANGED <<live, owner, lateCreate, faults>>
  BY DEF IInv, HandlersHaveRequests, Critical, RemoveState, RemoveStateFails,
         vaultVars, EscapeInv, Held
<1>2. PICK code \in {204, 500} :
        /\ Answer(h, code)
        /\ leases' = leases \/ leases' = [leases EXCEPT ![key[h]] = None]
  BY DEF RemoveState, RemoveStateFails, Store!Delete, Store!Update, storeVars
<1>3. /\ leases \in [Key -> Entry]
      /\ \A k \in Key : k # key[h] => leases'[k] = leases[k]
      /\ leases'[key[h]] \in {leases[key[h]], None}
  BY <1>1, <1>2 DEF IInv, TypeOK
<1>4. TokensAreOwned'
  BY <1>1, <1>3 DEF EscapeInv, TokensAreOwned
<1>5. \A a \in live', k \in Key : leases[k] = a => leases'[k] = a
  BY <1>1, <1>3
<1>6. (\A g \in Handler : Held(g)') /\ Orphans' \subseteq Orphans
  BY <1>1, <1>2, <1>5, AnswerEscape
<1>7. QED
  BY <1>1, <1>4, <1>6, HarmlessStep

\* A token that ends leaves everything else as it is.
LEMMA VaultStepEscape == ASSUME IInv, EscapeInv, VaultStep PROVE EscapeInv'
<1>1. UNCHANGED <<pc, key, acc, leases, faults>>
  BY DEF VaultStep, handlerVars, storeVars
<1>2. ASSUME NEW a \in Accessor, ServeLateRevoke(a) \/ Expire(a)
      PROVE  EscapeInv'
  <2>1. live' \subseteq live /\ UNCHANGED <<owner, lateCreate>>
    BY <1>2 DEF ServeLateRevoke, Expire, Kill
  <2>2. /\ TokensAreOwned' /\ Orphans' \subseteq Orphans
        /\ \A h \in Handler : Held(h)'
    BY <1>1, <2>1 DEF EscapeInv, TokensAreOwned, Orphans, Held
  <2>3. QED
    BY <1>1, <2>1, <2>2, HarmlessStep
<1>3. ASSUME NEW k \in Key, NEW a \in Accessor, ServeLateCreate(k, a)
      PROVE  EscapeInv'
  <2>1. /\ Mint(k, a) /\ lateCreate[k] > 0
        /\ lateCreate' = [lateCreate EXCEPT ![k] = @ - 1]
        /\ lateCreate \in [Key -> Nat] /\ faults \in 0..MaxFaults
        /\ \A j \in Key : lateCreate[j] <= faults
    BY <1>3 DEF ServeLateCreate, IInv, TypeOK, VaultTypeOK, EscapeInv, Countable
  <2>2. /\ a \notin live /\ live' = live \cup {a} /\ owner'[a] = k
        /\ \A b \in Accessor : b # a => owner'[b] = owner[b]
        /\ \A j \in Key : leases[j] # a
        /\ \A h \in Handler : acc[h] # a
    BY <2>1, MintIsNew
  <2>3. TokensAreOwned'
    BY <1>1, <2>1, MintOwned
  <2>4. ASSUME NEW h \in Handler PROVE Held(h)'
    <3>1. CASE pc[h] \notin Critical
      BY <1>1, <3>1 DEF EscapeInv, Held, Critical
    <3>2. CASE pc[h] \in Critical
      <4>1. key[h] \in Key /\ acc[h] \in Entry /\ Held(h)
        BY <3>2 DEF IInv, TypeOK, HandlersHaveRequests, Critical, EscapeInv
      <4>2. acc[h] # None => owner'[acc[h]] = owner[acc[h]]
        BY <2>2, <4>1 DEF Entry
      <4>3. acc[h] \notin live => acc[h] \notin live'
        BY <2>2
      <4>4. leases[key[h]] \notin live => leases[key[h]] \notin live'
        BY <2>2, <4>1
      <4>5. QED
        BY <1>1, <3>2, <4>1, <4>2, <4>3, <4>4 DEF Held
    <3>3. QED
      BY <3>1, <3>2
  <2>5. Orphans' \subseteq Orphans \cup {a}
    <3>1. \A b \in live : owner'[b] = owner[b]
      BY <2>2 DEF IInv, TypeOK, VaultTypeOK
    <3>2. QED
      BY <1>1, <2>2, <3>1 DEF Orphans
  <2>6. <<k, lateCreate[k]>> \in PendingCreates
    BY <2>1 DEF PendingCreates
  <2>7. PendingCreates' \subseteq PendingCreates \ {<<k, lateCreate[k]>>}
    <3> SUFFICES ASSUME NEW p \in PendingCreates'
                 PROVE  p \in PendingCreates /\ p # <<k, lateCreate[k]>>
      OBVIOUS
    <3>1. PICK j \in Key, i \in 1..MaxFaults : p = <<j, i>>
      BY DEF PendingCreates
    <3>2. i <= lateCreate'[j]
      BY <3>1 DEF PendingCreates
    <3>3. i <= lateCreate[j] /\ (j = k => i # lateCreate[k])
      BY <2>1, <3>2
    <3>4. p \in PendingCreates
      BY <3>1, <3>3 DEF PendingCreates
    <3>5. QED
      BY <3>1, <3>3, <3>4
  <2>8. Countable' /\ OrphansHaveCauses'
    <3>1. IsFiniteSet(Orphans) /\ IsFiniteSet(PendingCreates)
      BY DEF EscapeInv, Countable
    <3>2. /\ IsFiniteSet(Orphans') /\ Cardinality(Orphans') \in Nat
          /\ Cardinality(Orphans') <= Cardinality(Orphans) + 1
      BY <2>5, <3>1, OneMore
    <3> DEFINE rest == PendingCreates \ {<<k, lateCreate[k]>>}
    <3>3. /\ IsFiniteSet(rest)
          /\ Cardinality(rest) = Cardinality(PendingCreates) - 1
      BY <2>6, <3>1, FS_RemoveElement
    <3>4. PendingCreates' \subseteq rest
      BY <2>7
    <3> HIDE DEF rest
    <3>5. /\ IsFiniteSet(PendingCreates')
          /\ Cardinality(PendingCreates') <= Cardinality(rest)
      BY <3>3, <3>4, FS_Subset
    <3>6. /\ Cardinality(Orphans) \in Nat /\ Cardinality(PendingCreates) \in Nat
          /\ Cardinality(rest) \in Nat /\ Cardinality(PendingCreates') \in Nat
      BY <3>1, <3>3, <3>5, FS_CardinalityType
    <3>7. Cardinality(Orphans) + Cardinality(PendingCreates) <= faults
      BY DEF EscapeInv, OrphansHaveCauses
    <3>8. Cardinality(Orphans') + Cardinality(PendingCreates') <= faults'
      BY <1>1, <2>1, <3>2, <3>3, <3>5, <3>6, <3>7
    <3>9. \A j \in Key : lateCreate'[j] <= faults'
      BY <1>1, <2>1
    <3>10. QED
      BY <3>2, <3>5, <3>8, <3>9 DEF Countable, OrphansHaveCauses
  <2>9. QED
    BY <2>3, <2>4, <2>8 DEF EscapeInv
<1>4. QED
  BY <1>2, <1>3 DEF VaultStep

\* The process that stops loses the token of the one handler at work, or the
\* answer to its create.
LEMMA CrashEscape == ASSUME IInv, EscapeInv, Crash PROVE EscapeInv'
<1>1. /\ pc' = [h \in Handler |-> "idle"]
      /\ acc' = [h \in Handler |-> None]
      /\ UNCHANGED <<live, owner, leases>> /\ faults' = faults + 1
      /\ lateCreate' = [k \in Key |->
           lateCreate[k] + IF \E h \in Handler : pc[h] = "issue" /\ key[h] = k
                           THEN 1 ELSE 0]
  BY DEF Crash, GiveUpCalls, AllHandlersGone, Store!Crash, CountFault
<1>2. TokensAreOwned' /\ \A h \in Handler : Held(h)'
  BY <1>1 DEF EscapeInv, TokensAreOwned, Held, Critical
<1>3. /\ lateCreate \in [Key -> Nat] /\ faults \in Nat
      /\ \A k \in Key : lateCreate[k] <= faults
  BY DEF IInv, TypeOK, VaultTypeOK, EscapeInv, Countable
<1>4. \A k \in Key : lateCreate'[k] <= faults'
  BY <1>1, <1>3
<1>5. \A a \in Orphans' : a \in Orphans \/ \E h \in Handler : acc[h] = a
  BY <1>1 DEF Orphans
<1>6. \A a \in Orphans' : a \in live /\ leases[owner[a]] # a
  BY <1>1 DEF Orphans
<1>7. CASE \A h \in Handler : pc[h] \notin Critical
  <2>1. \A h \in Handler : acc[h] = None
    BY <1>7 DEF EscapeInv, Held
  <2>2. Orphans' \subseteq Orphans
    BY <1>5, <1>6, <2>1 DEF IInv, TypeOK, VaultTypeOK
  <2>3. \A k \in Key : lateCreate'[k] = lateCreate[k]
    BY <1>1, <1>3, <1>7 DEF Critical
  <2>4. PendingCreates' \subseteq PendingCreates
    BY <2>3 DEF PendingCreates
  <2>5. QED
    BY <1>1, <1>2, <1>4, <2>2, <2>4, TallyCounted DEF EscapeInv
<1>8. ASSUME NEW h \in Handler, pc[h] \in Critical PROVE EscapeInv'
  <2>1. /\ key[h] \in Key
        /\ \A g \in Handler : g # h => pc[g] \notin Critical /\ acc[g] = None
    BY <1>8, OthersOutside
       DEF IInv, HandlersHaveRequests, Critical, EscapeInv, Held
  <2>2. Orphans' \subseteq Orphans \cup {acc[h]}
    BY <1>5, <1>6, <2>1 DEF IInv, TypeOK, VaultTypeOK
  <2>3. CASE pc[h] = "issue"
    <3>1. acc[h] \notin live
      BY <2>3 DEF EscapeInv, Held
    <3>2. Orphans' \subseteq Orphans
      BY <1>6, <2>2, <3>1
    <3>3. \A g \in Handler : g # h => pc[g] # "issue"
      BY <2>1 DEF Critical
    <3>4. lateCreate' = [lateCreate EXCEPT ![key[h]] = @ + 1]
      <4>1. ASSUME NEW k \in Key
            PROVE  lateCreate'[k]
                     = IF k = key[h] THEN lateCreate[k] + 1 ELSE lateCreate[k]
        BY <1>1, <1>3, <2>3, <3>3
      <4>2. QED
        BY <1>1, <1>3, <2>1, <4>1
    <3>5. PendingCreates'
            \subseteq PendingCreates \cup {<<key[h], lateCreate[key[h]] + 1>>}
      BY <2>1, <3>4, OnePending
    <3>6. QED
      BY <1>1, <1>2, <1>4, <3>2, <3>5, TallyCounted DEF EscapeInv
  <2>4. CASE pc[h] # "issue"
    <3>1. \A g \in Handler : pc[g] # "issue"
      BY <2>1, <2>4 DEF Critical
    <3>2. \A k \in Key : lateCreate'[k] = lateCreate[k]
      BY <1>1, <1>3, <3>1
    <3>3. PendingCreates' \subseteq PendingCreates
      BY <3>2 DEF PendingCreates
    <3>4. QED
      BY <1>1, <1>2, <1>4, <2>2, <3>3, TallyCounted DEF EscapeInv
  <2>5. QED
    BY <2>3, <2>4
<1>9. QED
  BY <1>7, <1>8

\* Starting the process, or doing nothing, loses nothing.
LEMMA FrameEscape ==
  ASSUME IInv, EscapeInv,
         UNCHANGED <<live, owner, lateCreate, pc, key, acc, leases, faults>>
  PROVE  EscapeInv'
<1>1. /\ TokensAreOwned' /\ Orphans' \subseteq Orphans
      /\ \A h \in Handler : Held(h)'
  BY DEF EscapeInv, TokensAreOwned, Orphans, Held
<1>2. QED
  BY <1>1, HarmlessStep

\* Every step of the service keeps the tally.
LEMMA EscapeStep == IInv /\ EscapeInv /\ [Next]_vars => EscapeInv'
<1> SUFFICES ASSUME IInv, EscapeInv, [Next]_vars PROVE EscapeInv'
  OBVIOUS
<1>1. ASSUME NEW h \in Handler, CriticalStep(h) PROVE EscapeInv'
  BY <1>1, RevokePreviousEscape, IssueEscape, IssueRejectedEscape,
     IssueFailsEscape, MoveEscape, SetStateEscape, CleanUpEscape,
     RespondEscape, RemoveStateEscape DEF CriticalStep
<1>2. CASE Restart \/ UNCHANGED vars
  <2>1. UNCHANGED <<live, owner, lateCreate, pc, key, acc, leases, faults>>
    BY <1>2 DEF Restart, Store!Recover, vars, vaultVars, handlerVars, storeVars
  <2>2. QED
    BY <2>1, FrameEscape
<1>3. QED
  BY <1>1, <1>2, LockEscape, AdmitEscape, VaultStepEscape, CrashEscape DEF Next

\* Tokens that nobody can revoke through the bridge are at most as many as the
\* creates without an answer, the clean-ups that Vault did not confirm and the
\* crashes, for every number of handlers, keys and tokens.
THEOREM OrphansAlwaysHaveCauses == Spec => []OrphansHaveCauses
<1>1. Init => IInv /\ EscapeInv
  BY InitInv, InitEscape
<1>2. IInv /\ EscapeInv /\ [Next]_vars => IInv' /\ EscapeInv'
  BY InvStep, EscapeStep
<1>3. EscapeInv => OrphansHaveCauses
  BY DEF EscapeInv
<1>4. QED
  BY <1>1, <1>2, <1>3, PTL DEF Spec


-----------------------------------------------------------------------------
(* The service implements the ledger. *)

\* Steps that deliver nothing and end no delivered lease.
LEMMA LedgerStutters ==
  ASSUME delivered' = delivered, \A k \in Key : Usable(k)' = Usable(k)
  PROVE  UNCHANGED Ledger!vars
  BY DEF Ledger!vars

\* The end of one token is the end of a lease in the ledger, or no step of it.
LEMMA LedgerEnds ==
  ASSUME IInv, delivered' = delivered, owner' = owner, NEW a \in Accessor,
         Kill(a)
  PROVE  [Ledger!Next]_(Ledger!vars)
<1>1. \A k \in Key : Usable(k)' = Usable(k) \ {a}
  BY DEF Kill, Usable
<1>2. CASE \A k \in Key : a \notin Usable(k)
  BY <1>1, <1>2, LedgerStutters
<1>3. CASE \E k \in Key : a \in Usable(k)
  <2>1. PICK k \in Key : a \in Usable(k)
    BY <1>3
  <2>2. \A j \in Key : j # k => a \notin Usable(j)
    BY <2>1 DEF Usable
  <2>3. [j \in Key |-> Usable(j)]'
          = [[j \in Key |-> Usable(j)] EXCEPT ![k] = @ \ {a}]
    BY <1>1, <2>1, <2>2
  <2>4. Ledger!End(k, a)
    BY <2>1, <2>3 DEF Ledger!End
  <2>5. QED
    BY <2>1, <2>4 DEF Ledger!Next
<1>4. QED
  BY <1>2, <1>3

\* A new token changes nothing in the ledger.
LEMMA LedgerIgnoresMint ==
  ASSUME IInv, delivered' = delivered, NEW k \in Key, NEW a \in Accessor,
         Mint(k, a)
  PROVE  UNCHANGED Ledger!vars
<1>1. Quiet /\ live \subseteq live'
  BY MintIsQuiet DEF IInv, Mint
<1>2. \A j \in Key : Usable(j)' = Usable(j)
  BY <1>1 DEF Quiet, Usable
<1>3. QED
  BY <1>2, LedgerStutters

\* A response is a delivery of the ledger.
LEMMA LedgerDelivers ==
  ASSUME IInv, NEW h \in Handler, Respond(h) PROVE [Ledger!Next]_(Ledger!vars)
<1>1. /\ key[h] \in Key /\ acc[h] \in Accessor /\ leases[key[h]] = acc[h]
      /\ owner[acc[h]] = key[h] /\ acc[h] \notin delivered
      /\ delivered' = delivered \cup {acc[h]}
      /\ UNCHANGED <<live, owner>>
  BY DEF IInv, HandlersHaveRequests, Established, Respond, vaultVars
<1>2. Usable(key[h]) = {}
  <2>1. Usable(key[h]) \subseteq {acc[h]}
    BY <1>1 DEF IInv, UsableLeaseIsRecorded
  <2>2. QED
    BY <1>1, <2>1 DEF Usable
<1>3. CASE acc[h] \in live
  <2>1. \A j \in Key : Usable(j)' = IF j = key[h] THEN {acc[h]} ELSE Usable(j)
    BY <1>1, <1>2, <1>3 DEF Usable
  <2>2. [j \in Key |-> Usable(j)]'
          = [[j \in Key |-> Usable(j)] EXCEPT ![key[h]] = {acc[h]}]
    BY <1>1, <2>1
  <2>3. Ledger!Deliver(key[h], acc[h])
    BY <1>1, <1>2, <2>2 DEF Ledger!Deliver
  <2>4. QED
    BY <1>1, <2>3 DEF Ledger!Next
<1>4. CASE acc[h] \notin live
  <2>1. \A j \in Key : Usable(j)' = Usable(j)
    BY <1>1, <1>4 DEF Usable
  <2>2. Ledger!DeliverEnded(acc[h])
    BY <1>1, <2>1 DEF Ledger!DeliverEnded
  <2>3. QED
    BY <1>1, <2>2 DEF Ledger!Next
<1>5. QED
  BY <1>3, <1>4

\* Every step of the service is a step of the ledger, or none.
LEMMA StepSimulation == IInv /\ [Next]_vars => [Ledger!Next]_(Ledger!vars)
<1> SUFFICES ASSUME IInv, [Next]_vars PROVE [Ledger!Next]_(Ledger!vars)
  OBVIOUS
<1>1. CASE UNCHANGED <<live, owner, delivered>>
  <2>1. \A k \in Key : Usable(k)' = Usable(k)
    BY <1>1 DEF Usable
  <2>2. QED
    BY <1>1, <2>1, LedgerStutters
<1>2. ASSUME NEW h \in Handler, RevokePrevious(h) \/ CleanUp(h)
      PROVE  [Ledger!Next]_(Ledger!vars)
  <2>1. /\ acc[h] \in Accessor /\ Kill(acc[h])
        /\ owner' = owner /\ delivered' = delivered
    BY <1>2 DEF IInv, Established, RevokePrevious, CleanUp, RevokeAnswered
  <2>2. QED
    BY <2>1, LedgerEnds
<1>3. ASSUME NEW h \in Handler, NEW a \in Accessor, Issue(h, a)
      PROVE  [Ledger!Next]_(Ledger!vars)
  <2>1. key[h] \in Key /\ Mint(key[h], a) /\ delivered' = delivered
    BY <1>3 DEF IInv, HandlersHaveRequests, Issue, IssueAnswered
  <2>2. QED
    BY <2>1, LedgerIgnoresMint
<1>4. CASE VaultStep
  <2>1. delivered' = delivered
    BY <1>4 DEF VaultStep
  <2>2. ASSUME NEW k \in Key, NEW a \in Accessor, ServeLateCreate(k, a)
        PROVE  [Ledger!Next]_(Ledger!vars)
    BY <2>1, <2>2, LedgerIgnoresMint DEF ServeLateCreate
  <2>3. ASSUME NEW a \in Accessor, ServeLateRevoke(a) \/ Expire(a)
        PROVE  [Ledger!Next]_(Ledger!vars)
    BY <2>1, <2>3, LedgerEnds DEF ServeLateRevoke, Expire
  <2>4. QED
    BY <1>4, <2>2, <2>3 DEF VaultStep
<1>5. ASSUME NEW h \in Handler, CriticalStep(h)
      PROVE  [Ledger!Next]_(Ledger!vars)
  BY <1>1, <1>2, <1>3, <1>5, LedgerDelivers
     DEF CriticalStep, RevokePreviousFails, RevokeGivenUp, IssueRejected,
         IssueFails, IssueGivenUp, Encrypt, EncryptFails, SetState,
         SetStateFails, CleanUpFails, RespondLost, RemoveState,
         RemoveStateFails, vaultVars
<1>6. ASSUME NEW h \in Handler, LockStep(h) PROVE [Ledger!Next]_(Ledger!vars)
  BY <1>1, <1>6 DEF LockStep, EnterWithPrevious, IssueWithoutPrevious,
     RevokeNothing, Enter, vaultVars
<1>7. ASSUME NEW h \in Handler, NEW o \in {"issue", "revoke"}, NEW k \in Key,
             Admit(h, o, k)
      PROVE  [Ledger!Next]_(Ledger!vars)
  BY <1>1, <1>7 DEF Admit, vaultVars
<1>8. CASE Crash \/ Restart \/ UNCHANGED vars
  BY <1>1, <1>8 DEF Crash, GiveUpCalls, Restart, vars, vaultVars
<1>9. QED
  BY <1>4, <1>5, <1>6, <1>7, <1>8 DEF Next

\* The service implements the ledger: at any time at most one delivered lease
\* per host and volume is usable, and none is delivered twice.
THEOREM ServiceImplementsLedger == Spec => ImplementsLedger
<1>1. Init => Ledger!Init
  BY DEF Init, VaultInit, Ledger!Init, Usable
<1>2. IInv /\ [Next]_vars => [Ledger!Next]_(Ledger!vars)
  BY StepSimulation
<1>3. QED
  BY <1>1, <1>2, ServiceInvariant, PTL DEF Spec, ImplementsLedger, Ledger!Spec
=============================================================================
