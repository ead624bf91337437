--------------------------- MODULE AdmissionProofs ---------------------------
(***************************************************************************)
(* What Admission guarantees for every set of hosts, nonces and handlers   *)
(* and for every NonceTTL, MaxRememberedNonce and VerifyLimit.             *)
(***************************************************************************)
EXTENDS Admission, FiniteSetTheorems, TLAPS

USE AdmissionAssumption

\* A request the cache has forgotten was accepted at least NonceTTL ago.
ForgottenIsOld ==
  \A r \in accepted : r \notin entries => peak >= usedAt[r] + NonceTTL

\* A clock reading that waits for cache.mu is one that the clock has shown.
ReadingsArePast == /\ now <= peak
                   /\ \A h \in Handler : pc[h] = "use" => at[h] <= peak

\* A request under verification was fresh when the verification began, and
\* the verification has not exceeded its limit.
VerifiedInTime ==
  \A h \in Handler :
    /\ pc[h] = "use" => genuine[h]
    /\ pc[h] # "idle" /\ genuine[h] =>
         /\ req[h] \in signed
         /\ since[h] <= stamp[req[h]] + NonceTTL
    /\ pc[h] # "idle" => now <= since[h] + VerifyLimit

FiniteSoFar == IsFiniteSet(accepted) /\ IsFiniteSet(entries)

IInv == /\ TypeOK
        /\ EntriesAreAcceptances
        /\ ForgottenIsOld
        /\ ReadingsArePast
        /\ VerifiedInTime
        /\ FiniteSoFar
        /\ CacheBounded

-----------------------------------------------------------------------------
\* Purging takes entries away and adds none.
LEMMA UnexpiredIsSubset ==
  ASSUME NEW time, FiniteSoFar
  PROVE  /\ Unexpired(time) \subseteq entries
         /\ IsFiniteSet(Unexpired(time))
         /\ Cardinality(Unexpired(time)) \in Nat
         /\ Cardinality(Unexpired(time)) <= Cardinality(entries)
<1>1. Unexpired(time) \subseteq entries
  BY DEF Unexpired
<1>2. QED
  BY <1>1, FS_Subset, FS_CardinalityType DEF FiniteSoFar

\* Finish gives the handler's variables values of their types.
LEMMA FinishType ==
  ASSUME TypeOK, NEW h \in Handler, Finish(h)
  PROVE  /\ pc' \in [Handler -> {"idle", "lookup", "use"}]
         /\ req' \in [Handler -> Request \cup {NoRequest}]
         /\ \A g \in Handler : pc'[g] # "idle" => req'[g] \in Request
         /\ genuine' \in [Handler -> BOOLEAN]
         /\ since' \in [Handler -> Nat]
         /\ at' \in [Handler -> Nat]
<1>1. genuine' \in [Handler -> BOOLEAN]
  BY DEF TypeOK, Finish
<1>2. QED
  BY <1>1 DEF TypeOK, Finish

\* The type invariant is inductive.
LEMMA TypeStep == TypeOK /\ [Next]_vars => TypeOK'
<1> SUFFICES ASSUME TypeOK, [Next]_vars PROVE TypeOK'
  OBVIOUS
<1>1. ASSUME NEW r \in Request, NEW skew \in -MaxSkew..MaxSkew, Sign(r, skew)
      PROVE  TypeOK'
  BY <1>1 DEF TypeOK, Sign, clock, handlerVars, cacheVars, history
<1>2. ASSUME NEW x \in Host, SwitchHost(x) PROVE TypeOK'
  BY <1>2 DEF TypeOK, SwitchHost, clock, handlerVars, cacheVars, history
<1>3. ASSUME NEW h \in Handler, NEW r \in Request, NEW g \in BOOLEAN,
             Begin(h, r, g)
      PROVE  TypeOK'
  <2>1. genuine' \in [Handler -> BOOLEAN]
    BY <1>3 DEF TypeOK, Begin
  <2>2. QED
    BY <1>3, <2>1 DEF TypeOK, Begin, clock, hostVars, cacheVars, history
<1>4. ASSUME NEW h \in Handler, VerifyHost(h) PROVE TypeOK'
  BY <1>4 DEF TypeOK, VerifyHost, clock, hostVars, cacheVars, history
<1>5. ASSUME NEW h \in Handler, VerifyHostFails(h) PROVE TypeOK'
  BY <1>5, FinishType DEF TypeOK, VerifyHostFails, clock, hostVars,
     cacheVars, history
<1>6. ASSUME NEW h \in Handler, UseAccepts(h) PROVE TypeOK'
  <2>1. /\ pc[h] = "use" /\ req[h] \in Request /\ at[h] \in Nat
        /\ Finish(h)
    BY <1>6 DEF TypeOK, UseAccepts
  <2>2. /\ entries' \subseteq Request
        /\ expires' \in [Request -> Nat]
        /\ accepted' \subseteq Request
        /\ usedAt' \in [Request -> Nat]
    BY <1>6, <2>1 DEF TypeOK, UseAccepts, Unexpired, Expiry
  <2>3. QED
    BY <1>6, <2>1, <2>2, FinishType DEF TypeOK, UseAccepts, clock, hostVars
<1>7. ASSUME NEW h \in Handler, UseRefuses(h) PROVE TypeOK'
  BY <1>7, FinishType DEF TypeOK, UseRefuses, Unexpired, clock, hostVars,
     history
<1>8. CASE Tick
  BY <1>8 DEF TypeOK, Tick, hostVars, handlerVars, cacheVars, history
<1>9. CASE Restart
  BY <1>9 DEF TypeOK, Restart, hostVars
<1>12. ASSUME NEW time \in 0..MaxTime, SetBack(time) PROVE TypeOK'
  BY <1>12 DEF TypeOK, SetBack, hostVars, handlerVars, cacheVars, history
<1>10. CASE UNCHANGED vars
  BY <1>10 DEF TypeOK, vars, clock, hostVars, handlerVars, cacheVars, history
<1>11. QED
  BY <1>1, <1>2, <1>3, <1>4, <1>5, <1>6, <1>7, <1>8, <1>9, <1>10,
     <1>12 DEF Next, Receive, ReceiveUnsigned

\* In a state of the invariant, an acceptance keeps the cache, its history and
\* its bound in step with each other.
LEMMA AcceptStep ==
  ASSUME IInv, TypeOK', NEW h \in Handler, UseAccepts(h)
  PROVE  EntriesAreAcceptances' /\ ForgottenIsOld' /\ FiniteSoFar'
         /\ CacheBounded'
<1> DEFINE kept == Unexpired(at[h])
<1>1. /\ req[h] \in Request /\ at[h] \in Nat /\ at[h] <= peak /\ peak' = peak
      /\ peak \in Nat
      /\ req[h] \notin kept /\ Cardinality(kept) < MaxRememberedNonce
      /\ entries' = kept \cup {req[h]}
      /\ expires' = [expires EXCEPT ![req[h]] = at[h] + NonceTTL]
      /\ accepted' = accepted \cup {req[h]}
      /\ usedAt' = [usedAt EXCEPT ![req[h]] = at[h]]
  BY DEF IInv, TypeOK, UseAccepts, ReadingsArePast, HasRoom, Expiry, clock
<1>2. kept \subseteq entries /\ IsFiniteSet(kept) /\ Cardinality(kept) \in Nat
  BY UnexpiredIsSubset DEF IInv
<1> HIDE DEF kept
<1>3. EntriesAreAcceptances'
  BY <1>1, <1>2 DEF IInv, TypeOK, EntriesAreAcceptances
<1>4. ForgottenIsOld'
  <2> SUFFICES ASSUME NEW r \in accepted', r \notin entries'
               PROVE  peak >= usedAt'[r] + NonceTTL
    BY <1>1 DEF ForgottenIsOld
  <2>1. r \in accepted /\ r # req[h] /\ r \notin kept /\ usedAt'[r] = usedAt[r]
    BY <1>1 DEF IInv, TypeOK
  <2>2. CASE r \in entries
    <3>1. expires[r] = usedAt[r] + NonceTTL /\ ~(expires[r] > at[h])
      BY <2>1, <2>2 DEF IInv, EntriesAreAcceptances, kept, Unexpired
    <3>2. expires[r] \in Nat /\ usedAt[r] \in Nat
      BY <2>1, <2>2 DEF IInv, TypeOK
    <3>3. QED
      BY <1>1, <2>1, <3>1, <3>2
  <2>3. CASE r \notin entries
    BY <2>1, <2>3 DEF IInv, ForgottenIsOld
  <2>4. QED
    BY <2>2, <2>3
<1>5. FiniteSoFar'
  BY <1>1, <1>2, FS_AddElement DEF IInv, FiniteSoFar
<1>6. CacheBounded'
  <2>1. Cardinality(entries') = Cardinality(kept) + 1
    BY <1>1, <1>2, FS_AddElement
  <2>2. QED
    BY <1>1, <1>2, <2>1 DEF CacheBounded
<1>7. QED
  BY <1>3, <1>4, <1>5, <1>6

\* So does a refusal, which only purges.
LEMMA RefuseStep ==
  ASSUME IInv, TypeOK', NEW h \in Handler, UseRefuses(h)
  PROVE  EntriesAreAcceptances' /\ ForgottenIsOld' /\ FiniteSoFar'
         /\ CacheBounded'
<1> DEFINE kept == Unexpired(at[h])
<1>1. /\ at[h] \in Nat /\ at[h] <= peak /\ peak' = peak /\ peak \in Nat
      /\ entries' = kept /\ expires' = expires /\ accepted' = accepted
      /\ usedAt' = usedAt
  BY DEF IInv, TypeOK, UseRefuses, ReadingsArePast, clock, history
<1>2. /\ kept \subseteq entries /\ IsFiniteSet(kept) /\ Cardinality(kept) \in Nat
      /\ Cardinality(kept) <= Cardinality(entries)
  BY UnexpiredIsSubset DEF IInv
<1> HIDE DEF kept
<1>3. EntriesAreAcceptances'
  BY <1>1, <1>2 DEF IInv, EntriesAreAcceptances
<1>4. ForgottenIsOld'
  <2> SUFFICES ASSUME NEW r \in accepted, r \notin kept
               PROVE  peak >= usedAt[r] + NonceTTL
    BY <1>1 DEF ForgottenIsOld
  <2>1. expires[r] \in Nat /\ usedAt[r] \in Nat
    BY DEF IInv, TypeOK
  <2>2. CASE r \in entries
    <3>1. expires[r] = usedAt[r] + NonceTTL /\ ~(expires[r] > at[h])
      BY <2>2 DEF IInv, EntriesAreAcceptances, kept, Unexpired
    <3>2. QED
      BY <1>1, <2>1, <3>1
  <2>3. CASE r \notin entries
    BY <2>3 DEF IInv, ForgottenIsOld
  <2>4. QED
    BY <2>2, <2>3
<1>5. FiniteSoFar'
  BY <1>1, <1>2 DEF IInv, FiniteSoFar
<1>6. CacheBounded'
  <2>1. Cardinality(entries) \in Nat
    BY FS_CardinalityType DEF IInv, FiniteSoFar
  <2>2. QED
    BY <1>1, <1>2, <2>1 DEF IInv, CacheBounded
<1>7. QED
  BY <1>3, <1>4, <1>5, <1>6

\* When a handler finishes, nothing is claimed about it any more.
LEMMA FinishStep ==
  ASSUME IInv, NEW h \in Handler, Finish(h), UNCHANGED <<clock, hostVars>>
  PROVE  ReadingsArePast' /\ VerifiedInTime'
<1>1. \A g \in Handler :
        \/ pc'[g] = "idle"
        \/ /\ pc'[g] = pc[g] /\ req'[g] = req[g] /\ genuine'[g] = genuine[g]
           /\ since'[g] = since[g] /\ at'[g] = at[g]
  BY DEF IInv, TypeOK, Finish
<1>2. QED
  BY <1>1 DEF IInv, ReadingsArePast, VerifiedInTime, clock, hostVars

-----------------------------------------------------------------------------
LEMMA InitInv == Init => IInv
<1> SUFFICES ASSUME Init PROVE IInv
  OBVIOUS
<1>1. TypeOK
  BY DEF Init, TypeOK
<1>2. FiniteSoFar /\ CacheBounded
  BY FS_EmptySet DEF Init, FiniteSoFar, CacheBounded
<1>3. EntriesAreAcceptances /\ ForgottenIsOld /\ ReadingsArePast
      /\ VerifiedInTime
  BY DEF Init, EntriesAreAcceptances, ForgottenIsOld, ReadingsArePast,
         VerifiedInTime
<1>4. QED
  BY <1>1, <1>2, <1>3 DEF IInv

LEMMA InvStep == IInv /\ [Next]_vars => IInv'
<1> SUFFICES ASSUME IInv, [Next]_vars PROVE IInv'
  OBVIOUS
<1>0. TypeOK'
  BY TypeStep DEF IInv
<1>1. ASSUME NEW r \in Request, NEW skew \in -MaxSkew..MaxSkew, Sign(r, skew)
      PROVE  IInv'
  <2>1. VerifiedInTime'
    <3>1. /\ r \notin signed /\ signed' = signed \cup {r} /\ now' = now
          /\ stamp' = [stamp EXCEPT ![r] = now + skew]
          /\ UNCHANGED <<pc, req, genuine, since>>
      BY <1>1 DEF Sign, clock, handlerVars
    <3>2. \A s \in signed : stamp'[s] = stamp[s]
      BY <3>1 DEF IInv, TypeOK
    <3>3. QED
      BY <3>1, <3>2 DEF IInv, VerifiedInTime
  <2>2. QED
    BY <1>0, <1>1, <2>1 DEF IInv, Sign, EntriesAreAcceptances, ForgottenIsOld,
       ReadingsArePast, FiniteSoFar, CacheBounded, clock, handlerVars,
       cacheVars, history
<1>2. ASSUME NEW x \in Host, SwitchHost(x) PROVE IInv'
  BY <1>0, <1>2 DEF IInv, SwitchHost, EntriesAreAcceptances, ForgottenIsOld,
     ReadingsArePast, VerifiedInTime, FiniteSoFar, CacheBounded, clock,
     handlerVars, cacheVars, history
<1>3. ASSUME NEW h \in Handler, NEW r \in Request, NEW g \in BOOLEAN,
             Begin(h, r, g), g => r \in signed /\ Fresh(r)
      PROVE  IInv'
  <2>1. ReadingsArePast'
    BY <1>3 DEF IInv, TypeOK, Begin, ReadingsArePast, clock
  <2>2. VerifiedInTime'
    <3>1. /\ pc'[h] = "lookup" /\ req'[h] = r /\ genuine'[h] = g
          /\ since'[h] = now /\ now' = now /\ now \in Nat
          /\ stamp' = stamp /\ signed' = signed
      BY <1>3 DEF IInv, TypeOK, Begin, clock, hostVars
    <3>2. g => now <= stamp[r] + NonceTTL
      BY <1>3, <3>1 DEF Fresh, IInv, TypeOK
    <3>3. \A f \in Handler : f # h =>
            /\ pc'[f] = pc[f] /\ req'[f] = req[f] /\ genuine'[f] = genuine[f]
            /\ since'[f] = since[f]
      BY <1>3 DEF IInv, TypeOK, Begin
    <3>4. QED
      BY <1>3, <3>1, <3>2, <3>3 DEF IInv, VerifiedInTime
  <2>3. QED
    BY <1>0, <1>3, <2>1, <2>2 DEF IInv, Begin, EntriesAreAcceptances,
       ForgottenIsOld, FiniteSoFar, CacheBounded, clock, cacheVars, history
<1>4. ASSUME NEW h \in Handler, VerifyHost(h) PROVE IInv'
  <2>1. ReadingsArePast' /\ VerifiedInTime'
    BY <1>4 DEF IInv, TypeOK, VerifyHost, ReadingsArePast, VerifiedInTime,
       clock, hostVars
  <2>2. QED
    BY <1>0, <1>4, <2>1 DEF IInv, VerifyHost, EntriesAreAcceptances,
       ForgottenIsOld, FiniteSoFar, CacheBounded, clock, cacheVars, history
<1>5. ASSUME NEW h \in Handler, VerifyHostFails(h) PROVE IInv'
  <2>1. ReadingsArePast' /\ VerifiedInTime'
    BY <1>5, FinishStep DEF VerifyHostFails
  <2>2. QED
    BY <1>0, <1>5, <2>1 DEF IInv, VerifyHostFails, EntriesAreAcceptances,
       ForgottenIsOld, FiniteSoFar, CacheBounded, clock, cacheVars, history
<1>6. ASSUME NEW h \in Handler, UseAccepts(h) PROVE IInv'
  <2>1. ReadingsArePast' /\ VerifiedInTime'
    BY <1>6, FinishStep DEF UseAccepts
  <2>2. QED
    BY <1>0, <1>6, <2>1, AcceptStep DEF IInv
<1>7. ASSUME NEW h \in Handler, UseRefuses(h) PROVE IInv'
  <2>1. ReadingsArePast' /\ VerifiedInTime'
    BY <1>7, FinishStep DEF UseRefuses
  <2>2. QED
    BY <1>0, <1>7, <2>1, RefuseStep DEF IInv
<1>8. CASE Tick
  <2>1. /\ now' = now + 1 /\ now \in Nat /\ peak \in Nat
        /\ peak' \in Nat /\ peak' >= peak /\ peak' >= now'
        /\ UNCHANGED <<hostVars, handlerVars, cacheVars, history>>
        /\ \A h \in Handler : pc[h] # "idle" => now < since[h] + VerifyLimit
    BY <1>8 DEF IInv, TypeOK, Tick
  <2>2. ForgottenIsOld'
    <3> SUFFICES ASSUME NEW r \in accepted, r \notin entries
                 PROVE  peak' >= usedAt[r] + NonceTTL
      BY <2>1 DEF ForgottenIsOld, cacheVars, history
    <3>1. peak >= usedAt[r] + NonceTTL /\ usedAt[r] \in Nat
      BY DEF IInv, ForgottenIsOld, TypeOK
    <3>2. QED
      BY <2>1, <3>1
  <2>3. ReadingsArePast'
    BY <2>1 DEF IInv, TypeOK, ReadingsArePast, handlerVars
  <2>4. VerifiedInTime'
    BY <2>1 DEF IInv, TypeOK, VerifiedInTime, handlerVars, hostVars
  <2>5. QED
    BY <1>0, <2>1, <2>2, <2>3, <2>4 DEF IInv, EntriesAreAcceptances,
       FiniteSoFar, CacheBounded, cacheVars, history
<1>9. CASE Restart
  <2>1. FiniteSoFar' /\ CacheBounded'
    BY <1>9, FS_EmptySet DEF Restart, FiniteSoFar, CacheBounded
  <2>2. EntriesAreAcceptances' /\ ForgottenIsOld'
    BY <1>9 DEF Restart, EntriesAreAcceptances, ForgottenIsOld
  <2>3. ReadingsArePast'
    <3>1. now' \in Nat /\ peak' = now'
      BY <1>9 DEF IInv, TypeOK, Restart
    <3>2. \A h \in Handler : pc'[h] = "idle"
      BY <1>9 DEF Restart
    <3>3. QED
      BY <3>1, <3>2 DEF ReadingsArePast
  <2>4. VerifiedInTime'
    BY <1>9 DEF Restart, VerifiedInTime
  <2>5. QED
    BY <1>0, <2>1, <2>2, <2>3, <2>4 DEF IInv
<1>12. ASSUME NEW time \in 0..MaxTime, SetBack(time) PROVE IInv'
  <2>1. /\ now' = time /\ time < now /\ now \in Nat /\ time \in Nat
        /\ peak' = peak /\ peak \in Nat /\ now <= peak
        /\ UNCHANGED <<hostVars, handlerVars, cacheVars, history>>
    BY <1>12 DEF IInv, TypeOK, SetBack, ReadingsArePast
  <2>2. ForgottenIsOld'
    BY <2>1 DEF IInv, ForgottenIsOld, cacheVars, history
  <2>3. ReadingsArePast'
    BY <2>1 DEF IInv, TypeOK, ReadingsArePast, handlerVars
  <2>4. VerifiedInTime'
    BY <2>1 DEF IInv, TypeOK, VerifiedInTime, handlerVars, hostVars
  <2>5. QED
    BY <1>0, <2>1, <2>2, <2>3, <2>4 DEF IInv, EntriesAreAcceptances,
       FiniteSoFar, CacheBounded, cacheVars, history
<1>10. CASE UNCHANGED vars
  BY <1>0, <1>10 DEF IInv, vars, clock, EntriesAreAcceptances, ForgottenIsOld,
     ReadingsArePast, VerifiedInTime, FiniteSoFar, CacheBounded, hostVars,
     handlerVars, cacheVars, history
<1>11. QED
  BY <1>1, <1>2, <1>3, <1>4, <1>5, <1>6, <1>7, <1>8, <1>9, <1>10,
     <1>12 DEF Next, Receive, ReceiveUnsigned

\* The invariant holds in every reachable state.
THEOREM AdmissionInvariant == Spec => []IInv
<1>1. Init => IInv
  BY InitInv
<1>2. IInv /\ [Next]_vars => IInv'
  BY InvStep
<1>3. QED
  BY <1>1, <1>2, PTL DEF Spec

\* The variables of the admission checks keep their types.
THEOREM AdmissionTypeCorrect == Spec => []TypeOK
<1>1. IInv => TypeOK
  BY DEF IInv
<1>2. QED
  BY <1>1, AdmissionInvariant, PTL

\* The nonce cache holds accepted requests only, for NonceTTL each.
THEOREM CacheHoldsAcceptances == Spec => []EntriesAreAcceptances
<1>1. IInv => EntriesAreAcceptances
  BY DEF IInv
<1>2. QED
  BY <1>1, AdmissionInvariant, PTL

\* The nonce cache never exceeds config.MaxRememberedNonce.
THEOREM CacheStaysBounded == Spec => []CacheBounded
<1>1. IInv => CacheBounded
  BY DEF IInv
<1>2. QED
  BY <1>1, AdmissionInvariant, PTL

\* Acceptances of one request are NonceTTL apart, for any number of handlers
\* that read the clock before they take the cache's lock.
THEOREM AcceptancesAreSpaced == Spec => ReplaySpacing
<1>1. IInv => \A h \in Handler : UseAccepts(h) /\ req[h] \in accepted
                          => peak >= usedAt[req[h]] + NonceTTL
  <2> SUFFICES ASSUME IInv, NEW h \in Handler, UseAccepts(h),
                      req[h] \in accepted
               PROVE  peak >= usedAt[req[h]] + NonceTTL
    OBVIOUS
  <2>1. /\ pc[h] = "use" /\ req[h] \notin Unexpired(at[h])
        /\ at[h] <= peak /\ at[h] \in Nat /\ peak \in Nat /\ now \in Nat
        /\ expires[req[h]] \in Nat /\ usedAt[req[h]] \in Nat
    BY DEF IInv, TypeOK, UseAccepts, ReadingsArePast
  <2>2. CASE req[h] \in entries
    <3>1. /\ expires[req[h]] = usedAt[req[h]] + NonceTTL
          /\ ~(expires[req[h]] > at[h])
      BY <2>1, <2>2 DEF IInv, EntriesAreAcceptances, Unexpired
    <3>2. QED
      BY <2>1, <3>1
  <2>3. CASE req[h] \notin entries
    BY <2>3 DEF IInv, ForgottenIsOld
  <2>4. QED
    BY <2>2, <2>3
<1>2. QED
  BY <1>1, AdmissionInvariant, PTL DEF ReplaySpacing

\* A request is accepted again only if it was accepted before the clock had
\* passed its timestamp by more than the verification limit.
THEOREM RepeatsNeedEarlyUse == Spec => RepeatNeedsEarlyUse
<1>1. IInv => \A h \in Handler : UseAccepts(h) /\ req[h] \in accepted
                          => \/ usedAt[req[h]] <= stamp[req[h]] + VerifyLimit
                             \/ now < peak
  <2> SUFFICES ASSUME IInv, NEW h \in Handler, UseAccepts(h),
                      req[h] \in accepted
               PROVE  \/ usedAt[req[h]] <= stamp[req[h]] + VerifyLimit
                      \/ now < peak
    OBVIOUS
  <2>1. /\ pc[h] = "use" /\ req[h] \notin Unexpired(at[h])
        /\ at[h] <= peak /\ at[h] \in Nat /\ peak \in Nat /\ now \in Nat
        /\ expires[req[h]] \in Nat /\ usedAt[req[h]] \in Nat
        /\ stamp[req[h]] \in Int /\ since[h] \in Nat
    BY DEF IInv, TypeOK, UseAccepts, ReadingsArePast
  <2>2. /\ since[h] <= stamp[req[h]] + NonceTTL
        /\ now <= since[h] + VerifyLimit
    BY <2>1 DEF IInv, VerifiedInTime
  <2>3. peak >= usedAt[req[h]] + NonceTTL
    <3>1. CASE req[h] \in entries
      <4>1. /\ expires[req[h]] = usedAt[req[h]] + NonceTTL
            /\ ~(expires[req[h]] > at[h])
        BY <2>1, <3>1 DEF IInv, EntriesAreAcceptances, Unexpired
      <4>2. QED
        BY <2>1, <4>1
    <3>2. CASE req[h] \notin entries
      BY <3>2 DEF IInv, ForgottenIsOld
    <3>3. QED
      BY <3>1, <3>2
  <2>4. QED
    BY <2>1, <2>2, <2>3
<1>2. QED
  BY <1>1, AdmissionInvariant, PTL DEF RepeatNeedsEarlyUse

\* Nothing is accepted later than NonceTTL and the verification limit after its
\* timestamp, whether or not a restart has emptied the cache.
THEOREM NothingStaleIsAccepted == Spec => AcceptedWithinWindow
<1>1. IInv => \A h \in Handler : UseAccepts(h) =>
               now <= stamp[req[h]] + NonceTTL + VerifyLimit
  <2> SUFFICES ASSUME IInv, NEW h \in Handler, UseAccepts(h)
               PROVE  now <= stamp[req[h]] + NonceTTL + VerifyLimit
    OBVIOUS
  <2>1. /\ pc[h] = "use" /\ now \in Nat /\ since[h] \in Nat
        /\ stamp[req[h]] \in Int
    BY DEF IInv, TypeOK, UseAccepts
  <2>2. /\ since[h] <= stamp[req[h]] + NonceTTL
        /\ now <= since[h] + VerifyLimit
    BY <2>1 DEF IInv, VerifiedInTime
  <2>3. QED
    BY <2>1, <2>2
<1>2. QED
  BY <1>1, AdmissionInvariant, PTL DEF AcceptedWithinWindow

\* A verified request is refused only because it, or a whole cache of others,
\* was accepted within NonceTTL.
THEOREM RefusalsHaveReasons == Spec => RefusalHasReason
<1>1. IInv => \A h \in Handler : UseRefuses(h) =>
       LET recent == {r \in accepted : usedAt[r] + NonceTTL > at[h]} IN
       req[h] \in recent \/ Cardinality(recent) >= MaxRememberedNonce
  <2> SUFFICES ASSUME IInv, NEW h \in Handler, UseRefuses(h)
               PROVE  LET recent == {r \in accepted : usedAt[r] + NonceTTL > at[h]}
                      IN  req[h] \in recent
                          \/ Cardinality(recent) >= MaxRememberedNonce
    OBVIOUS
  <2> DEFINE recent == {r \in accepted : usedAt[r] + NonceTTL > at[h]}
             kept == Unexpired(at[h])
  <2>1. kept \subseteq recent
    BY DEF IInv, EntriesAreAcceptances, Unexpired
  <2>2. IsFiniteSet(recent)
    BY FS_Subset DEF IInv, FiniteSoFar
  <2>3. /\ Cardinality(kept) <= Cardinality(recent)
        /\ Cardinality(kept) \in Nat /\ Cardinality(recent) \in Nat
    BY <2>1, <2>2, FS_Subset, FS_CardinalityType
  <2>4. req[h] \in kept \/ ~(Cardinality(kept) < MaxRememberedNonce)
    BY DEF UseRefuses, HasRoom
  <2> HIDE DEF recent, kept
  <2>5. req[h] \in recent \/ Cardinality(recent) >= MaxRememberedNonce
    BY <2>1, <2>3, <2>4
  <2>6. QED
    BY <2>5 DEF recent
<1>2. QED
  BY <1>1, AdmissionInvariant, PTL DEF RefusalHasReason
=============================================================================
