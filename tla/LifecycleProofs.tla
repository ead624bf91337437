--------------------------- MODULE LifecycleProofs ---------------------------
(***************************************************************************)
(* Proofs about Lifecycle, for every value of its constants.               *)
(***************************************************************************)
EXTENDS Lifecycle, TLAPS

LEMMA Constants ==
  /\ RenewInterval \in Nat /\ RequestTimeout \in Nat /\ DrainLimit \in Nat
  /\ IssuerTTL \in Nat
  /\ 0 < RequestTimeout /\ RequestTimeout <= RenewInterval
  /\ IssuerTTL > RenewInterval + 3 * RequestTimeout
  /\ IssuerTTL > RenewInterval + 2 * RequestTimeout + DrainLimit
  BY LifecycleAssumption

\* The two parts of TypeOK.
Flags == /\ healthy \in BOOLEAN /\ issuerReady \in BOOLEAN
         /\ pending \in BOOLEAN /\ served \in BOOLEAN /\ vaultUp \in BOOLEAN

Numbers == /\ phase \in {"down", "health", "renew", "listen", "serving",
                          "draining"}
           /\ loop \in {"off", "waiting", "renewing"}
           /\ phase \notin {"serving", "draining"} => loop = "off"
           /\ toTick \in 1..RenewInterval
           /\ spent \in 0..RequestTimeout
           /\ probe \in [Probe -> {"idle", "accepted", "health"}]
           /\ waited \in [Probe -> 0..RequestTimeout]
           /\ drained \in 0..DrainLimit
           /\ age \in 0..IssuerTTL

LEMMA TypeParts == TypeOK <=> Flags /\ Numbers
  BY DEF TypeOK, Flags, Numbers

\* The age up to which a set flag is trusted while the bridge serves.
Longest == RenewInterval + 2 * RequestTimeout

\* A renewal that Vault has served is no older than the call.
CallInv == /\ phase = "renew" /\ served => age <= spent
           /\ loop = "renewing" /\ served => age <= spent
           /\ phase = "listen" => age <= RequestTimeout

\* A renewal starts with its tick, so the ticker tells how long it has taken.
TickerInv ==
  phase = "serving" =>
    /\ loop # "off"
    /\ pending => toTick = RenewInterval
    /\ loop = "renewing" /\ ~pending => toTick + spent = RenewInterval
    /\ loop = "renewing" /\ pending => spent = RenewInterval

\* What a set flag says about the age of the token.
FlagInv ==
  /\ phase = "serving" /\ issuerReady =>
       /\ loop = "renewing" => age <= RenewInterval + RequestTimeout + spent
       /\ loop = "waiting" /\ pending => age <= RenewInterval + RequestTimeout
       /\ loop = "waiting" /\ ~pending =>
            age + toTick <= RenewInterval + RequestTimeout
  /\ phase = "draining" /\ issuerReady => age <= Longest + drained

\* A probe that has found the flag set, and what it says when it is answered.
ProbeInv ==
  \A p \in Probe :
    /\ probe[p] # "idle" => phase \in {"serving", "draining"}
    /\ probe[p] = "health" =>
         \/ age <= Longest + waited[p]
         \/ phase = "draining" /\ age <= Longest + drained

IInv == Flags /\ Numbers /\ CallInv /\ TickerInv /\ FlagInv /\ ProbeInv

-----------------------------------------------------------------------------
(* The invariant. *)

\* The end of the process restores the initial state, but for Vault and the
\* token.
LEMMA ExitInv == ASSUME IInv, Exit PROVE IInv'
  <1> USE Constants
  <1>1. Flags'
    BY DEF IInv, Flags, Exit
  <1>2. Numbers'
    BY DEF IInv, Numbers, Exit
  <1>3. CallInv' /\ TickerInv' /\ FlagInv'
    BY DEF IInv, Flags, Numbers, Exit, CallInv, TickerInv, FlagInv
  <1>4. ProbeInv'
    BY DEF IInv, Flags, Numbers, Exit, ProbeInv
  <1> QED BY <1>1, <1>2, <1>3, <1>4 DEF IInv

\* The start and the steps of the renewal loop, which leave the probes alone.
LEMMA ProcessInv ==
  ASSUME IInv,
         \/ \E newAge \in {age, 0} : Start(newAge)
         \/ InitialHealth \/ InitialRenewal \/ Listen \/ Signal
         \/ LoopStep \/ ServeRenewal \/ SwitchVault
  PROVE  IInv'
  <1> USE Constants
  <1>1. CASE \E newAge \in {age, 0} : Start(newAge)
    <2>1. Flags'
      BY <1>1 DEF IInv, Flags, Start, loopVars, callVars, probeVars
    <2>2. Numbers'
      BY <1>1 DEF IInv, Numbers, Start, loopVars, callVars, probeVars
    <2>3. CallInv'
      BY <1>1 DEF IInv, Flags, Numbers, CallInv, TickerInv, Start, loopVars,
                  callVars, probeVars
    <2>4. TickerInv'
      BY <1>1 DEF IInv, Flags, Numbers, TickerInv, Start, loopVars, callVars,
                  probeVars
    <2>5. FlagInv'
      BY <1>1 DEF IInv, Flags, Numbers, CallInv, TickerInv, FlagInv, Longest,
                  Start, loopVars, callVars, probeVars
    <2>6. ProbeInv'
      BY <1>1 DEF IInv, Flags, Numbers, FlagInv, ProbeInv, Longest, Start,
                  loopVars, callVars, probeVars
    <2> QED BY <2>1, <2>2, <2>3, <2>4, <2>5, <2>6 DEF IInv
  <1>2. CASE InitialHealth
    <2>1. Flags'
      BY <1>2 DEF IInv, Flags, InitialHealth, loopVars, callVars, probeVars
    <2>2. Numbers'
      BY <1>2 DEF IInv, Numbers, InitialHealth, loopVars, callVars, probeVars
    <2>3. CallInv'
      BY <1>2 DEF IInv, Flags, Numbers, CallInv, TickerInv, InitialHealth,
                  loopVars, callVars, probeVars
    <2>4. TickerInv'
      BY <1>2 DEF IInv, Flags, Numbers, TickerInv, InitialHealth, loopVars,
                  callVars, probeVars
    <2>5. FlagInv'
      BY <1>2 DEF IInv, Flags, Numbers, CallInv, TickerInv, FlagInv, Longest,
                  InitialHealth, loopVars, callVars, probeVars
    <2>6. ProbeInv'
      BY <1>2 DEF IInv, Flags, Numbers, FlagInv, ProbeInv, Longest,
                  InitialHealth, loopVars, callVars, probeVars
    <2> QED BY <2>1, <2>2, <2>3, <2>4, <2>5, <2>6 DEF IInv
  <1>3. CASE InitialRenewal
    <2>1. Flags'
      BY <1>3 DEF IInv, Flags, InitialRenewal, loopVars, callVars, probeVars
    <2>2. Numbers'
      BY <1>3 DEF IInv, Numbers, InitialRenewal, loopVars, callVars, probeVars
    <2>3. CallInv'
      BY <1>3 DEF IInv, Flags, Numbers, CallInv, TickerInv, InitialRenewal,
                  loopVars, callVars, probeVars
    <2>4. TickerInv'
      BY <1>3 DEF IInv, Flags, Numbers, TickerInv, InitialRenewal, loopVars,
                  callVars, probeVars
    <2>5. FlagInv'
      BY <1>3 DEF IInv, Flags, Numbers, CallInv, TickerInv, FlagInv, Longest,
                  InitialRenewal, loopVars, callVars, probeVars
    <2>6. ProbeInv'
      BY <1>3 DEF IInv, Flags, Numbers, FlagInv, ProbeInv, Longest,
                  InitialRenewal, loopVars, callVars, probeVars
    <2> QED BY <2>1, <2>2, <2>3, <2>4, <2>5, <2>6 DEF IInv
  <1>4. CASE Listen
    <2>1. Flags'
      BY <1>4 DEF IInv, Flags, Listen, loopVars, callVars, probeVars
    <2>2. Numbers'
      BY <1>4 DEF IInv, Numbers, Listen, loopVars, callVars, probeVars
    <2>3. CallInv'
      BY <1>4 DEF IInv, Flags, Numbers, CallInv, TickerInv, Listen, loopVars,
                  callVars, probeVars
    <2>4. TickerInv'
      BY <1>4 DEF IInv, Flags, Numbers, TickerInv, Listen, loopVars, callVars,
                  probeVars
    <2>5. FlagInv'
      BY <1>4 DEF IInv, Flags, Numbers, CallInv, TickerInv, FlagInv, Longest,
                  Listen, loopVars, callVars, probeVars
    <2>6. ProbeInv'
      BY <1>4 DEF IInv, Flags, Numbers, FlagInv, ProbeInv, Longest, Listen,
                  loopVars, callVars, probeVars
    <2> QED BY <2>1, <2>2, <2>3, <2>4, <2>5, <2>6 DEF IInv
  <1>5. CASE Signal
    <2>1. Flags'
      BY <1>5 DEF IInv, Flags, Signal, loopVars, callVars, probeVars
    <2>2. Numbers'
      BY <1>5 DEF IInv, Numbers, Signal, loopVars, callVars, probeVars
    <2>3. CallInv'
      BY <1>5 DEF IInv, Flags, Numbers, CallInv, TickerInv, Signal, loopVars,
                  callVars, probeVars
    <2>4. TickerInv'
      BY <1>5 DEF IInv, Flags, Numbers, TickerInv, Signal, loopVars, callVars,
                  probeVars
    <2>5. FlagInv'
      BY <1>5 DEF IInv, Flags, Numbers, CallInv, TickerInv, FlagInv, Longest,
                  Signal, loopVars, callVars, probeVars
    <2>6. ProbeInv'
      BY <1>5 DEF IInv, Flags, Numbers, FlagInv, ProbeInv, Longest, Signal,
                  loopVars, callVars, probeVars
    <2> QED BY <2>1, <2>2, <2>3, <2>4, <2>5, <2>6 DEF IInv
  <1>6. CASE BeginRenewal
    <2>1. Flags'
      BY <1>6 DEF IInv, Flags, BeginRenewal, loopVars, callVars, probeVars
    <2>2. Numbers'
      BY <1>6 DEF IInv, Numbers, BeginRenewal, loopVars, callVars, probeVars
    <2>3. CallInv'
      BY <1>6 DEF IInv, Flags, Numbers, CallInv, TickerInv, BeginRenewal,
                  loopVars, callVars, probeVars
    <2>4. TickerInv'
      BY <1>6 DEF IInv, Flags, Numbers, TickerInv, BeginRenewal, loopVars,
                  callVars, probeVars
    <2>5. FlagInv'
      BY <1>6 DEF IInv, Flags, Numbers, CallInv, TickerInv, FlagInv, Longest,
                  BeginRenewal, loopVars, callVars, probeVars
    <2>6. ProbeInv'
      BY <1>6 DEF IInv, Flags, Numbers, FlagInv, ProbeInv, Longest,
                  BeginRenewal, loopVars, callVars, probeVars
    <2> QED BY <2>1, <2>2, <2>3, <2>4, <2>5, <2>6 DEF IInv
  <1>7. CASE RenewalSucceeds
    <2>1. Flags'
      BY <1>7 DEF IInv, Flags, RenewalSucceeds, loopVars, callVars, probeVars
    <2>2. Numbers'
      BY <1>7 DEF IInv, Numbers, RenewalSucceeds, loopVars, callVars, probeVars
    <2>3. CallInv'
      BY <1>7 DEF IInv, Flags, Numbers, CallInv, TickerInv, RenewalSucceeds,
                  loopVars, callVars, probeVars
    <2>4. TickerInv'
      BY <1>7 DEF IInv, Flags, Numbers, TickerInv, RenewalSucceeds, loopVars,
                  callVars, probeVars
    <2>5. FlagInv'
      BY <1>7 DEF IInv, Flags, Numbers, CallInv, TickerInv, FlagInv, Longest,
                  RenewalSucceeds, loopVars, callVars, probeVars
    <2>6. ProbeInv'
      BY <1>7 DEF IInv, Flags, Numbers, FlagInv, ProbeInv, Longest,
                  RenewalSucceeds, loopVars, callVars, probeVars
    <2> QED BY <2>1, <2>2, <2>3, <2>4, <2>5, <2>6 DEF IInv
  <1>8. CASE RenewalFails
    <2>1. Flags'
      BY <1>8 DEF IInv, Flags, RenewalFails, Expired, loopVars, callVars,
                  probeVars
    <2>2. Numbers'
      BY <1>8 DEF IInv, Numbers, RenewalFails, Expired, loopVars, callVars,
                  probeVars
    <2>3. CallInv'
      BY <1>8 DEF IInv, Flags, Numbers, CallInv, TickerInv, RenewalFails,
                  Expired, loopVars, callVars, probeVars
    <2>4. TickerInv'
      BY <1>8 DEF IInv, Flags, Numbers, TickerInv, RenewalFails, Expired,
                  loopVars, callVars, probeVars
    <2>5. FlagInv'
      BY <1>8 DEF IInv, Flags, Numbers, CallInv, TickerInv, FlagInv, Longest,
                  RenewalFails, Expired, loopVars, callVars, probeVars
    <2>6. ProbeInv'
      BY <1>8 DEF IInv, Flags, Numbers, FlagInv, ProbeInv, Longest,
                  RenewalFails, Expired, loopVars, callVars, probeVars
    <2> QED BY <2>1, <2>2, <2>3, <2>4, <2>5, <2>6 DEF IInv
  <1>9. CASE LoopEnds
    <2>1. Flags'
      BY <1>9 DEF IInv, Flags, LoopEnds, loopVars, callVars, probeVars
    <2>2. Numbers'
      BY <1>9 DEF IInv, Numbers, LoopEnds, loopVars, callVars, probeVars
    <2>3. CallInv'
      BY <1>9 DEF IInv, Flags, Numbers, CallInv, TickerInv, LoopEnds, loopVars,
                  callVars, probeVars
    <2>4. TickerInv'
      BY <1>9 DEF IInv, Flags, Numbers, TickerInv, LoopEnds, loopVars,
                  callVars, probeVars
    <2>5. FlagInv'
      BY <1>9 DEF IInv, Flags, Numbers, CallInv, TickerInv, FlagInv, Longest,
                  LoopEnds, loopVars, callVars, probeVars
    <2>6. ProbeInv'
      BY <1>9 DEF IInv, Flags, Numbers, FlagInv, ProbeInv, Longest, LoopEnds,
                  loopVars, callVars, probeVars
    <2> QED BY <2>1, <2>2, <2>3, <2>4, <2>5, <2>6 DEF IInv
  <1>10. CASE ServeRenewal
    <2>1. Flags'
      BY <1>10 DEF IInv, Flags, ServeRenewal, Expired, loopVars, callVars,
                   probeVars
    <2>2. Numbers'
      BY <1>10 DEF IInv, Numbers, ServeRenewal, Expired, loopVars, callVars,
                   probeVars
    <2>3. CallInv'
      BY <1>10 DEF IInv, Flags, Numbers, CallInv, TickerInv, ServeRenewal,
                   Expired, loopVars, callVars, probeVars
    <2>4. TickerInv'
      BY <1>10 DEF IInv, Flags, Numbers, TickerInv, ServeRenewal, Expired,
                   loopVars, callVars, probeVars
    <2>5. FlagInv'
      BY <1>10 DEF IInv, Flags, Numbers, CallInv, TickerInv, FlagInv, Longest,
                   ServeRenewal, Expired, loopVars, callVars, probeVars
    <2>6. ProbeInv'
      BY <1>10 DEF IInv, Flags, Numbers, FlagInv, ProbeInv, Longest,
                   ServeRenewal, Expired, loopVars, callVars, probeVars
    <2> QED BY <2>1, <2>2, <2>3, <2>4, <2>5, <2>6 DEF IInv
  <1>11. CASE SwitchVault
    <2>1. Flags'
      BY <1>11 DEF IInv, Flags, SwitchVault, loopVars, callVars, probeVars
    <2>2. Numbers'
      BY <1>11 DEF IInv, Numbers, SwitchVault, loopVars, callVars, probeVars
    <2>3. CallInv'
      BY <1>11 DEF IInv, Flags, Numbers, CallInv, TickerInv, SwitchVault,
                   loopVars, callVars, probeVars
    <2>4. TickerInv'
      BY <1>11 DEF IInv, Flags, Numbers, TickerInv, SwitchVault, loopVars,
                   callVars, probeVars
    <2>5. FlagInv'
      BY <1>11 DEF IInv, Flags, Numbers, CallInv, TickerInv, FlagInv, Longest,
                   SwitchVault, loopVars, callVars, probeVars
    <2>6. ProbeInv'
      BY <1>11 DEF IInv, Flags, Numbers, FlagInv, ProbeInv, Longest,
                   SwitchVault, loopVars, callVars, probeVars
    <2> QED BY <2>1, <2>2, <2>3, <2>4, <2>5, <2>6 DEF IInv
  <1> QED BY <1>1, <1>2, <1>3, <1>4, <1>5, <1>6, <1>7, <1>8, <1>9, <1>10,
            <1>11 DEF LoopStep

\* The steps of a probe change nothing else.
LEMMA ProbeStepInv ==
  ASSUME IInv, NEW p \in Probe, Accept(p) \/ ProbeStep(p)
  PROVE  IInv'
  <1> USE Constants
  <1> DEFINE Others == <<phase, healthy, issuerReady, loop, toTick, pending,
                         spent, served, drained, vaultUp, age>>
  <1>1. UNCHANGED Others
    BY DEF Accept, ProbeStep, ReadReady, ReadNotReady, AnswerReady,
           AnswerNotReady, Answer, loopVars, callVars
  <1>2. Flags' /\ Numbers' /\ ProbeInv'
    <2>1. CASE Accept(p)
      BY <2>1 DEF IInv, Flags, Numbers, ProbeInv, Accept, loopVars, callVars
    <2>2. CASE ReadReady(p)
      <3>1. age <= Longest \/ (phase = "draining" /\ age <= Longest + drained)
        BY <2>2 DEF IInv, Flags, Numbers, TickerInv, FlagInv, ProbeInv,
                    Longest,
                    ReadReady
      <3> QED BY <2>2, <3>1 DEF IInv, Flags, Numbers, ProbeInv, Longest,
                                ReadReady,
                                loopVars, callVars
    <2>3. CASE Answer(p)
      BY <2>3 DEF IInv, Flags, Numbers, ProbeInv, Answer, loopVars, callVars
    <2> QED BY <2>1, <2>2, <2>3 DEF ProbeStep, ReadNotReady, AnswerReady,
                                    AnswerNotReady
  <1>3. CallInv' /\ TickerInv' /\ FlagInv'
    BY <1>1 DEF IInv, CallInv, TickerInv, FlagInv, Longest
  <1> QED BY <1>2, <1>3 DEF IInv

\* Time makes everything older, and nothing is overdue.
LEMMA TickInv == ASSUME IInv, Tick PROVE IInv'
  <1> USE Constants DEF Calling, Expired
  <1>1. Flags'
    BY DEF IInv, Flags, Tick, Due
  <1>2. Numbers'
    BY DEF IInv, Numbers, Tick, Due
  <1>3. age' <= age + 1
    BY DEF IInv, Flags, Numbers, Tick
  <1>4. CallInv'
    BY <1>3 DEF IInv, Flags, Numbers, CallInv, Tick, Due
  <1>5. TickerInv'
    <2> SUFFICES ASSUME phase = "serving" PROVE TickerInv'
      BY DEF TickerInv, Tick
    <2>1. phase' = phase /\ loop' = loop /\ loop # "off"
      BY DEF IInv, TickerInv, Tick
    <2>2. CASE toTick = 1
      <3>1. pending' = TRUE /\ toTick' = RenewInterval
        BY <2>1, <2>2 DEF Tick
      <3>2. CASE loop = "renewing"
        BY <2>1, <2>2, <3>1, <3>2 DEF IInv, Numbers, TickerInv, Tick, Due
      <3> QED BY <2>1, <3>1, <3>2 DEF TickerInv
    <2>3. CASE toTick # 1
      <3>1. pending' = pending /\ toTick' = toTick - 1
        BY <2>1, <2>3 DEF IInv, Flags, Tick
      <3>2. ~pending
        BY <2>1, <2>3 DEF IInv, Numbers, TickerInv, Tick, Due
      <3>3. CASE loop = "renewing"
        BY <2>1, <3>1, <3>2, <3>3 DEF IInv, Numbers, TickerInv, Tick, Due
      <3> QED BY <2>1, <3>1, <3>2, <3>3 DEF TickerInv
    <2> QED BY <2>2, <2>3
  <1>6. FlagInv'
    BY <1>3 DEF IInv, Flags, Numbers, TickerInv, FlagInv, Longest, Tick, Due
  <1>7. ProbeInv'
    BY <1>3 DEF IInv, Flags, Numbers, ProbeInv, Longest, Tick, Due
  <1> QED BY <1>1, <1>2, <1>4, <1>5, <1>6, <1>7 DEF IInv

THEOREM Inductive == Spec => []IInv
  <1>1. Init => IInv
    <2> SUFFICES ASSUME Init PROVE IInv
      OBVIOUS
    <2>1. Flags
      BY DEF Init, Flags
    <2>2. Numbers
      BY Constants DEF Init, Numbers
    <2>3. CallInv /\ TickerInv /\ FlagInv /\ ProbeInv
      BY DEF Init, CallInv, TickerInv, FlagInv, ProbeInv
    <2> QED BY <2>1, <2>2, <2>3 DEF IInv
  <1>2. IInv /\ [Next]_vars => IInv'
    <2> SUFFICES ASSUME IInv, [Next]_vars PROVE IInv'
      OBVIOUS
    <2>1. CASE \/ InitialRenewalFails \/ ListenFails \/ Shutdown \/ ServeFails
               \/ Crash
      BY <2>1, ExitInv DEF InitialRenewalFails, ListenFails, Shutdown,
                           ServeFails, Crash
    <2>2. CASE \/ \E newAge \in {age, 0} : Start(newAge)
               \/ InitialHealth \/ InitialRenewal \/ Listen \/ Signal
               \/ LoopStep \/ ServeRenewal \/ SwitchVault
      BY <2>2, ProcessInv
    <2>3. CASE \E p \in Probe : Accept(p) \/ ProbeStep(p)
      BY <2>3, ProbeStepInv
    <2>4. CASE Tick
      BY <2>4, TickInv
    <2>5. CASE UNCHANGED vars
      BY <2>5 DEF IInv, Flags, Numbers, CallInv, TickerInv, FlagInv, ProbeInv,
                  Longest,
                  vars, loopVars, callVars, probeVars
    <2> QED BY <2>1, <2>2, <2>3, <2>4, <2>5 DEF Next
  <1> QED BY <1>1, <1>2, PTL DEF Spec

-----------------------------------------------------------------------------
(* The theorems. *)

\* Every variable of the lifecycle keeps its type: no call outlasts its
\* timeout, and the renewal loop runs only while the process serves or drains.
THEOREM TypeCorrect == Spec => []TypeOK
  <1>1. IInv => TypeOK
    BY TypeParts DEF IInv
  <1> QED BY <1>1, Inductive, PTL

\* While the bridge serves, issuerReady is set only if Vault renewed the token
\* within one interval and two timeouts.
THEOREM ReadyFlagIsRecent == Spec => []FlagIsRecent
  <1>1. IInv => FlagIsRecent
    BY Constants DEF IInv, Numbers, TickerInv, FlagInv, FlagIsRecent
  <1> QED BY <1>1, Inductive, PTL

\* /readyz is not answered ready with an expired issuing token, if the token's
\* time to live covers an interval, two timeouts and what a probe or the
\* draining may take.
THEOREM ReadyAnswersAreTrue == Spec => ReadyMeansIssuerAlive
  <1>1. IInv /\ [Next]_vars => \A p \in Probe : AnswerReady(p) => ~Expired
    BY Constants DEF IInv, Numbers, ProbeInv, Longest, AnswerReady,
                               Expired
  <1>2. IInv /\ [Next]_vars =>
          [\A p \in Probe : AnswerReady(p) => ~Expired]_vars
    BY <1>1
  <1> QED BY <1>2, Inductive, PTL DEF Spec, ReadyMeansIssuerAlive
=============================================================================
