---------------------------- MODULE BrokerProofs ----------------------------
(***************************************************************************)
(* Broker implements Admission, so that what AdmissionProofs shows of the  *)
(* checks holds with the operations behind them; and what Broker itself    *)
(* guarantees for every WriteTimeout and any number of handlers.           *)
(***************************************************************************)
EXTENDS Broker, AdmissionProofs

\* Every step of a handler is one of Admission's or leaves its state alone.
LEMMA StepsOfAdmission == [BrokerNext]_allVars => [Next]_vars
<1> SUFFICES ASSUME [BrokerNext]_allVars PROVE [Next]_vars
  OBVIOUS
<1>1. ASSUME NEW h \in Handler, NEW r \in Request, Arrive(h, r) PROVE Next
  BY <1>1 DEF Arrive, Next
<1>2. ASSUME NEW h \in Handler, Check(h) \/ Pass(h) PROVE Next
  BY <1>2 DEF Check, Pass, Next
<1>3. ASSUME NEW h \in Handler, Lock(h) \/ Deliver(h) \/ NotDelivered(h)
      PROVE  UNCHANGED vars
  BY <1>3 DEF Lock, Deliver, NotDelivered, Return
<1>4. ASSUME NEW x \in Host, Switch(x) PROVE Next
  BY <1>4 DEF Switch, Next
<1>5. CASE Pause \/ Stop \/ Elsewhere
  BY <1>5 DEF Pause, Stop, Elsewhere, Next
<1>6. CASE UNCHANGED allVars
  BY <1>6 DEF allVars
<1>7. QED
  BY <1>1, <1>2, <1>3, <1>4, <1>5, <1>6 DEF BrokerNext

\* The handlers with their operations implement Admission: nothing that happens
\* behind the checks can undo what the checks guarantee.
THEOREM BrokerImplementsAdmission == BrokerSpec => Spec
<1>1. BrokerInit => Init
  BY DEF BrokerInit
<1>2. QED
  BY <1>1, StepsOfAdmission, PTL DEF BrokerSpec, Spec

-----------------------------------------------------------------------------
(* The time that a host has been inactive. *)

\* A host that is active has not been inactive for any time; a handler is in
\* its checks or behind them, and once its host has been found active, the host
\* has not been inactive for longer than the request has been there.
GoneInv ==
  /\ BrokerTypeOK
  /\ \A x \in active : gone[x] = 0
  /\ \A h \in Handler : stage[h] # "checks" => pc[h] = "idle"
  /\ \A h \in Handler : pc[h] = "use" => gone[HostOf(req[h])] <= age[h]
  /\ \A h \in Handler : stage[h] # "checks" => gone[HostOf(job[h])] <= age[h]

\* Counting up to the limit keeps the order of times.
LEMMA LaterIsMonotone ==
  ASSUME NEW s \in Times, NEW u \in Times, s <= u
  PROVE  /\ Later(s) \in Times /\ Later(u) \in Times
         /\ Later(s) <= Later(u) /\ 0 <= Later(u)
  BY BrokerAssumption DEF Times, Later

LEMMA HostOfRequest == \A r \in Request : HostOf(r) \in Host
  BY DEF Request, HostOf

LEMMA GoneStep ==
  ASSUME GoneInv, TypeOK', [BrokerNext]_allVars
  PROVE  GoneInv'
<1>0. /\ TypeOK
      /\ stage \in [Handler -> {"checks", "waiting", "working"}]
      /\ job \in [Handler -> Request \cup {NoRequest}]
      /\ age \in [Handler -> Times]
      /\ gone \in [Host -> Times]
      /\ \A t \in Times : t \in Int /\ 0 <= t
      /\ 0 \in Times
  BY BrokerAssumption DEF GoneInv, BrokerTypeOK, Times
<1>1. ASSUME NEW h \in Handler, NEW r \in Request, Arrive(h, r) PROVE GoneInv'
  BY <1>0, <1>1 DEF GoneInv, BrokerTypeOK, Arrive, Receive, ReceiveUnsigned, Begin,
     TypeOK, hostVars
<1>2. ASSUME NEW h \in Handler, Check(h) PROVE GoneInv'
  <2>1. CASE VerifyHost(h)
    BY <1>0, <1>2, <2>1, HostOfRequest DEF GoneInv, BrokerTypeOK, Check, VerifyHost,
       TypeOK, hostVars, brokerVars
  <2>2. CASE VerifyHostFails(h)
    BY <1>0, <1>2, <2>2 DEF GoneInv, BrokerTypeOK, Check, VerifyHostFails, Finish,
       TypeOK, hostVars, brokerVars
  <2>3. CASE UseRefuses(h)
    BY <1>0, <1>2, <2>3 DEF GoneInv, BrokerTypeOK, Check, UseRefuses, Finish,
       TypeOK, hostVars, brokerVars
  <2>4. QED
    BY <1>2, <2>1, <2>2, <2>3 DEF Check
<1>3. ASSUME NEW h \in Handler, Pass(h) PROVE GoneInv'
  BY <1>0, <1>3, HostOfRequest DEF GoneInv, BrokerTypeOK, Pass, UseAccepts, Finish,
     TypeOK, hostVars
<1>4. ASSUME NEW h \in Handler, Lock(h) PROVE GoneInv'
  BY <1>0, <1>4 DEF GoneInv, BrokerTypeOK, Lock, vars, hostVars, handlerVars
<1>5. ASSUME NEW h \in Handler, Return(h) PROVE GoneInv'
  BY <1>0, <1>5 DEF GoneInv, BrokerTypeOK, Return, vars, hostVars, handlerVars
<1>6. ASSUME NEW x \in Host, Switch(x) PROVE GoneInv'
  BY <1>0, <1>6, HostOfRequest DEF GoneInv, BrokerTypeOK, Switch, SwitchHost,
     TypeOK, handlerVars
<1>7. CASE Pause
  BY <1>0, <1>7, HostOfRequest, LaterIsMonotone DEF GoneInv, BrokerTypeOK, Pause, Tick,
     TypeOK, hostVars, handlerVars
<1>8. CASE Stop
  BY <1>0, <1>8 DEF GoneInv, BrokerTypeOK, Stop, Restart, hostVars
<1>9. CASE Elsewhere
  BY <1>0, <1>9 DEF GoneInv, BrokerTypeOK, Elsewhere, Sign, SetBack, brokerVars,
     hostVars, handlerVars
<1>10. CASE UNCHANGED allVars
  BY <1>0, <1>10 DEF GoneInv, BrokerTypeOK, allVars, vars, hostVars, handlerVars,
     brokerVars
<1>11. QED
  BY <1>1, <1>2, <1>3, <1>4, <1>5, <1>6, <1>7, <1>8, <1>9, <1>10
     DEF BrokerNext, Deliver, NotDelivered

LEMMA GoneInvariant == BrokerSpec => []GoneInv
<1>1. BrokerInit => GoneInv
  <2>1. BrokerInit => TypeOK
    BY InitInv DEF BrokerInit, IInv
  <2>2. QED
    BY <2>1, BrokerAssumption DEF BrokerInit, Init, GoneInv, BrokerTypeOK, Times
<1>2. GoneInv /\ [BrokerNext]_allVars => GoneInv'
  BY GoneStep, TypeStep, StepsOfAdmission DEF GoneInv, BrokerTypeOK
<1>3. QED
  BY <1>1, <1>2, PTL DEF BrokerSpec

\* Type correctness, and one operation at a time.
THEOREM BrokerTypeCorrect == BrokerSpec => []BrokerTypeOK
<1>1. GoneInv => BrokerTypeOK
  BY DEF GoneInv
<1>2. QED
  BY <1>1, GoneInvariant, PTL

\* A lease reaches a host only if the host was active within WriteTimeout, for
\* any number of handlers that wait for operationMu.
THEOREM DeliveriesAreRecent == BrokerSpec => DeliveredWhileRecentlyActive
<1>1. GoneInv /\ [BrokerNext]_allVars =>
        [\A h \in Handler : Deliver(h) => gone[HostOf(job[h])] <= WriteTimeout]_allVars
  <2> SUFFICES ASSUME GoneInv, NEW h \in Handler, Deliver(h)
               PROVE  gone[HostOf(job[h])] <= WriteTimeout
    OBVIOUS
  <2>1. /\ stage[h] = "working" /\ age[h] <= WriteTimeout
        /\ gone[HostOf(job[h])] <= age[h] /\ job[h] \in Request
    BY DEF GoneInv, BrokerTypeOK, Deliver, Return
  <2>2. age[h] \in Int /\ gone[HostOf(job[h])] \in Int
    BY <2>1, HostOfRequest, BrokerAssumption DEF GoneInv, BrokerTypeOK, Times
  <2>3. QED
    BY <2>1, <2>2, BrokerAssumption
<1>2. QED
  BY <1>1, GoneInvariant, PTL DEF BrokerSpec, DeliveredWhileRecentlyActive
=============================================================================
