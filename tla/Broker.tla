------------------------------- MODULE Broker -------------------------------
(***************************************************************************)
(* The way of a request through the whole of handleIssue: the checks of    *)
(* Admission, the wait for operationMu, the lease operation and the answer *)
(* (server.go).  The operation itself is in LeaseService; what counts here *)
(* is that it comes later than the checks, by any length of time, while    *)
(* the control plane goes on changing.                                     *)
(*                                                                         *)
(* http.Server.WriteTimeout ends a connection that long after a request    *)
(* has been read: a later answer reaches nobody.  The timeout and the      *)
(* history of the hosts are measured by the monotonic clock.               *)
(***************************************************************************)
EXTENDS Admission

CONSTANT WriteTimeout    \* RunServe: httpServer.WriteTimeout

ASSUME BrokerAssumption == WriteTimeout \in Nat

VARIABLES stage,     \* handlers: "checks", "waiting" or "working"
          job,       \* the request whose operation a handler is to carry out
          age,       \* time since the handler's request was read
          gone       \* history: time since a host was last active

brokerVars == <<stage, job, age, gone>>
allVars == <<vars, brokerVars>>

\* Times are counted up to the first one beyond the timeout.
Times == 0..WriteTimeout + 1
Later(time) == IF time > WriteTimeout THEN time ELSE time + 1

BrokerTypeOK == /\ TypeOK
                /\ stage \in [Handler -> {"checks", "waiting", "working"}]
                /\ job \in [Handler -> Request \cup {NoRequest}]
                /\ age \in [Handler -> Times]
                /\ gone \in [Host -> Times]
                /\ \A h \in Handler : stage[h] # "checks" => job[h] \in Request
                /\ \A g, h \in Handler :
                     stage[g] = "working" /\ stage[h] = "working" => g = h

BrokerInit == /\ Init
              /\ stage = [h \in Handler |-> "checks"]
              /\ job = [h \in Handler |-> NoRequest]
              /\ age = [h \in Handler |-> 0]
              /\ gone = [x \in Host |-> 0]

-----------------------------------------------------------------------------
(* Steps of Admission, and what else happens in them. *)

Arrive(h, r) == /\ stage[h] = "checks"
                /\ Receive(h, r) \/ ReceiveUnsigned(h, r)
                /\ age' = [age EXCEPT ![h] = 0]
                /\ UNCHANGED <<stage, job, gone>>

Check(h) == /\ VerifyHost(h) \/ VerifyHostFails(h) \/ UseRefuses(h)
            /\ UNCHANGED brokerVars

\* The checks are passed; the handler comes to operationMu.Lock.
Pass(h) == /\ UseAccepts(h)
           /\ stage' = [stage EXCEPT ![h] = "waiting"]
           /\ job' = [job EXCEPT ![h] = req[h]]
           /\ UNCHANGED <<age, gone>>

\* A host is inactive from the moment it is switched off.
Switch(x) == /\ SwitchHost(x)
             /\ gone' = [gone EXCEPT ![x] = 0]
             /\ UNCHANGED <<stage, job, age>>

Pause == /\ Tick
         /\ age' = [h \in Handler |-> Later(age[h])]
         /\ gone' = [x \in Host |-> IF x \in active THEN 0 ELSE Later(gone[x])]
         /\ UNCHANGED <<stage, job>>

Stop == /\ Restart
        /\ stage' = [h \in Handler |-> "checks"]
        /\ job' = [h \in Handler |-> NoRequest]
        /\ age' = [h \in Handler |-> 0]
        /\ UNCHANGED gone

Elsewhere == /\ \/ \E r \in Request, skew \in -MaxSkew..MaxSkew : Sign(r, skew)
                \/ \E time \in 0..MaxTime : SetBack(time)
             /\ UNCHANGED brokerVars

-----------------------------------------------------------------------------
(* The operation. *)

\* A plausible bug: each handler has a lock of its own.
LockOwn(h) == /\ stage[h] = "waiting"
              /\ stage' = [stage EXCEPT ![h] = "working"]
              /\ UNCHANGED <<vars, job, age, gone>>

Lock(h) == /\ stage[h] = "waiting"
           /\ \A g \in Handler : stage[g] # "working"
           /\ stage' = [stage EXCEPT ![h] = "working"]
           /\ UNCHANGED <<vars, job, age, gone>>

Return(h) == /\ stage[h] = "working"
             /\ stage' = [stage EXCEPT ![h] = "checks"]
             /\ job' = [job EXCEPT ![h] = NoRequest]
             /\ age' = [age EXCEPT ![h] = 0]
             /\ UNCHANGED <<vars, gone>>

\* A plausible bug: the server has no WriteTimeout.
DeliverAnyTime(h) == Return(h)

\* The answer reaches the host.
Deliver(h) == age[h] <= WriteTimeout /\ Return(h)

\* The operation fails, or its answer is lost or too late.
NotDelivered(h) == Return(h)

BrokerNext == \/ \E h \in Handler, r \in Request : Arrive(h, r)
              \/ \E h \in Handler : \/ Check(h) \/ Pass(h)
                                    \/ Lock(h) \/ Deliver(h) \/ NotDelivered(h)
              \/ \E x \in Host : Switch(x)
              \/ Pause \/ Stop \/ Elsewhere

BrokerSpec == BrokerInit /\ [][BrokerNext]_allVars

-----------------------------------------------------------------------------
(* Properties. *)

\* A lease reaches a host only if the control plane had the host as active at
\* some time within WriteTimeout before: however long its request waited for
\* operationMu or for Vault, and whenever the host was deactivated meanwhile.
\* The deadline of the connection is all that bounds the delay; the lookup is
\* not repeated.
DeliveredWhileRecentlyActive ==
  [][\A h \in Handler : Deliver(h) => gone[HostOf(job[h])] <= WriteTimeout]_allVars
=============================================================================
