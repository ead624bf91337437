------------------------------ MODULE Lifecycle ------------------------------
(***************************************************************************)
(* The process of the bridge and the token it issues leases with: RunServe, *)
(* renewalLoop and handleReady (server.go), renew and healthy (vault.go).  *)
(*                                                                         *)
(* Vault honours the issuing token for IssuerTTL after it last served a    *)
(* renewal; age is the time since then.  Time is what the timeouts measure *)
(* and passes in units.  The program's own steps take no time, so that a   *)
(* tick of the renewal ticker is taken up at once; calls to Vault take as  *)
(* long as their timeout allows.  A renewal that Vault serves after it was *)
(* given up could only make the token younger, and is left out.            *)
(***************************************************************************)
EXTENDS Naturals

CONSTANTS Probe,          \* requests for /readyz
          RenewInterval,  \* config.RenewInterval
          RequestTimeout, \* config.RequestTimeout
          DrainLimit,     \* the five seconds given to Shutdown
          IssuerTTL       \* how long Vault honours the token when renewed

\* Config.Validate demands the first two of the relations.  The operator has
\* to see to the others when the issuing token is created.
ASSUME LifecycleAssumption ==
  /\ RenewInterval \in Nat /\ RequestTimeout \in Nat \ {0}
  /\ RequestTimeout <= RenewInterval
  /\ DrainLimit \in Nat /\ IssuerTTL \in Nat
  /\ IssuerTTL > RenewInterval + 3 * RequestTimeout
  /\ IssuerTTL > RenewInterval + 2 * RequestTimeout + DrainLimit

VARIABLES phase,       \* how far RunServe has come
          healthy,     \* the result of the health check at the start
          issuerReady, \* server.issuerReady
          loop,        \* renewalLoop: "off", "waiting" or "renewing"
          toTick,      \* time until the ticker fires
          pending,     \* a tick waits in ticker.C
          spent,       \* time spent by the context of the start or renewal
          served,      \* Vault has served the renewal under way
          probe,       \* probes: "idle", "accepted" or "health"
          waited,      \* time spent by the health check of each probe
          drained,     \* time spent by Shutdown
          vaultUp,     \* Vault is reachable, unsealed and answers in time
          age          \* age of the issuing token, IssuerTTL when expired

loopVars == <<issuerReady, loop, toTick, pending>>
callVars == <<spent, served>>
probeVars == <<probe, waited>>
vars == <<phase, healthy, loopVars, callVars, probeVars, drained, vaultUp, age>>

TypeOK == /\ phase \in {"down", "health", "renew", "listen", "serving",
                        "draining"}
          /\ healthy \in BOOLEAN
          /\ issuerReady \in BOOLEAN
          /\ loop \in {"off", "waiting", "renewing"}
          /\ phase \notin {"serving", "draining"} => loop = "off"
          /\ toTick \in 1..RenewInterval
          /\ pending \in BOOLEAN
          /\ spent \in 0..RequestTimeout
          /\ served \in BOOLEAN
          /\ probe \in [Probe -> {"idle", "accepted", "health"}]
          /\ waited \in [Probe -> 0..RequestTimeout]
          /\ drained \in 0..DrainLimit
          /\ vaultUp \in BOOLEAN
          /\ age \in 0..IssuerTTL

Init == /\ phase = "down"
        /\ healthy = FALSE
        /\ issuerReady = FALSE
        /\ loop = "off"
        /\ toTick = RenewInterval
        /\ pending = FALSE
        /\ spent = 0
        /\ served = FALSE
        /\ probe = [p \in Probe |-> "idle"]
        /\ waited = [p \in Probe |-> 0]
        /\ drained = 0
        /\ vaultUp \in BOOLEAN
        /\ age = 0

Expired == age = IssuerTTL

-----------------------------------------------------------------------------
(* The start. *)

\* The clients and the server are built, or the process has not begun.  The
\* token is the one of the last process or a new one.
Start(newAge) == /\ phase = "down"
                 /\ newAge \in {age, 0}
                 /\ age' = newAge
                 /\ phase' = "health"
                 /\ issuerReady' = TRUE
                 /\ spent' = 0
                 /\ UNCHANGED <<healthy, loop, toTick, pending, served,
                                probeVars, drained, vaultUp>>

\* The health check ends.  The renewal follows in either case, under the same
\* context and so with the time that is left.
InitialHealth == /\ phase = "health"
                 /\ phase' = "renew"
                 /\ healthy' = vaultUp
                 /\ served' = FALSE
                 /\ UNCHANGED <<loopVars, spent, probeVars, drained, vaultUp,
                                age>>

\* The process ends, and with it all of its goroutines.
Exit == /\ phase' = "down"
        /\ issuerReady' = FALSE
        /\ loop' = "off"
        /\ toTick' = RenewInterval
        /\ pending' = FALSE
        /\ spent' = 0
        /\ served' = FALSE
        /\ healthy' = FALSE
        /\ probe' = [p \in Probe |-> "idle"]
        /\ waited' = [p \in Probe |-> 0]
        /\ drained' = 0
        /\ UNCHANGED <<vaultUp, age>>

\* A plausible bug: the bridge starts although the renewal failed.
InitialRenewalUnchecked ==
  /\ phase = "renew"
  /\ healthy
  /\ phase' = "listen"
  /\ UNCHANGED <<healthy, loopVars, callVars, probeVars, drained, vaultUp, age>>

\* Vault was healthy and renewed the token.
InitialRenewal ==
  /\ phase = "renew"
  /\ served
  /\ healthy
  /\ phase' = "listen"
  /\ UNCHANGED <<healthy, loopVars, callVars, probeVars, drained, vaultUp, age>>

\* One of the two calls failed: exit code 1.
InitialRenewalFails == /\ phase = "renew"
                       /\ \/ ~healthy
                          \/ ~vaultUp \/ Expired \/ spent = RequestTimeout
                       /\ Exit

Listen == /\ phase = "listen"
          /\ phase' = "serving"
          /\ loop' = "waiting"
          /\ toTick' = RenewInterval
          /\ pending' = FALSE
          /\ UNCHANGED <<healthy, issuerReady, callVars, probeVars, drained,
                         vaultUp, age>>

\* The address cannot be bound.
ListenFails == phase = "listen" /\ Exit

-----------------------------------------------------------------------------
(* The end. *)

\* An interrupt or SIGTERM cancels runContext.
Signal == /\ phase = "serving"
          /\ phase' = "draining"
          /\ UNCHANGED <<healthy, loopVars, callVars, probeVars, drained,
                         vaultUp, age>>

\* Shutdown returns when no request is left or its time is over.
Shutdown == /\ phase = "draining"
            /\ \/ \A p \in Probe : probe[p] = "idle"
               \/ drained = DrainLimit
            /\ Exit

\* Serve returns an error: no draining.
ServeFails == phase = "serving" /\ Exit

Crash == phase # "down" /\ Exit

-----------------------------------------------------------------------------
(* The renewal loop. *)

\* The loop takes a tick.  When the context is done as well, select takes
\* either of the two.
BeginRenewal == /\ loop = "waiting"
                /\ pending
                /\ loop' = "renewing"
                /\ pending' = FALSE
                /\ spent' = 0
                /\ served' = FALSE
                /\ UNCHANGED <<phase, healthy, issuerReady, toTick, probeVars,
                               drained, vaultUp, age>>

\* Vault serves the renewal under way, at the start or in the loop.
ServeRenewal == /\ phase = "renew" \/ (phase = "serving" /\ loop = "renewing")
                /\ vaultUp
                /\ ~Expired
                /\ ~served
                /\ served' = TRUE
                /\ age' = 0
                /\ UNCHANGED <<phase, healthy, loopVars, spent, probeVars,
                               drained, vaultUp>>

RenewalSucceeds == /\ loop = "renewing"
                   /\ served
                   /\ loop' = "waiting"
                   /\ issuerReady' = TRUE
                   /\ UNCHANGED <<phase, healthy, toTick, pending, callVars,
                                  probeVars, drained, vaultUp, age>>

\* A plausible bug: the loop ends with the first error.
RenewalFailsForGood ==
  /\ loop = "renewing"
  /\ ~vaultUp \/ Expired \/ phase = "draining"
  /\ loop' = "off"
  /\ issuerReady' = FALSE
  /\ UNCHANGED <<phase, healthy, toTick, pending, callVars, probeVars,
                 drained, vaultUp, age>>

\* A plausible bug: the failure is logged and not stored.
RenewalFailsUnnoticed ==
  /\ loop = "renewing"
  /\ ~vaultUp \/ Expired \/ phase = "draining"
  /\ loop' = "waiting"
  /\ UNCHANGED <<phase, healthy, issuerReady, toTick, pending, callVars,
                 probeVars, drained, vaultUp, age>>

\* The call fails, Vault refuses the token, or the context is cancelled; the
\* renewal may nevertheless have been served.
RenewalFails ==
  /\ loop = "renewing"
  /\ ~vaultUp \/ Expired \/ phase = "draining"
  /\ loop' = "waiting"
  /\ issuerReady' = FALSE
  /\ UNCHANGED <<phase, healthy, toTick, pending, callVars, probeVars,
                 drained, vaultUp, age>>

LoopEnds == /\ phase = "draining"
            /\ loop = "waiting"
            /\ loop' = "off"
            /\ UNCHANGED <<phase, healthy, issuerReady, toTick, pending,
                           callVars, probeVars, drained, vaultUp, age>>

-----------------------------------------------------------------------------
(* Readiness probes. *)

Accept(p) == /\ phase = "serving"
             /\ probe[p] = "idle"
             /\ probe' = [probe EXCEPT ![p] = "accepted"]
             /\ UNCHANGED <<phase, healthy, loopVars, callVars, waited, drained,
                            vaultUp, age>>

\* handleReady reads the flag, and asks Vault only when it is set.
ReadReady(p) == /\ probe[p] = "accepted"
                /\ issuerReady
                /\ probe' = [probe EXCEPT ![p] = "health"]
                /\ waited' = [waited EXCEPT ![p] = 0]
                /\ UNCHANGED <<phase, healthy, loopVars, callVars, drained,
                               vaultUp, age>>

Answer(p) == /\ probe' = [probe EXCEPT ![p] = "idle"]
             /\ waited' = [waited EXCEPT ![p] = 0]
             /\ UNCHANGED <<phase, healthy, loopVars, callVars, drained,
                            vaultUp, age>>

\* Status 503.
ReadNotReady(p) == probe[p] = "accepted" /\ ~issuerReady /\ Answer(p)

\* Vault says that it is initialized and not sealed: status 200.
AnswerReady(p) == probe[p] = "health" /\ vaultUp /\ Answer(p)

\* The health check fails, or its context ends: status 503.
AnswerNotReady(p) == probe[p] = "health" /\ Answer(p)

-----------------------------------------------------------------------------
(* Vault and time. *)

SwitchVault == /\ vaultUp' = ~vaultUp
               /\ UNCHANGED <<phase, healthy, loopVars, callVars, probeVars,
                              drained, age>>

\* A call is under way in the context that spent belongs to.
Calling == phase \in {"health", "renew"} \/ loop = "renewing"

\* A plausible bug: only the health checks of probes have a timeout.
DueWithoutTimeout ==
  \/ phase = "listen"
  \/ phase = "serving" /\ loop = "waiting" /\ pending
  \/ phase = "draining" /\ drained = DrainLimit
  \/ \E p \in Probe : probe[p] = "health" /\ waited[p] = RequestTimeout

\* What has to happen before time passes on.
Due == \/ phase = "listen"
       \/ Calling /\ spent = RequestTimeout
       \/ phase = "serving" /\ loop = "waiting" /\ pending
       \/ phase = "draining" /\ drained = DrainLimit
       \/ \E p \in Probe : probe[p] = "health" /\ waited[p] = RequestTimeout

Tick ==
  /\ ~Due
  /\ age' = IF Expired THEN age ELSE age + 1
  /\ spent' = IF Calling THEN spent + 1 ELSE spent
  /\ IF loop = "off" THEN UNCHANGED <<toTick, pending>>
     ELSE /\ toTick' = IF toTick = 1 THEN RenewInterval ELSE toTick - 1
          /\ pending' = (pending \/ toTick = 1)
  /\ drained' = IF phase = "draining" THEN drained + 1 ELSE drained
  /\ waited' = [p \in Probe |-> IF probe[p] = "health" THEN waited[p] + 1
                                ELSE waited[p]]
  /\ UNCHANGED <<phase, healthy, issuerReady, loop, served, probe, vaultUp>>

LoopStep == \/ BeginRenewal \/ RenewalSucceeds \/ RenewalFails \/ LoopEnds

ProbeStep(p) == \/ ReadReady(p) \/ ReadNotReady(p)
                \/ AnswerReady(p) \/ AnswerNotReady(p)

Next == \/ \E newAge \in {age, 0} : Start(newAge)
        \/ InitialHealth \/ InitialRenewal \/ InitialRenewalFails
        \/ Listen \/ ListenFails
        \/ Signal \/ Shutdown \/ ServeFails \/ Crash
        \/ LoopStep \/ ServeRenewal
        \/ \E p \in Probe : Accept(p) \/ ProbeStep(p)
        \/ SwitchVault \/ Tick

Spec == Init /\ [][Next]_vars

\* Time passes, goroutines run, and a Vault that is up serves its calls.
FairSpec == /\ Spec
            /\ WF_vars(Tick)
            /\ WF_vars(LoopStep)
            /\ WF_vars(ServeRenewal)
            /\ \A p \in Probe : WF_vars(ProbeStep(p))

-----------------------------------------------------------------------------
(* Properties. *)

\* While the bridge serves, a set flag says that Vault renewed the token within
\* one interval and two timeouts: one for the call that renewed it, which may
\* have been the one at the start, and one for a call that is about to fail.
FlagIsRecent ==
  phase = "serving" /\ issuerReady => age <= RenewInterval + 2 * RequestTimeout

\* /readyz answers ready only while Vault honours the issuing token, although
\* the flag it read may have become false since, the last renewal may be one
\* interval old, another renewal may be about to fail, and the process may be
\* on its way out.
ReadyMeansIssuerAlive ==
  [][\A p \in Probe : AnswerReady(p) => ~Expired]_vars

\* Failed renewals are made good: a Vault that is up while the token has time
\* left for one more attempt makes the bridge ready again, unless Vault goes
\* away or the process stops before (SECURITY-MODEL.md:64, "until a later
\* renewal succeeds").
RenewalRecovers ==
  (phase = "serving" /\ vaultUp
     /\ age + RenewInterval + RequestTimeout < IssuerTTL)
    ~> (issuerReady \/ ~vaultUp \/ phase # "serving")
=============================================================================
