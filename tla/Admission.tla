------------------------------ MODULE Admission ------------------------------
(***************************************************************************)
(* How a signed request gets past the bridge's checks: validateFreshness   *)
(* (types.go), verifyHostRequest (server.go), hostPublicKey (platform.go)  *)
(* and nonceCache.use (nonce.go).  Both lease operations share it.         *)
(*                                                                         *)
(* A request is named by its host and nonce.  The network may delay it and *)
(* deliver it any number of times.  Handlers run concurrently and are      *)
(* split where they wait: at the call to the control plane, and at         *)
(* cache.mu, before which the clock has already been read.                 *)
(*                                                                         *)
(* server.now strips the monotonic clock reading (time.Time.UTC), so that  *)
(* freshness and expiry are measured on one and the same wall clock, which *)
(* may be set back at any time.                                            *)
(***************************************************************************)
EXTENDS FiniteSets, Integers

CONSTANTS Host, Nonce, Handler,
          NoRequest,          \* the handler has no request
          NonceTTL,           \* config.NonceTTL: freshness window and lifetime
                              \* of a remembered nonce
          MaxRememberedNonce, \* config.MaxRememberedNonce
          VerifyLimit,        \* how far the clock may advance from the freshness
                              \* check to the use of the nonce
                              \* (config.RequestTimeout)
          MaxSkew,            \* bound: host clock against bridge clock
          MaxTime             \* bound: the clock

Request == Host \X Nonce
HostOf(r) == r[1]

ASSUME AdmissionAssumption ==
  /\ NoRequest \notin Request
  /\ NonceTTL \in Nat \ {0}
  /\ MaxRememberedNonce \in Nat \ {0}
  /\ VerifyLimit \in Nat /\ MaxSkew \in Nat /\ MaxTime \in Nat

VARIABLES now,        \* the bridge's clock
          peak,       \* history: the latest time it has shown to the process
          active,     \* hosts that the control plane reports as active
          signed,     \* requests that hosts have sent
          stamp,      \* the timestamp in a signed request
          pc,         \* handlers: "idle", "lookup" or "use"
          req,        \* the request a handler serves
          genuine,    \* its signature matches the host's key
          since,      \* when it passed the freshness check
          at,         \* the time read for the nonce cache
          entries,    \* keys of nonceCache.entries
          expires,    \* values of nonceCache.entries
          accepted,   \* history: requests accepted since the process started
          usedAt      \* history: the time under which each was last accepted

handlerVars == <<pc, req, genuine, since, at>>
cacheVars == <<entries, expires>>
history == <<accepted, usedAt>>
hostVars == <<active, signed, stamp>>
clock == <<now, peak>>
vars == <<clock, hostVars, handlerVars, cacheVars, history>>

TypeOK == /\ now \in Nat
          /\ peak \in Nat
          /\ active \subseteq Host
          /\ signed \subseteq Request
          /\ stamp \in [Request -> Int]
          /\ pc \in [Handler -> {"idle", "lookup", "use"}]
          /\ req \in [Handler -> Request \cup {NoRequest}]
          /\ \A h \in Handler : pc[h] # "idle" => req[h] \in Request
          /\ genuine \in [Handler -> BOOLEAN]
          /\ since \in [Handler -> Nat]
          /\ at \in [Handler -> Nat]
          /\ entries \subseteq Request
          /\ expires \in [Request -> Nat]
          /\ accepted \subseteq Request
          /\ usedAt \in [Request -> Nat]

Init == /\ now = 0
        /\ peak = 0
        /\ active = Host
        /\ signed = {}
        /\ stamp = [r \in Request |-> 0]
        /\ pc = [h \in Handler |-> "idle"]
        /\ req = [h \in Handler |-> NoRequest]
        /\ genuine = [h \in Handler |-> FALSE]
        /\ since = [h \in Handler |-> 0]
        /\ at = [h \in Handler |-> 0]
        /\ entries = {}
        /\ expires = [r \in Request |-> 0]
        /\ accepted = {}
        /\ usedAt = [r \in Request |-> 0]

-----------------------------------------------------------------------------
(* Hosts, the control plane and the clock. *)

\* A host signs a request under a nonce of its own, once.
Sign(r, skew) == /\ r \notin signed
                 /\ signed' = signed \cup {r}
                 /\ stamp' = [stamp EXCEPT ![r] = now + skew]
                 /\ UNCHANGED <<clock, active, handlerVars, cacheVars, history>>

\* The state of a host changes in the control plane.
SwitchHost(x) == /\ active' = IF x \in active THEN active \ {x}
                              ELSE active \cup {x}
                 /\ UNCHANGED <<clock, signed, stamp, handlerVars, cacheVars,
                                history>>

\* Time passes, but not beyond the limit of a verification under way.
Tick == /\ now < MaxTime
        /\ \A h \in Handler : pc[h] # "idle" => now < since[h] + VerifyLimit
        /\ now' = now + 1
        /\ peak' = IF now' > peak THEN now' ELSE peak
        /\ UNCHANGED <<hostVars, handlerVars, cacheVars, history>>

\* The clock is set back.  Set forward, it advances as in any number of ticks.
SetBack(time) == /\ time < now
                 /\ now' = time
                 /\ UNCHANGED <<peak, hostVars, handlerVars, cacheVars, history>>

-----------------------------------------------------------------------------
(* The handlers. *)

\* A plausible bug: old timestamps are not refused.
FreshUnlessAhead(r) == now - stamp[r] >= -NonceTTL

\* validateFreshness: within the window on either side, both ends included.
Fresh(r) == /\ now - stamp[r] >= -NonceTTL
            /\ now - stamp[r] <= NonceTTL

Begin(h, r, g) == /\ pc[h] = "idle"
                  /\ pc' = [pc EXCEPT ![h] = "lookup"]
                  /\ req' = [req EXCEPT ![h] = r]
                  /\ genuine' = [genuine EXCEPT ![h] = g]
                  /\ since' = [since EXCEPT ![h] = now]
                  /\ UNCHANGED <<clock, hostVars, at, cacheVars, history>>

\* A copy of a signed request arrives and is fresh; others are answered 400.
Receive(h, r) == r \in signed /\ Fresh(r) /\ Begin(h, r, TRUE)

\* A request arrives whose signature is not its host's.
ReceiveUnsigned(h, r) == Begin(h, r, FALSE)

Finish(h) == /\ pc' = [pc EXCEPT ![h] = "idle"]
             /\ req' = [req EXCEPT ![h] = NoRequest]
             /\ genuine' = [genuine EXCEPT ![h] = FALSE]
             /\ since' = [since EXCEPT ![h] = 0]
             /\ at' = [at EXCEPT ![h] = 0]

\* The host is active and the signature matches; server.now is read.
VerifyHost(h) ==
  /\ pc[h] = "lookup"
  /\ HostOf(req[h]) \in active
  /\ genuine[h]
  /\ pc' = [pc EXCEPT ![h] = "use"]
  /\ at' = [at EXCEPT ![h] = now]
  /\ UNCHANGED <<clock, hostVars, req, genuine, since, cacheVars, history>>

\* A plausible bug: the nonce is used up before the request is verified.
VerifyHostFailsLate(h) ==
  /\ pc[h] = "lookup"
  /\ Finish(h)
  /\ entries' = entries \cup {req[h]}
  /\ UNCHANGED <<clock, hostVars, expires, history>>

\* The lookup fails, the host is not active, or the signature is not its own:
\* status 401, and the nonce stays unused.
VerifyHostFails(h) ==
  /\ pc[h] = "lookup"
  /\ Finish(h)
  /\ UNCHANGED <<clock, hostVars, cacheVars, history>>

\* A plausible bug: only a repeated nonce is removed when it has expired.
UnexpiredAll(time) == entries

\* A plausible bug: entries go a unit of time before they expire.
UnexpiredEarly(time) == {r \in entries : expires[r] > time + 1}

\* The entries that a call of use at the given time leaves in the cache.
Unexpired(time) == {r \in entries : expires[r] > time}

\* A plausible bug: the size is compared with > instead of >=.
HasRoomOffByOne(kept) == Cardinality(kept) <= MaxRememberedNonce

HasRoom(kept) == Cardinality(kept) < MaxRememberedNonce

\* A plausible bug: the expiry is computed backwards.
ExpiryBackwards(time) == time - NonceTTL

Expiry(time) == time + NonceTTL

\* nonceCache.use accepts: the handler goes on to the operation.
UseAccepts(h) ==
  LET kept == Unexpired(at[h]) IN
  /\ pc[h] = "use"
  /\ req[h] \notin kept
  /\ HasRoom(kept)
  /\ entries' = kept \cup {req[h]}
  /\ expires' = [expires EXCEPT ![req[h]] = Expiry(at[h])]
  /\ accepted' = accepted \cup {req[h]}
  /\ usedAt' = [usedAt EXCEPT ![req[h]] = at[h]]
  /\ Finish(h)
  /\ UNCHANGED <<clock, hostVars>>

\* nonceCache.use refuses, status 401; expired entries are gone all the same.
UseRefuses(h) ==
  LET kept == Unexpired(at[h]) IN
  /\ pc[h] = "use"
  /\ req[h] \in kept \/ ~HasRoom(kept)
  /\ entries' = kept
  /\ Finish(h)
  /\ UNCHANGED <<clock, hostVars, expires, history>>

\* The process stops and a new one starts: the cache is only in memory.
Restart == /\ pc' = [h \in Handler |-> "idle"]
           /\ req' = [h \in Handler |-> NoRequest]
           /\ genuine' = [h \in Handler |-> FALSE]
           /\ since' = [h \in Handler |-> 0]
           /\ at' = [h \in Handler |-> 0]
           /\ entries' = {}
           /\ expires' = [r \in Request |-> 0]
           /\ accepted' = {}
           /\ usedAt' = [r \in Request |-> 0]
           /\ peak' = now
           /\ UNCHANGED <<now, hostVars>>

Next == \/ \E r \in Request, skew \in -MaxSkew..MaxSkew : Sign(r, skew)
        \/ \E x \in Host : SwitchHost(x)
        \/ \E h \in Handler, r \in Request :
             Receive(h, r) \/ ReceiveUnsigned(h, r)
        \/ \E h \in Handler : \/ VerifyHost(h) \/ VerifyHostFails(h)
                              \/ UseAccepts(h) \/ UseRefuses(h)
        \/ (\E time \in 0..MaxTime : SetBack(time))
        \/ Tick \/ Restart

Spec == Init /\ [][Next]_vars

-----------------------------------------------------------------------------
(* Properties. *)

\* A nonce is remembered only on behalf of a request that was accepted, and
\* for NonceTTL after it: requests that fail to verify, or that are refused
\* because the cache is full, cannot use up the nonce of a request to come.
EntriesAreAcceptances ==
  /\ entries \subseteq accepted
  /\ \A r \in entries : expires[r] = usedAt[r] + NonceTTL

\* nonceCache.entries stays within its limit whatever the handlers do.
CacheBounded == Cardinality(entries) <= MaxRememberedNonce

\* A request is accepted again only when the bridge's clock has shown a time
\* NonceTTL after the last acceptance, although other handlers purge the cache
\* under a later reading than the one it uses itself, and the clock may have
\* been set back in between.
ReplaySpacing ==
  [][\A h \in Handler : UseAccepts(h) /\ req[h] \in accepted
                          => peak >= usedAt[req[h]] + NonceTTL]_vars

\* A request is accepted again only if it was accepted before the bridge's
\* clock had passed its timestamp by more than the verification limit, or if
\* the clock is behind what it has shown before: the freshness window covers
\* all other copies.
RepeatNeedsEarlyUse ==
  [][\A h \in Handler : UseAccepts(h) /\ req[h] \in accepted
                          => \/ usedAt[req[h]] <= stamp[req[h]] + VerifyLimit
                             \/ now < peak]_vars

\* A verified request is refused only for a reason: it was accepted within
\* NonceTTL, or so many others were that the cache is full.  Requests of the
\* past do not keep their place; those accepted before the clock was set back
\* keep it until the clock has caught up.
RefusalHasReason ==
  [][\A h \in Handler : UseRefuses(h) =>
       LET recent == {r \in accepted : usedAt[r] + NonceTTL > at[h]} IN
       req[h] \in recent \/ Cardinality(recent) >= MaxRememberedNonce]_vars

\* A request is accepted only until NonceTTL after its timestamp, give or take
\* the verification: that is all that stands against a copy which arrives when
\* a restart has emptied the cache, or a long lookup has made it late.
AcceptedWithinWindow ==
  [][\A h \in Handler : UseAccepts(h) =>
       now <= stamp[req[h]] + NonceTTL + VerifyLimit]_vars

\* "The bridge [...] rejects stale timestamps and repeated nonces"
\* (README.md:67): the process accepts a nonce once.
RepeatedNonceRejected ==
  [][\A h \in Handler : UseAccepts(h) => req[h] \notin accepted]_vars
=============================================================================
