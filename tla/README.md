# A TLA+ model of the Vault secrets bridge

The bridge (`internal/broker`) hands response-wrapped Vault tokens to hosts. A
host signs a request for a volume; the bridge checks the request, revokes the
lease it has on record for that host and volume, asks Vault for a new token,
records the token's accessor in a state file and returns the token encrypted.
This directory models that program, checks the model with TLC and proves its
main properties with TLAPS.

## The system

| Part | Source | State | Operations |
| --- | --- | --- | --- |
| Lease state store | `state.go` | map of accessors, its file, its lock `store.mu` | `loadStateStore`, `accessor`, `set`, `remove`, `count` |
| Vault client | `vault.go`, `platform.go` | issuer token, idle connections | `issue`, `revoke`, `renew`, `healthy`, `do`, `close` |
| Lease operations | `server.go` | `operationMu` | `handleIssue`, `handleRevoke` |
| Request admission | `server.go`, `types.go`, `nonce.go`, `platform.go` | nonce cache, its lock | `validate`, `verifyHostRequest`, `hostPublicKey`, `use` |
| Readiness and lifecycle | `server.go` | `issuerReady`, process, listener | `RunServe`, `renewalLoop`, `handleReady`, `handleHealth` |
| Record envelope | `envelope.go` | none | `encryptLeaseRecord` |
| Configuration | `config.go` | none after start | `ParseConfig`, `readSecretFile`, `Validate` |
| Audit planner | `internal/model` | none | `Parse`, `BuildPlan` |
| Strict JSON reader | `internal/strictjson` | none | `Parse` |
| Command line | `internal/cli`, `cmd` | none | `Run` |
| Safety scanner | `internal/safety` | none | scans of the repository at test time |

Every request runs in a goroutine of its own. It first passes the admission
checks, where it waits for the control plane and for `cache.mu`; then it waits
for `operationMu`, and under it calls Vault and the state store. `store.mu` is
taken inside `operationMu` and also by `handleReady`. The renewal loop is a
goroutine that shares `issuerReady` and the Vault client with the handlers.

What is hard here: calls to Vault that time out and are served later; a process
that stops between the effect in Vault and the record on disk; a machine that
loses power between rename and disk; requests delivered twice, late and by
hosts whose clocks differ, on a clock that may be set back; clock readings and
answers of the control plane that are used after a wait; names that resolve to
another address than the one that was checked; a token file that is replaced
while it is read, and a token that is cleared while calls read it. The hazards
with their lines are listed in `PROJECT.json`.

What makes each part correct: the store's memory, its file and what survives a
failure agree; a usable lease is always on record, one at a time; a revocation
that was confirmed is effective; every request is answered; a nonce stands for
at most one acceptance within its lifetime, and only accepted requests occupy
the nonce cache; a lease is delivered only to a host that was active a short
time before; credentials stay on the private network or inside TLS; the program
starts only with the settings it was given; a document is accepted exactly if it
is one strict document; and the exit code tells the truth about the output.

## Modules

- `DurableMap` is the promise of the store: a map with atomic updates, where an
  update may be lost by a power loss until the file system has settled.
- `LeaseStore` is `state.go`. `leases` is the map in memory; `file`, `temp` and
  `durable` are the state file, the temporary file and what a power loss would
  leave. `Set` and `Remove` change the map and start a call; `CreateTemp`,
  `WriteTemp`, `SyncTemp` and `RenameTemp` are the steps of `persistLocked`;
  `PersistFails` is an error at any of them with the removal of the temporary
  file and the restoration by the caller. `pc` is not `"free"` while `store.mu`
  is held. `LoadStateStore` is a start; it needs a file that is not torn and
  not longer than the limit. The content of a file is the map it encodes;
  `MaxLoadable` is the number of entries that fit into 4 MiB.
- `Vault` is the external server with the outcomes of the client's `issue` and
  `revoke`. A call that the client gives up stays in `lateCreate` or
  `lateRevoke`; Vault may serve it at any later time or never.
- `LeaseService` is `handleIssue` and `handleRevoke` after admission. It extends
  `Vault` and uses the store through `DurableMap` (`SetState` is `Store!Put`,
  `RemoveState` is `Store!Delete`). A handler is split at every call that can
  fail; each error path of the code is an action. `pc` names the call that comes
  next: `revoke`, `issue`, `encrypt`, `set`, `cleanup`, `respond`, `remove`.
  The unlock is deferred in the code, so an answer and the unlock are one step.
  `Crash` turns the call under way into a late call and loses all handlers.
- `LeaseLedger` is the promise to the operator: leases of one host and volume
  are delivered one at a time.
- `Admission` is the freshness check, the lookup of the host, the outcome of the
  signature check and the nonce cache. A request is a pair of host and nonce,
  which is what the key of the cache is a digest of. `Receive` is the freshness
  check; `VerifyHost` is the end of the lookup, where the clock is read;
  `UseAccepts` and `UseRefuses` are the two results of `nonceCache.use`.
  `SetBack` sets the clock back. `accepted`, `usedAt` and `peak`, the latest time
  that the process has seen, are history for the properties.
- `Broker` composes `Admission` with the rest of a handler: an accepted request
  waits for `operationMu`, its operation is carried out, and the answer is
  delivered unless `WriteTimeout` has passed. Each of its steps is one of
  `Admission` with what it changes in addition, or leaves `Admission` alone. The
  steps inside the operation are those of `LeaseService`; here they are the time
  between `Lock` and `Deliver` or `NotDelivered`. `age` and `gone` are counted by
  the monotonic clock and only up to the first value beyond the timeout.
- `Lifecycle` is the process: `RunServe` from the health check to `Shutdown`, the
  renewal loop with its ticker, and `handleReady`, split where it waits for
  Vault. `phase` is how far `RunServe` has come; `spent`, `waited` and `drained`
  are the times used up of the contexts of a renewal, of a probe's health check
  and of `Shutdown`; `toTick` and `pending` are the ticker and its channel of
  length one. `age` is the time since Vault last served a renewal. `Tick` lets
  time pass unless something is due (`Due`): a context that has ended, a tick
  that the loop takes up, the end of the draining. `Exit` is every way in which
  the process ends, `vault.close` included.
- `Validation` is `issueRequest.validate` and `revokeRequest.validate` without time
  stamps and nonces. A path is the sequence of its parts, and `PathBytes` is its
  length. The loop over the policies is a loop of the model
  (`CheckPolicy`), with its variable `previous`.
- `Planner` is `internal/model`: `Parse`, `ParseLease` and `ValidTransition` accept
  a request, `Transition` and `BlockedSteps` are what `BuildPlan` makes of it.
  `Execute` is an executor, which the repository does not have: it carries out
  any accepted plan that describes the lease as it is.
- `StrictJSON` is `strictjson.Parse`. The document comes token by token, as the
  library's decoder hands it out; `open` is the stack of the calls of
  `parseToken`, with the keys that each has seen. `Admissible` says what a
  document must be without a stack, by counting brackets.
- `Command` is `cli.Run`: usage, dispatch, input, output and exit code, where every
  write may fail before or in the middle of its text.
- `Config` is `ParseConfig` with `readSecretFile`, split at each file system call
  (`LstatFile`, `OpenFile`, `StatFile`, the reads `ReadSome` up to `ReadEnds` or
  `ReadFails`) while `ReplaceFile` puts something else at the path and `ResizeFile`
  writes to or truncates the opened file, and `Config.Validate`. A setting is chosen when the
  code first looks at it, which admits the same outcomes and leaves far fewer
  states.
- `Upstream` is `secureHTTPClient`, `privateDialContext`, `vaultClient.do` and
  `close`. A call reads the token (`Begin`), takes an idle connection (`Reuse`) or
  resolves the host and tries its addresses (`Lookup`, `Dial`, `PassOver`), and
  sends. Meanwhile the DNS changes its answer and `close` overwrites the token:
  `ZeroBytes`, `DropToken` and `CloseIdle` interleave with the calls. That race is
  modelled by what a reader may find, the token or a mixture with zero bytes.
- `Main` is `main.go`: either the command line or the bridge, each with its input.
- `MCLeaseService`, `MCAdmission`, `MCBroker` and `MCMain` add the symmetry sets and
  the values of constants for TLC.
- `LeaseStoreProofs`, `LeaseServiceProofs`, `AdmissionProofs`, `BrokerProofs`,
  `LifecycleProofs`, `MainProofs`, `PlannerProofs` and `ValidationProofs` hold the
  theorems.

`Broker` extends `Admission`; `LeaseService` extends `Vault` and instantiates
`DurableMap` and `LeaseLedger`; `LeaseStore` instantiates `DurableMap`; `Main`
extends `Command`, which extends `StrictJSON`, and `Upstream`, which extends
`Config`.

Names that begin like an action and are introduced by "A plausible bug" are not
used by any specification. They are the mutations that show that a property can
fail: `PROJECT.json` says which property fails when which definition is replaced.

## Runs

| Run | Checks | Bounds |
| --- | --- | --- |
| `store` | `TypeOK`, `ReadersSeeFile`, `StateFileReloads`, `ImplementsDurableMap` | 2 keys, 2 accessors; the state space is finite without further bounds |
| `store_limit` | `StateFileReloads`, violated | as above, room for 1 entry |
| `leases` | `TypeOK`, `UsableLeaseIsRecorded`, `NoUsableLeaseAtCreate`, `RevokedMeansUnusable`, `ImplementsLedger` | 2 handlers, 2 keys, 3 tokens, 1 counted fault |
| `lease_faults` | `OrphansHaveCauses`, `EveryRequestAnswered` | 2 handlers, 1 key, 2 tokens, 2 counted faults |
| `power_loss` | `NoUsableLeaseAtCreate`, violated | 1 handler, 1 key, 2 tokens, 1 power loss |
| `admission` | `TypeOK`, `EntriesAreAcceptances`, `CacheBounded`, `ReplaySpacing`, `RepeatNeedsEarlyUse`, `RefusalHasReason`, `AcceptedWithinWindow` | 2 handlers, 2 requests, room for 1 nonce, lifetime 1, verification 1, clock up to 3 |
| `admission_replay` | `RepeatedNonceRejected`, violated | 2 handlers, 2 requests, room for 1 nonce, lifetime 2, no verification delay, clock up to 5 |
| `broker` | `BrokerTypeOK`, `DeliveredWhileRecentlyActive` | 2 handlers, 1 request, times as in `admission`, `WriteTimeout` 2 |
| `main` | `MainTypeOK`, `VerdictFitsDocument`, `ExitCodeIsTrue`, `StdinUntouched`, `TokenFileReadToItsEnd`, `StartsAsAsked`, `CredentialsStayPrivate`, `TokenSentWhole` | documents of 9 tokens with 2 keys, depth 3; 1 byte of input and token; durations around their limits; paths of at most 3 parts (`MaxPathParts`); 2 addresses, 2 calls |
| `readiness` | `TypeOK`, `FlagIsRecent`, `ReadyMeansIssuerAlive`, `RenewalRecovers` | 2 probes, interval 3, timeout 2, draining 2, token lifetime 10 |
| `validation` | `TypeOK`, `VerdictIsRight`, `AcceptedStaysInside` | at most 2 policies of 4, 3 of them allowed; paths of at most 2 parts and 4 bytes, from names of 1 and 2 bytes; inputs one longer |
| `planner` | `TypeOK`, `PlansApplyOnce`, `TokensBalance`, `AlwaysRevocable` | generations up to 4, 2 renewals |

Why the bounds are enough to be interesting. Two handlers are the fewest that
compete for `operationMu` and for `cache.mu`. Three tokens allow a lease, its
replacement and one that escaped; in `lease_faults` two tokens can both escape,
each by a fault of its own. The counted faults are the ones that can leave a
token behind: a create without an answer, a clean-up without confirmation, and a
crash. Failures of revocation, of encryption and of the store, late revocations
and expiry are not counted and happen without limit; requests also arrive
without limit. A cache for one nonce with two requests makes the cache full, and
a clock of three units with a lifetime of one lets a nonce be forgotten and used
again, also after the clock was set back and has caught up; the clock may be set
back any number of times. In `broker` a handler can wait longer than
`WriteTimeout`. In `main` nine tokens are enough for an object with two keys inside
another, for equal keys in one object and in two, for a key repeated after an
inner object, for a value one level too deep and for a second document; sizes
go one beyond what the readers ask for; two addresses, one of
them private, and two calls let one call use the connection that another has
made under a different answer of the DNS. In `readiness` the lifetime of the
token is the smallest that the assumption of `Lifecycle` admits, so every delay
has to add up for the property to be close to failing. `validation` and
`planner` enumerate values below, at and above each limit of the code; in
`planner` the largest 64-bit number is 4. These two and `main` end (a verdict, a
revoked lease, an exit), so the deadlock check is off there. Symmetry is used in
the safety runs only.

What the violated properties show (details under `findings` in `PROJECT.json`):

- `store_limit`: the store writes state files that the next start refuses, once
  the map is larger than 4 MiB.
- `power_loss`: the directory is not synchronized after the rename. After a power
  loss a delivered lease may be off the record, and a replacement does not
  revoke it.
- `admission_replay`: a nonce is forgotten a fixed time after its use, but its
  request is fresh until a fixed time after its timestamp. When the host's clock
  is ahead, a second copy is accepted in between. What does hold is
  `RepeatNeedsEarlyUse`.

## Fairness

`FairSpec` of `LeaseService` assumes weak fairness for every handler inside the
critical section: calls to Vault end by the client's timeout
(`secureHTTPClient`), file system calls return. It assumes strong fairness for
taking `operationMu`, since a `sync.Mutex` goes over to first-in-first-out when
a waiter starves. Nothing is assumed about Vault, about new requests, or about
restarts. The deadlock check of TLC is on in all runs but `validation`, `planner`
and `main`.

`FairSpec` of `Lifecycle` assumes that time passes, that goroutines run, and that
a Vault that is up serves the renewal under way. `vaultUp` means that Vault
answers in time; whatever else it may do is Vault being down for that long.

## Proofs

Every property of a passing run that is not a liveness property is a theorem.
The theorems hold for every value of the constants, under the assumptions that
the modules state: the special values are not members of the sets, bounds are
natural numbers, and the set of keys is finite. Beyond that, `Lifecycle` assumes
enough lifetime of the issuer's token, and `Config` that durations are integers
and that the shortest token and wrapping times are positive (`config.go:156-158`).

Loops over sequences need induction over data, and the library's induction rules
take an operator as a parameter, which the provers cannot instantiate. The proofs
use the least element of a set of natural numbers instead (`LeastNatural`): the
first length at which a claim fails, the longest common part of two paths. A
recursive function is introduced by a CHOOSE over its equation, so its value is
known once a witness for the equation is given.

- `LeaseStoreProofs`. The invariant adds to `ReadersSeeFile` that the file is
  never torn, that memory is ahead of the file in the caller's key only
  (`OneKeyAhead`, needed for the restoration after an error), and that the
  temporary file holds the map, synchronized, when it is renamed (`TempReady`).
  From it follow the invariants of run `store` and the refinement of
  `DurableMap`: the rename is the update, everything before it is invisible.
  `StateFileAlwaysReloads` has the hypothesis that all keys fit into the limit;
  run `store_limit` shows that it is needed.
- `LeaseServiceProofs`. `UsableLeaseIsRecorded` is not inductive. The invariant
  adds mutual exclusion and, per handler, what has been established at its next
  call (`Established`): before a revocation the accessor is the recorded one,
  from then until the recording nothing is usable for the key, and at the
  response the accessor is on record and has never been delivered. Two facts
  carry the argument: a step without a delivery can only take usable leases
  away (`UsableShrinks`), and a new token is never a delivered one
  (`MintIsQuiet`). The refinement of `LeaseLedger` maps `usable` to the
  delivered live tokens.
  `OrphansHaveCauses` compares the cardinalities of two changing sets with a
  counter. `EscapeInv` adds what a handler knows of the tokens (`Held`): the one it
  has created belongs to its key, the one it has revoked is not live, and when it
  is about to create or to record, the token on record is not live. Then each step
  either adds nothing to the orphans and the pending creates (`TallyKept`), adds
  one together with a fault (`TallyCounted`), or is Vault serving a pending create,
  which is one pending create less for one orphan more.
- `AdmissionProofs`. The invariant says that for a request the cache has forgotten
  the process has seen a time `NonceTTL` after its use (`ForgottenIsOld`), that a
  clock reading waiting for the lock is not later than the latest time seen, and
  that a request under verification was fresh when it began. `ReplaySpacing`
  compares the latest time seen at the acceptance, not the reading, with the
  earlier use: a handler may well use a reading that is older than a purge, and
  the clock may have been set back.
- `BrokerProofs`. Every step of `Broker` is a step of `Admission` or leaves it
  unchanged (`BrokerImplementsAdmission`), so that the theorems above hold of the
  composition. `GoneInv` carries the rest: a host whose request is beyond the
  checks has not been inactive for longer than the request is old, since it was
  active at the lookup. The deadline bounds the age at the delivery.
- `LifecycleProofs`. How old the token may be depends on what the loop is doing,
  so the invariant bounds `age` in each situation: by the time left on the ticker
  while the loop waits (`FlagInv`), by the time spent while it renews, and by the
  time a probe has waited since it read the flag (`ProbeInv`). `TickerInv` links
  the ticker to the renewal that it started. The assumption on `IssuerTTL` is
  what an operator has to observe: more than `RenewInterval` + 2 `RequestTimeout`
  plus the larger of `RequestTimeout` and the five seconds of `Shutdown`. The
  program cannot check it.
- `PlannerProofs`. The invariant is that every lease an operation was carried out
  on lies strictly before the present one, in the order of generation, renewal
  count and state (`Before`). `TransitionGoesOn` shows that `ValidTransition`
  and `Transition` advance in that order without overflow.
- `MainProofs`. For the calls (`ClientInv`): every idle connection, every
  connection in use and every message sent leads to an acceptable address, and a
  call that has passed the header check carries the token or none.
  `CredentialsStayPrivate` alone is not inductive, since a message goes to
  wherever an old connection leads. For the command line (`RunInv`): the exit
  code, what is on stdout and the verdict of the reader at each point of `Run`.
  For the token file (`TokenInv`): what has been established about the opened
  file at each stage, and that the reading ended at its end. For the settings (`SettingsInv`): what has been validated is
  what the bridge starts with. `PathsPart` shows that two paths have a longest
  common beginning, which is what `Rel` chooses, and `NotOutsideIsBelow` that a
  relative path that does not begin with a parent leads strictly below the root.
  For the reader: the type of the stack, with its bound `MaxDepth`, and
  `DocumentInv`, which ties the stack to the tokens: there are as many calls of
  `parseToken` under way as the brackets say, and each has seen exactly the keys
  of its own object (`KeysAt`). `KeysGrow` and `FittingGrows` say what one more
  token does to both; with them `VerdictAlwaysFits` holds for documents of any
  length, which the bound `MaxTokens` only cuts off for TLC.
- `ValidationProofs`. The loop invariant says that the policies before `next` are
  allowed, well-formed and differ from their predecessors. `NeighboursDecide` shows that
  a list that increases from neighbour to neighbour increases for all pairs, and
  `IncreasingCardinality` that it has no repetition, so the loop and
  `sort.StringsAreSorted` together decide `CanonicalPolicies`
  (`LoopDecidesCanonical`). `CleanKeepsOrdinary` gives the value of the recursive
  function behind `Clean` on a path of ordinary names.

Only model-checked: `RenewalRecovers` and `EveryRequestAnswered`, since liveness
under fairness is out of the prover's reach.

## Abstractions

- Payloads, policies, keys and signatures: a signature matches or does not,
  encryption succeeds or fails. JSON is read and written as the map it encodes.
- Temporary files left by a crash are not counted; no later call reads them.
- One clock: `server.now` strips the monotonic reading, so freshness and expiry
  use the wall clock. It may be set back at any time; set forward, it advances
  as in several ticks. `VerifyLimit` stands for `RequestTimeout`, which bounds the
  lookup, and is how far the clock may advance during a verification; time spent
  between the clock reading and the lock is included in it, and a clock that is
  set forward during a verification is outside of it.
- In `Lifecycle` the program's own steps take no time: a busy machine adds its
  delays to the bounds. Lease operations are not part of it; for them the end of
  the process is the `Crash` of `LeaseService`, at any point, which covers both a
  draining that is too short and calls refused because the token was cleared.
- In `Validation` a name is valid or not, by its characters and length; an ordinary
  name in a path has in addition the length it adds to the path. What lengths the
  ordinary names have is left open, so that the limit on the whole path is reached
  with few of them. User and group numbers are integers, not their decimal
  spellings.
- In `Planner` references, JSON syntax and types are one flag; the gates, the
  diagnostics and the digest that names a plan are left out.
- `Broker` does not repeat the steps of `LeaseService`: there, `Admit` accepts any
  request at any time, which includes every request that `Broker` lets through.
- In `StrictJSON` the grammar of JSON is the decoder's: a token in the wrong place
  is one of its errors. Names are model values, scalars are allowed or not.
- In `Config` the settings that are only compared with constants are one choice
  of `ValidateFails`; a path is the sequence of its parts. Of the token file the
  model knows how much was read, not what: a file that is rewritten in place while
  it is read can yield a mixture of old and new, which the program cannot notice. Both upstreams are
  checked and reached in the same way, so there is one.
- In `Upstream` the token is whole, mixed with zero bytes, zero or gone. net/http
  refuses a header value with a control character; this is modelled from that
  library's documented behaviour.

## Not modelled

The safety scanner (`internal/safety`) runs at test time over the text of the
repository and the binary. It matches names and texts with tables, file by file,
without state from one file to the next: what a model would abstract from is all
there is. The build scripts and the container file are not part of the running
system. The cryptography of `envelope.go` and of the signatures succeeds or fails
in the model. Texts of messages, of the log and of JSON output are left out, and
with them the digest that names a plan.
