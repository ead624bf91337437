----------------------------- MODULE LeaseStore -----------------------------
(***************************************************************************)
(* The lease state store of internal/broker/state.go: a map in memory,     *)
(* guarded by store.mu, that every set and remove rewrites to the state    *)
(* file through a temporary file, fsync and rename.                        *)
(*                                                                         *)
(* A call is split at each file system operation of persistLocked, since   *)
(* each one may fail and the process or the machine may stop between any   *)
(* two of them.  store.mu is held for the whole call, so one call at a     *)
(* time is under way and nobody reads the map in the middle of it.         *)
(*                                                                         *)
(* The content of a file is the map that it encodes, or Torn: the blocks   *)
(* of a file that was renamed before its content reached the disk.  Absent *)
(* is the content of a state file that does not exist.                     *)
(***************************************************************************)
EXTENDS FiniteSets, Naturals

CONSTANTS Key,          \* lease keys (leaseStateKey of host and volume)
          Accessor,     \* Vault token accessors
          None,         \* the key is not in the map
          Torn, Absent, \* contents of the state file that are not a map
          NoTemp,       \* there is no temporary file
          MaxLoadable   \* entries that fit into the 4 MiB loadStateStore reads

VARIABLES leases,       \* stateStore.leases, in memory
          file,         \* what the state file reads as, and whether its
                        \* content has been synchronized
          durable,      \* what the state file reads as after a power loss
          temp,         \* the temporary file of the call under way
          pc,           \* where the call under way is; "free": none
          undo,         \* the caller's key, previous and existed
          running       \* the process has loaded the store

vars == <<leases, file, durable, temp, pc, undo, running>>

Entry == Accessor \cup {None}
Map == [Key -> Entry]
EmptyMap == [k \in Key |-> None]
Content == Map \cup {Torn, Absent}
File == [data : Content, synced : BOOLEAN]

ASSUME ConstantsAssumption ==
  /\ None \notin Accessor
  /\ Torn \notin Map /\ Absent \notin Map /\ Torn # Absent
  /\ NoTemp \notin File
  /\ IsFiniteSet(Key)
  /\ MaxLoadable \in Nat

Entries(m) == {k \in Key : m[k] # None}

\* What loadStateStore accepts: no file at all, or one that decodes and is
\* not longer than its limit.
Loadable(content) ==
  \/ content = Absent
  \/ content \in Map /\ Cardinality(Entries(content)) <= MaxLoadable

\* The map loadStateStore makes of a content it accepts.
Decode(content) == IF content = Absent THEN EmptyMap ELSE content

TypeOK == /\ leases \in Map
          /\ file \in File
          /\ durable \in Content
          /\ temp \in File \cup {NoTemp}
          /\ pc \in {"free", "mutated", "created", "written", "synced"}
          /\ undo \in [key : Key, previous : Entry]
          /\ running \in BOOLEAN

Init == /\ leases = EmptyMap
        /\ file = [data |-> Absent, synced |-> TRUE]
        /\ durable = Absent
        /\ temp = NoTemp
        /\ pc = "free"
        /\ undo \in [key : Key, previous : {None}]
        /\ running = FALSE

-----------------------------------------------------------------------------
(* The calls. *)

\* The update in memory that set and remove make before they persist it.
Mutate(k, entry) ==
  /\ running /\ pc = "free"
  /\ undo' = [key |-> k, previous |-> leases[k]]
  /\ leases' = [leases EXCEPT ![k] = entry]
  /\ pc' = "mutated"
  /\ UNCHANGED <<file, durable, temp, running>>

Set(k, a) == Mutate(k, a)

\* remove returns early when the key is not in the map.
Remove(k) == leases[k] # None /\ Mutate(k, None)

\* A plausible bug: the state file itself is opened and truncated.
CreateTempInPlace ==
  /\ running /\ pc = "mutated"
  /\ temp' = [data |-> Torn, synced |-> FALSE]
  /\ file' = temp'
  /\ pc' = "created"
  /\ UNCHANGED <<leases, durable, undo, running>>

\* The directory exists and is private, a temporary file is in it.
CreateTemp ==
  /\ running /\ pc = "mutated"
  /\ temp' = [data |-> Torn, synced |-> FALSE]
  /\ pc' = "created"
  /\ UNCHANGED <<leases, file, durable, undo, running>>

WriteTemp ==
  /\ running /\ pc = "created"
  /\ temp' = [temp EXCEPT !.data = leases]
  /\ pc' = "written"
  /\ UNCHANGED <<leases, file, durable, undo, running>>

\* A plausible bug: the write is taken for durable without fsync.
SyncTempSkipped ==
  /\ running /\ pc = "written"
  /\ pc' = "synced"
  /\ UNCHANGED <<leases, file, durable, temp, undo, running>>

SyncTemp ==
  /\ running /\ pc = "written"
  /\ temp' = [temp EXCEPT !.synced = TRUE]
  /\ pc' = "synced"
  /\ UNCHANGED <<leases, file, durable, undo, running>>

\* The rename, after which the call returns.  The directory itself is not
\* synchronized: durable changes only when the file system settles.
RenameTemp ==
  /\ running /\ pc = "synced"
  /\ file' = temp
  /\ temp' = NoTemp
  /\ pc' = "free"
  /\ UNCHANGED <<leases, durable, undo, running>>

\* A plausible bug: the caller does not restore the map.
PersistFailsKeepingMap ==
  /\ running /\ pc # "free"
  /\ temp' = NoTemp
  /\ pc' = "free"
  /\ UNCHANGED <<leases, file, durable, undo, running>>

\* Any step of persistLocked returns an error: the temporary file, if there
\* is one, is removed and the caller restores the map.
PersistFails ==
  /\ running /\ pc # "free"
  /\ leases' = [leases EXCEPT ![undo.key] = undo.previous]
  /\ temp' = NoTemp
  /\ pc' = "free"
  /\ UNCHANGED <<file, durable, undo, running>>

-----------------------------------------------------------------------------
(* The process and the machine. *)

\* The memory of the process is gone.  Its temporary file stays on the disk,
\* but under a name that no later call uses: it is no longer state.
Forget == /\ running' = FALSE
          /\ leases' = EmptyMap
          /\ temp' = NoTemp
          /\ pc' = "free"
          /\ UNCHANGED undo

Crash == running /\ Forget /\ UNCHANGED <<file, durable>>

\* The file system writes its directory: what the renamed file reads as after
\* a power loss depends on whether its content was synchronized before.
Settle ==
  /\ durable' = IF file.synced THEN file.data ELSE Torn
  /\ UNCHANGED <<leases, file, temp, pc, undo, running>>

PowerLoss ==
  /\ Forget
  /\ file' = [data |-> durable, synced |-> TRUE]
  /\ UNCHANGED durable

\* A plausible bug: a missing state file leaves the map nil.
LoadStateStoreNilMap ==
  /\ ~running
  /\ Loadable(file.data)
  /\ leases' = file.data
  /\ running' = TRUE
  /\ UNCHANGED <<file, durable, temp, pc, undo>>

\* loadStateStore; when it refuses the file, the process exits.
LoadStateStore ==
  /\ ~running
  /\ Loadable(file.data)
  /\ leases' = Decode(file.data)
  /\ running' = TRUE
  /\ UNCHANGED <<file, durable, temp, pc, undo>>

Next == \/ \E k \in Key, a \in Accessor : Set(k, a)
        \/ \E k \in Key : Remove(k)
        \/ CreateTemp \/ WriteTemp \/ SyncTemp \/ RenameTemp \/ PersistFails
        \/ Crash \/ Settle \/ PowerLoss \/ LoadStateStore

Spec == Init /\ [][Next]_vars

-----------------------------------------------------------------------------
(* Properties. *)

\* Whenever a handler can take store.mu, the accessors it reads are the ones
\* the state file holds: a failed set or remove leaves no trace in memory, and
\* a successful one is on file before it returns (state.go, set and remove).
ReadersSeeFile == running /\ pc = "free" => leases = Decode(file.data)

\* A process that starts after a crash or after a power loss always accepts
\* the state file that an earlier one left behind (loadStateStore against
\* persistLocked), in whatever step the earlier one was stopped.
StateFileReloads == Loadable(file.data) /\ Loadable(durable)

\* The store implements the durable map: the state file changes by whole
\* updates only, a failed call changes nothing, and a power loss takes it
\* back to a map that was once complete.
Promise == INSTANCE DurableMap WITH map <- Decode(file.data),
                                    stable <- Decode(durable)
ImplementsDurableMap == Promise!Spec
=============================================================================
