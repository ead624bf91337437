----------------------------- MODULE DurableMap -----------------------------
(***************************************************************************)
(* What the lease state file promises to the handlers that use it: a map   *)
(* from lease keys to Vault accessors whose updates are atomic.  An update *)
(* is visible to the next process as soon as it returns.  It survives a    *)
(* power loss only once the directory entry has settled on the disk.       *)
(***************************************************************************)
CONSTANTS Key,        \* lease keys, one per host and volume
          Accessor,   \* Vault token accessors
          None        \* no accessor recorded for a key

VARIABLES map,        \* what the next process will read
          stable,     \* what the next process will read after a power loss
          running     \* a process has the map open

vars == <<map, stable, running>>

Map == [Key -> Accessor \cup {None}]
EmptyMap == [k \in Key |-> None]

Init == /\ map = EmptyMap
        /\ stable = EmptyMap
        /\ running = FALSE

\* One update of the map, all of it or nothing.
Update(k, entry) == /\ running
                    /\ map' = [map EXCEPT ![k] = entry]
                    /\ UNCHANGED <<stable, running>>

Put(k, a) == Update(k, a)
Delete(k) == Update(k, None)

\* The disk has caught up with the latest update.
Settle == /\ stable' = map
          /\ UNCHANGED <<map, running>>

\* The process stops; the machine keeps running.
Crash == /\ running
         /\ running' = FALSE
         /\ UNCHANGED <<map, stable>>

\* The machine stops; what has not settled is lost.
PowerLoss == /\ map' = stable
             /\ running' = FALSE
             /\ UNCHANGED stable

\* A new process reads the map.
Recover == /\ ~running
           /\ running' = TRUE
           /\ UNCHANGED <<map, stable>>

Next == \/ \E k \in Key, a \in Accessor : Put(k, a)
        \/ \E k \in Key : Delete(k)
        \/ Settle \/ Crash \/ PowerLoss \/ Recover

Spec == Init /\ [][Next]_vars
=============================================================================
