-------------------------- MODULE LeaseStoreProofs --------------------------
(***************************************************************************)
(* The lease state store implements the durable map, for every set of keys *)
(* and accessors, whatever step of persistLocked fails and whenever the    *)
(* process or the machine stops.                                           *)
(***************************************************************************)
EXTENDS LeaseStore, FiniteSetTheorems, TLAPS

USE ConstantsAssumption

\* Neither the state file nor what a power loss would make of it is torn.
NeverTorn == /\ file.synced
             /\ file.data \in Map \cup {Absent}
             /\ durable \in Map \cup {Absent}

\* While a call is under way, memory differs from the file in the caller's key
\* only, and the caller remembers what the file has there.
OneKeyAhead ==
  pc # "free" =>
    /\ running
    /\ leases = [Decode(file.data) EXCEPT ![undo.key] = leases[undo.key]]
    /\ undo.previous = Decode(file.data)[undo.key]

\* The temporary file is ready to replace the state file when its turn comes.
TempReady ==
  /\ pc = "created" => temp \in File
  /\ pc = "written" => temp \in File /\ temp.data = leases
  /\ pc = "synced" => temp = [data |-> leases, synced |-> TRUE]

IInv == TypeOK /\ NeverTorn /\ ReadersSeeFile /\ OneKeyAhead /\ TempReady

-----------------------------------------------------------------------------
LEMMA EmptyMapType == EmptyMap \in Map
  BY DEF EmptyMap, Map, Entry

\* What loadStateStore makes of a content that is not torn is a map.
LEMMA DecodeType ==
  ASSUME NEW c \in Map \cup {Absent} PROVE Decode(c) \in Map
  BY EmptyMapType DEF Decode

\* A map in memory is not the mark of a missing file.
LEMMA DecodeMap == ASSUME NEW c \in Map PROVE Decode(c) = c
  BY DEF Decode

LEMMA InitInv == Init => IInv
<1> SUFFICES ASSUME Init PROVE IInv
  OBVIOUS
<1>1. TypeOK
  <2>1. file \in File /\ durable \in Content
    BY DEF Init, File, Content
  <2>2. undo \in [key : Key, previous : Entry]
    BY DEF Init, Entry
  <2>3. QED
    BY <2>1, <2>2, EmptyMapType DEF Init, TypeOK
<1>2. NeverTorn /\ ReadersSeeFile /\ OneKeyAhead /\ TempReady
  BY DEF Init, NeverTorn, ReadersSeeFile, OneKeyAhead, TempReady
<1>3. QED
  BY <1>1, <1>2 DEF IInv

\* The update in memory.
LEMMA MutateStep ==
  ASSUME IInv, NEW k \in Key, NEW e \in Entry, Mutate(k, e)
  PROVE  IInv'
<1>1. /\ running /\ pc = "free" /\ pc' = "mutated" /\ leases \in Map
      /\ undo' = [key |-> k, previous |-> leases[k]]
      /\ leases' = [leases EXCEPT ![k] = e]
      /\ UNCHANGED <<file, durable, temp, running>>
      /\ leases = Decode(file.data)
  BY DEF IInv, TypeOK, Mutate, ReadersSeeFile
<1>2. TypeOK'
  <2>1. leases' \in Map /\ leases[k] \in Entry
    BY <1>1 DEF Map
  <2>2. QED
    BY <1>1, <2>1 DEF IInv, TypeOK
<1>3. NeverTorn' /\ ReadersSeeFile' /\ TempReady'
  BY <1>1 DEF IInv, NeverTorn, ReadersSeeFile, TempReady
<1>4. OneKeyAhead'
  <2>1. undo'.key = k /\ undo'.previous = leases[k] /\ leases'[k] = e
    BY <1>1 DEF Map
  <2>2. leases' = [leases EXCEPT ![undo'.key] = leases'[undo'.key]]
    BY <1>1, <2>1
  <2>3. QED
    BY <1>1, <2>1, <2>2 DEF OneKeyAhead
<1>5. QED
  BY <1>2, <1>3, <1>4 DEF IInv

\* The steps of persistLocked before the rename.
LEMMA TempStep ==
  ASSUME IInv, CreateTemp \/ WriteTemp \/ SyncTemp PROVE IInv'
<1>1. /\ UNCHANGED <<leases, file, durable, undo, running>>
      /\ pc # "free" /\ pc' # "free"
      /\ pc' \in {"free", "mutated", "created", "written", "synced"}
  BY DEF CreateTemp, WriteTemp, SyncTemp
<1>2. temp' \in File /\ TempReady'
  <2>1. leases \in Content /\ Torn \in Content
    BY DEF IInv, TypeOK, Content
  <2>2. CASE CreateTemp
    BY <2>1, <2>2 DEF CreateTemp, TempReady, File
  <2>3. CASE WriteTemp
    BY <2>1, <2>3 DEF IInv, WriteTemp, TempReady, File
  <2>4. CASE SyncTemp
    BY <2>1, <2>4 DEF IInv, SyncTemp, TempReady, File
  <2>5. QED
    BY <2>2, <2>3, <2>4
<1>3. TypeOK'
  BY <1>1, <1>2 DEF IInv, TypeOK
<1>4. NeverTorn' /\ ReadersSeeFile' /\ OneKeyAhead'
  BY <1>1 DEF IInv, NeverTorn, ReadersSeeFile, OneKeyAhead
<1>5. QED
  BY <1>2, <1>3, <1>4 DEF IInv

\* The rename puts the map in memory on file, synchronized.
LEMMA RenameStep ==
  ASSUME IInv, RenameTemp
  PROVE  IInv' /\ file'.data = leases
<1>1. /\ leases \in Map /\ pc' = "free" /\ temp' = NoTemp
      /\ file' = [data |-> leases, synced |-> TRUE]
      /\ UNCHANGED <<leases, durable, undo, running>>
  BY DEF IInv, TypeOK, RenameTemp, TempReady
<1>2. TypeOK'
  BY <1>1 DEF IInv, TypeOK, File, Content
<1>3. NeverTorn' /\ OneKeyAhead' /\ TempReady'
  BY <1>1 DEF IInv, NeverTorn, OneKeyAhead, TempReady
<1>4. ReadersSeeFile'
  BY <1>1, DecodeMap DEF ReadersSeeFile
<1>5. QED
  BY <1>1, <1>2, <1>3, <1>4 DEF IInv

\* A failing step: the caller's restoration brings memory back to the file.
LEMMA FailStep ==
  ASSUME IInv, PersistFails PROVE IInv'
<1>1. /\ pc # "free" /\ pc' = "free" /\ temp' = NoTemp
      /\ leases' = [leases EXCEPT ![undo.key] = undo.previous]
      /\ UNCHANGED <<file, durable, undo, running>>
      /\ leases \in Map /\ undo.key \in Key /\ undo.previous \in Entry
  BY DEF IInv, TypeOK, PersistFails
<1>2. leases' \in Map
  BY <1>1 DEF Map
<1>3. leases' = Decode(file.data)
  <2> DEFINE m == Decode(file.data)
  <2>1. m \in Map
    BY DecodeType DEF IInv, NeverTorn
  <2>2. /\ leases = [m EXCEPT ![undo.key] = leases[undo.key]]
        /\ undo.previous = m[undo.key]
    BY <1>1 DEF IInv, OneKeyAhead
  <2> HIDE DEF m
  <2>3. \A k \in Key : leases'[k] = m[k]
    BY <1>1, <2>1, <2>2 DEF Map
  <2>4. leases' = m
    BY <1>2, <2>1, <2>3 DEF Map
  <2>5. QED
    BY <2>4 DEF m
<1>4. TypeOK'
  BY <1>1, <1>2 DEF IInv, TypeOK
<1>5. NeverTorn' /\ ReadersSeeFile' /\ OneKeyAhead' /\ TempReady'
  BY <1>1, <1>3 DEF IInv, NeverTorn, ReadersSeeFile, OneKeyAhead, TempReady
<1>6. QED
  BY <1>4, <1>5 DEF IInv

LEMMA InvStep == IInv /\ [Next]_vars => IInv'
<1> SUFFICES ASSUME IInv, [Next]_vars PROVE IInv'
  OBVIOUS
<1>1. ASSUME NEW k \in Key, NEW a \in Accessor, Set(k, a) PROVE IInv'
  BY <1>1, MutateStep DEF Set, Entry
<1>2. ASSUME NEW k \in Key, Remove(k) PROVE IInv'
  BY <1>2, MutateStep DEF Remove, Entry
<1>3. CASE CreateTemp \/ WriteTemp \/ SyncTemp
  BY <1>3, TempStep
<1>4. CASE RenameTemp
  BY <1>4, RenameStep
<1>5. CASE PersistFails
  BY <1>5, FailStep
<1>6. CASE Crash
  BY <1>6, EmptyMapType DEF IInv, Crash, Forget, TypeOK, NeverTorn,
     ReadersSeeFile, OneKeyAhead, TempReady
<1>7. CASE Settle
  BY <1>7 DEF IInv, Settle, TypeOK, NeverTorn, ReadersSeeFile, OneKeyAhead,
     TempReady, Content
<1>8. CASE PowerLoss
  <2>1. file' \in File /\ file'.synced /\ file'.data = durable
    BY <1>8 DEF IInv, PowerLoss, TypeOK, File
  <2>2. QED
    BY <1>8, <2>1, EmptyMapType DEF IInv, PowerLoss, Forget, TypeOK, NeverTorn,
       ReadersSeeFile, OneKeyAhead, TempReady
<1>9. CASE LoadStateStore
  <2>1. Decode(file.data) \in Map
    BY DecodeType DEF IInv, NeverTorn
  <2>2. pc = "free"
    BY <1>9 DEF IInv, LoadStateStore, OneKeyAhead
  <2>3. QED
    BY <1>9, <2>1, <2>2 DEF IInv, LoadStateStore, TypeOK, NeverTorn,
       ReadersSeeFile, OneKeyAhead, TempReady
<1>10. CASE UNCHANGED vars
  BY <1>10 DEF IInv, vars, TypeOK, NeverTorn, ReadersSeeFile, OneKeyAhead,
     TempReady
<1>11. QED
  BY <1>1, <1>2, <1>3, <1>4, <1>5, <1>6, <1>7, <1>8, <1>9, <1>10 DEF Next

\* The invariant holds in every reachable state.
THEOREM StoreInvariant == Spec => []IInv
<1>1. Init => IInv
  BY InitInv
<1>2. IInv /\ [Next]_vars => IInv'
  BY InvStep
<1>3. QED
  BY <1>1, <1>2, PTL DEF Spec

\* The variables of the store keep their types.
THEOREM StoreTypeCorrect == Spec => []TypeOK
<1>1. IInv => TypeOK
  BY DEF IInv
<1>2. QED
  BY <1>1, StoreInvariant, PTL

\* A handler that holds store.mu reads what the state file holds.
THEOREM ReadersAlwaysSeeFile == Spec => []ReadersSeeFile
<1>1. IInv => ReadersSeeFile
  BY DEF IInv
<1>2. QED
  BY <1>1, StoreInvariant, PTL

\* If all keys together fit into what loadStateStore reads, the state file is
\* loadable at every moment, also after a power loss.
THEOREM StateFileAlwaysReloads ==
  ASSUME Cardinality(Key) <= MaxLoadable
  PROVE  Spec => []StateFileReloads
<1>1. ASSUME NEW c \in Map \cup {Absent} PROVE Loadable(c)
  <2>1. CASE c = Absent
    BY <2>1 DEF Loadable
  <2>2. CASE c \in Map
    <3>1. Entries(c) \subseteq Key
      BY DEF Entries
    <3>2. /\ Cardinality(Entries(c)) <= Cardinality(Key)
          /\ Cardinality(Entries(c)) \in Nat /\ Cardinality(Key) \in Nat
      BY <3>1, FS_Subset, FS_CardinalityType
    <3>3. Cardinality(Entries(c)) <= MaxLoadable
      BY <3>2
    <3>4. QED
      BY <2>2, <3>3 DEF Loadable
  <2>3. QED
    BY <2>1, <2>2
<1>2. IInv => StateFileReloads
  BY <1>1 DEF IInv, NeverTorn, StateFileReloads
<1>3. QED
  BY <1>2, StoreInvariant, PTL

-----------------------------------------------------------------------------
\* Every step of the store is a step of the durable map, or none.
LEMMA StepSimulation ==
  IInv /\ [Next]_vars => [Promise!Next]_(Promise!vars)
<1> SUFFICES ASSUME IInv, [Next]_vars
             PROVE  [Promise!Next]_(Promise!vars)
  OBVIOUS
<1> USE DEF Promise!vars
<1>1. CASE UNCHANGED <<file, durable, running>>
  BY <1>1
<1>2. CASE RenameTemp
  <2>1. /\ running /\ running' = running /\ durable' = durable
        /\ leases \in Map /\ undo.key \in Key
        /\ leases = [Decode(file.data) EXCEPT ![undo.key] = leases[undo.key]]
    BY <1>2 DEF IInv, TypeOK, RenameTemp, OneKeyAhead
  <2>2. Decode(file'.data) = leases
    BY <1>2, <2>1, RenameStep, DecodeMap
  <2>3. Promise!Update(undo.key, leases[undo.key])
    BY <2>1, <2>2 DEF Promise!Update
  <2>4. leases[undo.key] \in Accessor \cup {None}
    BY <2>1 DEF Map, Entry
  <2>5. CASE leases[undo.key] \in Accessor
    BY <2>1, <2>3, <2>5 DEF Promise!Next, Promise!Put
  <2>6. CASE leases[undo.key] = None
    BY <2>1, <2>3, <2>6 DEF Promise!Next, Promise!Delete
  <2>7. QED
    BY <2>4, <2>5, <2>6
<1>3. CASE Crash
  BY <1>3 DEF Crash, Forget, Promise!Next, Promise!Crash
<1>4. CASE Settle
  BY <1>4 DEF IInv, NeverTorn, Settle, Promise!Next, Promise!Settle
<1>5. CASE PowerLoss
  <2>1. file'.data = durable /\ durable' = durable /\ running' = FALSE
    BY <1>5 DEF PowerLoss, Forget
  <2>2. Promise!PowerLoss
    BY <2>1 DEF Promise!PowerLoss
  <2>3. QED
    BY <2>2 DEF Promise!Next
<1>6. CASE LoadStateStore
  BY <1>6 DEF LoadStateStore, Promise!Next, Promise!Recover
<1>7. QED
  BY <1>1, <1>2, <1>3, <1>4, <1>5, <1>6
     DEF Next, vars, Set, Remove, Mutate, CreateTemp, WriteTemp, SyncTemp,
         PersistFails

\* The store implements the durable map.
THEOREM StoreImplementsDurableMap == Spec => ImplementsDurableMap
<1>1. Init => Promise!Init
  BY DEF Init, Promise!Init, Decode, EmptyMap, Promise!EmptyMap
<1>2. IInv /\ [Next]_vars => [Promise!Next]_(Promise!vars)
  BY StepSimulation
<1>3. QED
  BY <1>1, <1>2, StoreInvariant, PTL
     DEF Spec, ImplementsDurableMap, Promise!Spec
=============================================================================
