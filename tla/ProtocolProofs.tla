---------------------------- MODULE ProtocolProofs ----------------------------
(* Proofs about Protocol, for any number of slots and of requests, with or *)
(* without signals and failed writes.                                      *)
EXTENDS Protocol, FiniteSetTheorems, TLAPS

(* The gets that hold a slot can be counted, and one more slot is at most  *)
(* one more held.                                                          *)
LEMMA SlotsCounted ==
    ASSUME TypeOK
    PROVE  /\ IsFiniteSet(sem)
           /\ Cardinality(sem) \in Nat
           /\ Cardinality(sem \cup {last}) <= Cardinality(sem) + 1
           /\ \A i : Cardinality(sem \ {i}) <= Cardinality(sem)
<1>1. IsFiniteSet(0..last)
    BY FS_Interval, ProtocolAssumption DEF ProtocolAssumption, TypeOK
<1>2. sem \subseteq 0..last
    BY ProtocolAssumption DEF ProtocolAssumption, TypeOK
<1>3. IsFiniteSet(sem)
    BY <1>1, <1>2, FS_Subset
<1>4. Cardinality(sem) \in Nat
    BY <1>3, FS_CardinalityType
<1>5. Cardinality(sem \cup {last}) <= Cardinality(sem) + 1
    <2>1. Cardinality(sem \cup {last}) =
            IF last \in sem THEN Cardinality(sem) ELSE Cardinality(sem) + 1
        BY <1>3, FS_AddElement
    <2> QED
        BY <1>4, <2>1
<1>6. ASSUME NEW i PROVE Cardinality(sem \ {i}) <= Cardinality(sem)
    BY <1>3, FS_Subset
<1> QED
    BY <1>3, <1>4, <1>5, <1>6

LEMMA InitInvariant == Init => ProtocolInvariant
<1> SUFFICES ASSUME Init PROVE ProtocolInvariant
    OBVIOUS
<1>1. Cardinality(sem) = 0
    BY FS_EmptySet DEF Init
<1>2. sem \subseteq wg \cup {last} /\ Cardinality(sem) <= MaxConcurrency /\ wg \subseteq 1..last
    BY <1>1, ProtocolAssumption DEF Init, ProtocolAssumption
<1>3. request \in [Requests -> Progress]
    BY DEF Init, Progress
<1>4. last \in 0..MaxRequests
    BY ProtocolAssumption DEF Init, ProtocolAssumption
<1>5. TypeOK
    BY <1>2, <1>3, <1>4 DEF Init, TypeOK, LoopSteps, HandlerSteps
<1> QED
    BY <1>5, ProtocolAssumption DEF ProtocolAssumption, Init, ProtocolInvariant,
       RequestsTracked, LoopAtRequest, SlotsHeld, MutexHeld, OnceHeld, GroupAtZero, DrainedBeforeClose, ExitsClosed, Requests

(* The request loop: each step carries its own request one step further,   *)
(* and takes and leaves the slot, the wait group, the mutex and closeOnce  *)
(* as its next step has it.                                                *)
LEMMA LoopStep ==
    ASSUME ProtocolInvariant, ~exited, LoopNext, UNCHANGED exited
    PROVE  ProtocolInvariant'
<1> USE ProtocolAssumption DEF ProtocolAssumption, ProtocolInvariant, Goto, Advance, Requests
<1>0. /\ Cardinality(sem) \in Nat
      /\ Cardinality(sem \cup {last}) <= Cardinality(sem) + 1
    BY SlotsCounted
<1>1. ASSUME ReadRequest PROVE ProtocolInvariant'
    <2>1. last' \in Requests
        BY <1>1 DEF ReadRequest, TypeOK
    <2>2. TypeOK'
        BY <1>1, <2>1 DEF ReadRequest, TypeOK, SlotsHeld, LoopSteps, Progress
    <2>3. RequestsTracked' /\ LoopAtRequest'
        BY <1>1, <2>1 DEF ReadRequest, TypeOK, RequestsTracked, LoopAtRequest
    <2>4. SlotsHeld'
        BY <1>1, <2>1 DEF ReadRequest, TypeOK, SlotsHeld
    <2> QED
        BY <1>1, <2>2, <2>3, <2>4
           DEF ReadRequest, MutexHeld, OnceHeld, GroupAtZero, DrainedBeforeClose, ExitsClosed
<1>2. ASSUME ReadLast PROVE ProtocolInvariant'
    <2>1. TypeOK'
        BY <1>2 DEF ReadLast, TypeOK, LoopSteps
    <2> QED
        BY <1>2, <2>1 DEF ReadLast, RequestsTracked, LoopAtRequest, SlotsHeld,
           MutexHeld, OnceHeld, GroupAtZero, DrainedBeforeClose, ExitsClosed
<1>3. ASSUME TakeSlot PROVE ProtocolInvariant'
    <2>1. Cardinality(sem') <= MaxConcurrency
        <3>1. Cardinality(sem) < MaxConcurrency /\ sem' = sem \cup {last}
            BY <1>3 DEF TakeSlot
        <3>2. Cardinality(sem') \in Nat
            BY <3>1, SlotsCounted, FS_AddElement, FS_CardinalityType
        <3> QED
            BY <1>0, <3>1, <3>2
    <2>2. TypeOK'
        BY <1>3, <2>1 DEF TakeSlot, TypeOK, LoopSteps
    <2> QED
        BY <1>3, <2>2 DEF TakeSlot, TypeOK, RequestsTracked, LoopAtRequest, SlotsHeld,
           MutexHeld, OnceHeld, GroupAtZero, DrainedBeforeClose, ExitsClosed
<1>4. ASSUME SpawnGet PROVE ProtocolInvariant'
    <2>1. last \in Requests /\ request[last] = "read" /\ last \in sem
        BY <1>4 DEF SpawnGet, TypeOK, LoopAtRequest, SlotsHeld
    <2>2. TypeOK'
        BY <1>4, <2>1 DEF SpawnGet, TypeOK, LoopSteps, Progress
    <2>3. RequestsTracked' /\ LoopAtRequest'
        BY <1>4, <2>1 DEF SpawnGet, TypeOK, RequestsTracked, LoopAtRequest
    <2>4. SlotsHeld'
        BY <1>4, <2>1 DEF SpawnGet, TypeOK, SlotsHeld
    <2> QED
        BY <1>4, <2>2, <2>3, <2>4
           DEF SpawnGet, MutexHeld, OnceHeld, GroupAtZero, DrainedBeforeClose, ExitsClosed
<1>5. ASSUME LockServing PROVE ProtocolInvariant'
    <2>1. last \in Requests /\ request[last] = "read" /\ last \notin wg
        BY <1>5 DEF LockServing, TypeOK, LoopAtRequest, SlotsHeld
    <2>2. TypeOK'
        BY <1>5 DEF LockServing, TypeOK, LoopSteps, Progress
    <2>3. RequestsTracked' /\ LoopAtRequest'
        BY <1>5, <2>1 DEF LockServing, TypeOK, RequestsTracked, LoopAtRequest
    <2>4. SlotsHeld'
        BY <1>5, <2>1 DEF LockServing, TypeOK, SlotsHeld
    <2> QED
        BY <1>5, <2>2, <2>3, <2>4
           DEF LockServing, MutexHeld, OnceHeld, GroupAtZero, DrainedBeforeClose, ExitsClosed
<1>6. ASSUME HandlePut PROVE ProtocolInvariant'
    <2>1. last \in Requests /\ request[last] = "serving" /\ last \notin wg
        BY <1>6 DEF HandlePut, TypeOK, LoopAtRequest
    <2>2. TypeOK'
        BY <1>6 DEF HandlePut, TypeOK, LoopSteps, Progress
    <2>3. RequestsTracked' /\ LoopAtRequest'
        BY <1>6, <2>1 DEF HandlePut, TypeOK, RequestsTracked, LoopAtRequest
    <2>4. SlotsHeld'
        BY <1>6, <2>1 DEF HandlePut, TypeOK, SlotsHeld
    <2> QED
        BY <1>6, <2>2, <2>3, <2>4
           DEF HandlePut, MutexHeld, OnceHeld, GroupAtZero, DrainedBeforeClose, ExitsClosed
<1>7. ASSUME WritePut PROVE ProtocolInvariant'
    <2>1. last \in Requests /\ request[last] = "writing" /\ last \notin wg
        BY <1>7 DEF WritePut, TypeOK, LoopAtRequest
    <2>2. PICK failed \in BOOLEAN :
            /\ broken => failed
            /\ broken' = failed
            /\ request' = [request EXCEPT ![last] = IF failed THEN "lost" ELSE "answered"]
        BY <1>7 DEF WritePut, WriteResponse
    <2>3. TypeOK'
        BY <1>7, <2>2 DEF WritePut, TypeOK, LoopSteps, Progress
    <2>4. RequestsTracked' /\ LoopAtRequest'
        BY <1>7, <2>1, <2>2 DEF WritePut, TypeOK, RequestsTracked, LoopAtRequest
    <2>5. SlotsHeld'
        BY <1>7, <2>1, <2>2 DEF WritePut, TypeOK, SlotsHeld
    <2> QED
        BY <1>7, <2>3, <2>4, <2>5
           DEF WritePut, MutexHeld, OnceHeld, GroupAtZero, DrainedBeforeClose, ExitsClosed
<1>8. ASSUME UnlockServing PROVE ProtocolInvariant'
    <2>1. last \in Requests
        BY <1>8 DEF UnlockServing, TypeOK, LoopAtRequest
    <2>2. TypeOK'
        BY <1>8 DEF UnlockServing, TypeOK, LoopSteps
    <2> QED
        BY <1>8, <2>1, <2>2 DEF UnlockServing, RequestsTracked, LoopAtRequest, SlotsHeld,
           MutexHeld, OnceHeld, GroupAtZero, DrainedBeforeClose, ExitsClosed
<1>9. ASSUME WaitGets PROVE ProtocolInvariant'
    <2>1. TypeOK'
        BY <1>9 DEF WaitGets, TypeOK, LoopSteps
    <2> QED
        BY <1>9, <2>1 DEF WaitGets, RequestsTracked, LoopAtRequest, SlotsHeld,
           MutexHeld, OnceHeld, GroupAtZero, DrainedBeforeClose, ExitsClosed
<1>10. ASSUME WriteClose PROVE ProtocolInvariant'
    <2>1. broken' \in BOOLEAN /\ (broken => broken')
        BY <1>10 DEF WriteClose, WriteResponse, TypeOK
    <2>2. TypeOK'
        BY <1>10, <2>1 DEF WriteClose, TypeOK, LoopSteps
    <2> QED
        BY <1>10, <2>1, <2>2 DEF WriteClose, RequestsTracked, LoopAtRequest, SlotsHeld,
           MutexHeld, OnceHeld, GroupAtZero, DrainedBeforeClose, ExitsClosed
<1>11. ASSUME LoopCloses \/ LoopClosed PROVE ProtocolInvariant'
    <2>1. TypeOK'
        BY <1>11 DEF LoopCloses, LoopClosed, TypeOK, LoopSteps
    <2> QED
        BY <1>11, <2>1 DEF LoopCloses, LoopClosed, RequestsTracked, LoopAtRequest, SlotsHeld,
           MutexHeld, OnceHeld, GroupAtZero, DrainedBeforeClose, ExitsClosed
<1>12. ASSUME SpawnMisused PROVE ProtocolInvariant'
    <2>1. last \in Requests /\ request[last] = "read" /\ last \in sem
        BY <1>12 DEF SpawnMisused, TypeOK, LoopAtRequest, SlotsHeld
    <2>2. TypeOK'
        BY <1>12, <2>1 DEF SpawnMisused, TypeOK, LoopSteps
    <2>3. RequestsTracked' /\ LoopAtRequest' /\ SlotsHeld' /\ GroupAtZero'
        BY <1>12, <2>1 DEF SpawnMisused, TypeOK, RequestsTracked, LoopAtRequest, SlotsHeld, GroupAtZero
    <2> QED
        BY <1>12, <2>2, <2>3
           DEF SpawnMisused, MutexHeld, OnceHeld, DrainedBeforeClose, ExitsClosed
<1> QED
    BY <1>1, <1>2, <1>3, <1>4, <1>5, <1>6, <1>7, <1>8, <1>9, <1>10, <1>11, <1>12 DEF LoopNext

(* A get moves its own request alone, and keeps its slot until that is     *)
(* answered or lost.                                                       *)
LEMMA GetStep ==
    ASSUME ProtocolInvariant, ~exited, NEW i \in Requests, GetNext(i), UNCHANGED exited
    PROVE  ProtocolInvariant'
<1> USE ProtocolAssumption DEF ProtocolAssumption, ProtocolInvariant, Advance, Requests
<1>0. /\ Cardinality(sem) \in Nat
      /\ Cardinality(sem \ {i}) <= Cardinality(sem)
    BY SlotsCounted
<1>5. Cardinality(sem \ {i}) \in Nat
    BY SlotsCounted, FS_Subset, FS_CardinalityType
<1>1. ASSUME HandleGet(i) PROVE ProtocolInvariant'
    <2>1. TypeOK'
        BY <1>1 DEF HandleGet, TypeOK, Progress
    <2>2. i \in wg
        BY <1>1 DEF HandleGet, PutInProgress, RequestsTracked
    <2>3. RequestsTracked' /\ LoopAtRequest' /\ SlotsHeld'
        BY <1>1, <2>2 DEF HandleGet, TypeOK, RequestsTracked, LoopAtRequest, SlotsHeld
    <2>4. GroupAtZero'
        BY <1>1, <2>2 DEF HandleGet, GroupAtZero
    <2> QED
        BY <1>1, <2>1, <2>3, <2>4
           DEF HandleGet, MutexHeld, OnceHeld, DrainedBeforeClose, ExitsClosed
<1>2. ASSUME WriteGet(i) PROVE ProtocolInvariant'
    <2>1. PICK failed \in BOOLEAN :
            /\ broken => failed
            /\ broken' = failed
            /\ request' = [request EXCEPT ![i] = IF failed THEN "lost" ELSE "answered"]
        BY <1>2 DEF WriteGet, WriteResponse
    <2>2. TypeOK'
        BY <1>2, <2>1 DEF WriteGet, TypeOK, Progress
    <2>3. i \in wg /\ request[i] = "writing"
        BY <1>2 DEF WriteGet, PutInProgress, RequestsTracked
    <2>4. RequestsTracked' /\ LoopAtRequest' /\ SlotsHeld'
        BY <1>2, <2>1, <2>3 DEF WriteGet, TypeOK, RequestsTracked, LoopAtRequest, SlotsHeld
    <2>5. GroupAtZero'
        BY <1>2, <2>3 DEF WriteGet, GroupAtZero
    <2> QED
        BY <1>2, <2>1, <2>2, <2>4, <2>5
           DEF WriteGet, MutexHeld, OnceHeld, DrainedBeforeClose, ExitsClosed
<1>3. ASSUME GiveSlot(i) PROVE ProtocolInvariant'
    <2>1. TypeOK'
        BY <1>0, <1>5, <1>3 DEF GiveSlot, TypeOK
    <2> QED
        BY <1>3, <2>1 DEF GiveSlot, RequestsTracked, LoopAtRequest, SlotsHeld,
           MutexHeld, OnceHeld, GroupAtZero, DrainedBeforeClose, ExitsClosed
<1>4. ASSUME LeaveGroup(i) PROVE ProtocolInvariant'
    <2>1. TypeOK'
        BY <1>4 DEF LeaveGroup, TypeOK, HandlerSteps
    <2>2. RequestsTracked' /\ LoopAtRequest' /\ SlotsHeld'
        BY <1>4 DEF LeaveGroup, RequestsTracked, LoopAtRequest, SlotsHeld
    <2> QED
        BY <1>4, <2>1, <2>2
           DEF LeaveGroup, MutexHeld, OnceHeld, GroupAtZero, DrainedBeforeClose, ExitsClosed
<1> QED
    BY <1>1, <1>2, <1>3, <1>4 DEF GetNext

(* Waking the waiter resets the group, which counts at most a get whose    *)
(* adding panicked: no get that is served is forgotten.                    *)
LEMMA WakeStep ==
    ASSUME ProtocolInvariant, ~exited, LastGetNext, UNCHANGED exited
    PROVE  ProtocolInvariant'
<1> USE ProtocolAssumption DEF ProtocolAssumption, ProtocolInvariant, LastGetNext,
            WakeWaiter, WakePanics, Requests
<1>1. UNCHANGED <<loop, last, request, sem, serving, broken, once, exited>>
    OBVIOUS
<1>2. \A i \in wg : i = last /\ request[i] = "read" /\ loop \in {"close", "closing"}
    BY DEF GroupAtZero, SlotsHeld, RequestsTracked, TypeOK
<1>3. TypeOK'
    BY <1>1, <1>2 DEF TypeOK, SlotsHeld, HandlerSteps
<1>4. RequestsTracked' /\ LoopAtRequest'
    BY <1>1, <1>2 DEF RequestsTracked, LoopAtRequest, GroupAtZero
<1>5. SlotsHeld'
    BY <1>1, <1>2 DEF SlotsHeld
<1> QED
    BY <1>1, <1>3, <1>4, <1>5
       DEF MutexHeld, OnceHeld, GroupAtZero, DrainedBeforeClose, ExitsClosed

(* The signal handler takes the mutex before it waits, and never gives it  *)
(* back.                                                                   *)
LEMMA HandlerStep ==
    ASSUME ProtocolInvariant, ~exited, Signal \/ HandlerNext, UNCHANGED exited
    PROVE  ProtocolInvariant'
<1> USE DEF ProtocolInvariant, Handle, Signal, HandlerNext, HandlerLocks, HandlerWaits,
            HandlerResumes, HandlerPanics, HandlerCloses, HandlerClosed
<1>1. UNCHANGED <<loop, last, request, sem, wg, broken, exited>>
    OBVIOUS
<1>2. TypeOK'
    BY <1>1 DEF TypeOK, HandlerSteps
<1>3. RequestsTracked' /\ LoopAtRequest' /\ SlotsHeld' /\ GroupAtZero' /\ DrainedBeforeClose'
    BY <1>1 DEF RequestsTracked, LoopAtRequest, SlotsHeld, GroupAtZero, DrainedBeforeClose
<1>4. MutexHeld' /\ OnceHeld' /\ ExitsClosed'
    BY <1>1 DEF TypeOK, MutexHeld, OnceHeld, ExitsClosed
<1> QED
    BY <1>2, <1>3, <1>4

LEMMA InvariantStep == ProtocolInvariant /\ [Next]_vars => ProtocolInvariant'
<1> SUFFICES ASSUME ProtocolInvariant, [Next]_vars PROVE ProtocolInvariant'
    OBVIOUS
<1>1. CASE ~exited /\ Exit
    BY <1>1 DEF Exit, ProtocolInvariant, TypeOK, RequestsTracked, LoopAtRequest, SlotsHeld,
       MutexHeld, OnceHeld, GroupAtZero, DrainedBeforeClose, ExitsClosed
<1>2. CASE UNCHANGED vars
    BY <1>2 DEF vars, ProtocolInvariant, TypeOK, RequestsTracked, LoopAtRequest, SlotsHeld,
       MutexHeld, OnceHeld, GroupAtZero, DrainedBeforeClose, ExitsClosed
<1> QED
    BY <1>1, <1>2, LoopStep, GetStep, WakeStep, HandlerStep DEF Next, Running, Ended

LEMMA SpecInvariant == Spec => []ProtocolInvariant
BY InitInvariant, InvariantStep, PTL DEF Spec

(* run's variables stay within their types: no more gets hold a slot than  *)
(* maxConcurrency, and every slot is one of a get that the wait group      *)
(* counts, or is about to.                                                 *)
THEOREM Typing == Spec => []TypeOK
<1>1. ProtocolInvariant => TypeOK
    BY DEF ProtocolInvariant
<1> QED
    BY <1>1, SpecInvariant, PTL

(* Nothing is served by a store that is being closed: a put holds the      *)
(* mutex, which the signal handler never gives back, and the loop closes   *)
(* after its gets have left the wait group, unless a write has failed.     *)
THEOREM Served == Spec => []ServedBeforeClose
<1>1. ASSUME ProtocolInvariant, once # "new" PROVE loop # "put"
    BY <1>1 DEF ProtocolInvariant, TypeOK, MutexHeld, OnceHeld
<1>2. ASSUME ProtocolInvariant, once # "new",
             NEW i \in Requests, request[i] = "serving", handler = "select"
      PROVE  broken
    BY <1>2 DEF ProtocolInvariant, TypeOK, MutexHeld, OnceHeld, GroupAtZero, DrainedBeforeClose, RequestsTracked
<1>3. ProtocolInvariant => ServedBeforeClose
    BY <1>1, <1>2 DEF ServedBeforeClose
<1> QED
    BY <1>3, SpecInvariant, PTL

(* The helper ends with its store closed, whichever of the loop and the    *)
(* signal handler closes it: closeOnce makes the other one wait.  The one  *)
(* exception is a wait group that panics in a goroutine other than the     *)
(* loop's; no panic, and no other order of the loop, its gets and the      *)
(* handler, ends the process with the store open.                          *)
THEOREM Exits == Spec => []ExitsClosed
<1>1. ProtocolInvariant => ExitsClosed
    BY DEF ProtocolInvariant
<1> QED
    BY <1>1, SpecInvariant, PTL
=============================================================================
