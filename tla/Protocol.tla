------------------------------- MODULE Protocol -------------------------------
(***************************************************************************)
(* The request loop of a helper (run in src/protocol.go): it reads one     *)
(* request at a time, serves a get on a goroutine of its own and a put     *)
(* itself, and closes the store when the input ends, when it is told to    *)
(* close, or when a signal arrives, which a third goroutine waits for.     *)
(*                                                                         *)
(* What a request does to the cache is BlobCache's subject; here it is one *)
(* step.  A second signal kills the helper, which is not represented.      *)
(*                                                                         *)
(* The wait group is Go's: a counter, here the set of gets it counts, and  *)
(* the goroutines waiting for it to come to zero.  It forbids adding a     *)
(* first get while another goroutine waits, and panics where it notices.   *)
(***************************************************************************)
EXTENDS Naturals, FiniteSets

CONSTANTS MaxConcurrency,  \* maxConcurrency: gets served at once
          MaxRequests,     \* bound: gets and puts the go command sends
          Signals,         \* whether SIGINT or SIGTERM may arrive
          WriteFailures    \* whether writing a response may fail

ASSUME ProtocolAssumption ==
    /\ MaxConcurrency \in Nat \ {0}
    /\ MaxRequests \in Nat
    /\ Signals \in BOOLEAN /\ WriteFailures \in BOOLEAN

VARIABLES loop,     \* next step of the request loop
          last,     \* how many requests it has read
          request,  \* how far each has come
          sem,      \* gets that hold a slot
          wg,       \* gets the wait group counts
          serving,  \* who holds the mutex: a put, the signal handler or none
          broken,   \* firstErr: a write has failed
          handler,  \* next step of the signal handler
          once,     \* closeOnce: who is closing the store
          exited    \* whether the process has ended

vars == <<loop, last, request, sem, wg, serving, broken, handler, once, exited>>

Requests == 1..MaxRequests

LoopSteps == {"read", "slot", "spawn", "lock", "put", "writePut", "unlock",
              "waitEnd", "waitClose", "writeClose", "close", "closing"}
HandlerSteps == {"select", "lock", "wait", "parked", "draining", "woken",
                 "stranded", "close", "closing"}
Progress == {"unread", "read", "serving", "writing", "answered", "lost"}

TypeOK ==
    /\ loop \in LoopSteps
    /\ last \in 0..MaxRequests
    /\ request \in [Requests -> Progress]
    /\ sem \subseteq wg \cup {last}
    /\ Cardinality(sem) <= MaxConcurrency
    /\ wg \subseteq 1..last
    /\ serving \in {"none", "loop", "handler"}
    /\ broken \in BOOLEAN
    /\ handler \in HandlerSteps
    /\ once \in {"new", "loop", "handler", "done"}
    /\ exited \in BOOLEAN

Init ==
    /\ loop = "read"
    /\ last = 0
    /\ request = [i \in Requests |-> "unread"]
    /\ sem = {}
    /\ wg = {}
    /\ serving = "none"
    /\ broken = FALSE
    /\ handler = "select"
    /\ once = "new"
    /\ exited = FALSE

Goto(from, to) ==
    /\ loop = from
    /\ loop' = to

Advance(i, from, to) ==
    /\ request[i] = from
    /\ request' = [request EXCEPT ![i] = to]

(* responseWriter.write: after one failure, every write fails. *)
WriteResponse(failed) ==
    /\ failed \in BOOLEAN
    /\ broken => failed
    /\ failed => broken \/ WriteFailures
    /\ broken' = failed
-----------------------------------------------------------------------------
(* The loop. *)

ReadRequest ==
    /\ \E to \in {"slot", "lock"} : Goto("read", to)
    /\ last < MaxRequests
    /\ last' = last + 1
    /\ Advance(last + 1, "unread", "read")
    /\ UNCHANGED <<sem, wg, serving, broken, handler, once>>

(* Mutant of ReadLast: the end of the input is read again and again. *)
SpinAtEnd ==
    /\ Goto("read", "read")
    /\ UNCHANGED <<last, request, sem, wg, serving, broken, handler, once>>

(* A close request, the end of the input, or input that is no request. *)
ReadLast ==
    /\ \E to \in {"waitClose", "waitEnd"} : Goto("read", to)
    /\ UNCHANGED <<last, request, sem, wg, serving, broken, handler, once>>

(* Mutant of TakeSlot: one slot too many. *)
TakeSlotOver ==
    /\ Goto("slot", "spawn")
    /\ Cardinality(sem) <= MaxConcurrency
    /\ sem' = sem \cup {last}
    /\ UNCHANGED <<last, request, wg, serving, broken, handler, once>>

TakeSlot ==
    /\ Goto("slot", "spawn")
    /\ Cardinality(sem) < MaxConcurrency
    /\ sem' = sem \cup {last}
    /\ UNCHANGED <<last, request, wg, serving, broken, handler, once>>

(* Nothing keeps the loop from adding to the group while the signal        *)
(* handler waits for it.                                                   *)
SpawnGet ==
    /\ handler # "draining"
    /\ Goto("spawn", "read")
    /\ Advance(last, "read", "serving")
    /\ wg' = wg \cup {last}
    /\ UNCHANGED <<last, sem, serving, broken, handler, once>>

(* Adding the first get to a group that has come to zero and still has its *)
(* waiter panics in the loop, after the get is counted and before it runs. *)
(* run's deferred calls close the store all the same.                      *)
SpawnMisused ==
    /\ handler = "draining"
    /\ Goto("spawn", "close")
    /\ wg' = wg \cup {last}
    /\ UNCHANGED <<last, request, sem, serving, broken, handler, once>>

LockServing ==
    /\ Goto("lock", "put")
    /\ serving = "none"
    /\ serving' = "loop"
    /\ Advance(last, "read", "serving")
    /\ UNCHANGED <<last, sem, wg, broken, handler, once>>

HandlePut ==
    /\ Goto("put", "writePut")
    /\ Advance(last, "serving", "writing")
    /\ UNCHANGED <<last, sem, wg, serving, broken, handler, once>>

WritePut ==
    /\ Goto("writePut", "unlock")
    /\ \E failed \in BOOLEAN :
        /\ WriteResponse(failed)
        /\ Advance(last, "writing", IF failed THEN "lost" ELSE "answered")
    /\ UNCHANGED <<last, sem, wg, serving, handler, once>>

(* A put that could not be answered ends the loop, without the wait below. *)
UnlockServing ==
    /\ Goto("unlock", IF request[last] = "lost" THEN "close" ELSE "read")
    /\ serving' = "none"
    /\ UNCHANGED <<last, request, sem, wg, broken, handler, once>>

(* Mutant of WaitGets: in-flight gets are not waited for. *)
SkipWait ==
    /\ Goto("waitEnd", "close") \/ Goto("waitClose", "writeClose")
    /\ UNCHANGED <<last, request, sem, wg, serving, broken, handler, once>>

(* One step, unlike the handler's wait: only the loop adds, and it is here. *)
WaitGets ==
    /\ Goto("waitEnd", "close") \/ Goto("waitClose", "writeClose")
    /\ wg = {}
    /\ UNCHANGED <<last, request, sem, wg, serving, broken, handler, once>>

WriteClose ==
    /\ Goto("writeClose", "close")
    /\ \E failed \in BOOLEAN : WriteResponse(failed)
    /\ UNCHANGED <<last, request, sem, wg, serving, handler, once>>

(* The deferred closeStore: closeOnce runs st.close, or waits while the    *)
(* signal handler runs it.                                                 *)
LoopCloses ==
    /\ Goto("close", "closing")
    /\ once = "new"
    /\ once' = "loop"
    /\ UNCHANGED <<last, request, sem, wg, serving, broken, handler>>

LoopClosed ==
    /\ Goto("closing", "close")
    /\ once' = "done"
    /\ UNCHANGED <<last, request, sem, wg, serving, broken, handler>>
-----------------------------------------------------------------------------
(* A get. *)

PutInProgress(i) == i = last /\ loop \in {"put", "writePut"}

HandleGet(i) ==
    /\ ~PutInProgress(i)
    /\ Advance(i, "serving", "writing")
    /\ UNCHANGED <<loop, last, sem, wg, serving, broken, handler, once>>

WriteGet(i) ==
    /\ ~PutInProgress(i)
    /\ \E failed \in BOOLEAN :
        /\ WriteResponse(failed)
        /\ Advance(i, "writing", IF failed THEN "lost" ELSE "answered")
    /\ UNCHANGED <<loop, last, sem, wg, serving, handler, once>>

GiveSlot(i) ==
    /\ i \in sem
    /\ request[i] \in {"answered", "lost"}
    /\ sem' = sem \ {i}
    /\ UNCHANGED <<loop, last, request, wg, serving, broken, handler, once>>

(* Mutant of LeaveGroup: a get leaves the group before it writes. *)
LeaveEarly(i) ==
    /\ i \in wg
    /\ request[i] \notin {"read", "serving"}
    /\ wg' = wg \ {i}
    /\ sem' = sem \ {i}
    /\ handler' = IF handler = "parked" /\ wg' = {} THEN "draining" ELSE handler
    /\ UNCHANGED <<loop, last, request, serving, broken, once>>

(* The last get to leave a group that has a waiter goes on to wake it.     *)
LeaveGroup(i) ==
    /\ i \in wg \ sem
    /\ wg' = wg \ {i}
    /\ handler' = IF handler = "parked" /\ wg' = {} THEN "draining" ELSE handler
    /\ UNCHANGED <<loop, last, request, sem, serving, broken, once>>

(* It checks that the group is still at zero, resets it, and wakes the     *)
(* waiter.  A get added after the check is forgotten by the reset.         *)
WakeWaiter ==
    /\ handler = "draining"
    /\ handler' = "woken"
    /\ wg' = {}
    /\ UNCHANGED <<loop, last, request, sem, serving, broken, once>>

(* A get added before the check makes it panic instead, in the goroutine   *)
(* of the get that is done.                                                *)
WakePanics ==
    /\ handler = "draining"
    /\ wg # {}
    /\ handler' = "stranded"
    /\ UNCHANGED <<loop, last, request, sem, wg, serving, broken, once>>
-----------------------------------------------------------------------------
(* The signal handler, shutdownOnSignal. *)

Handle(from, to) ==
    /\ handler = from
    /\ handler' = to

(* The loop stops signals as it returns; one delivered before may still be *)
(* picked up after.                                                        *)
Signal ==
    /\ Handle("select", "lock")
    /\ Signals
    /\ UNCHANGED <<loop, last, request, sem, wg, serving, broken, once>>

HandlerLocks ==
    /\ Handle("lock", "wait")
    /\ serving = "none"
    /\ serving' = "handler"
    /\ UNCHANGED <<loop, last, request, sem, wg, broken, once>>

(* wg.Wait: at once, or once woken, and then only if no get was added      *)
(* since.                                                                  *)
HandlerWaits ==
    /\ IF wg = {} THEN Handle("wait", "close") ELSE Handle("wait", "parked")
    /\ UNCHANGED <<loop, last, request, sem, wg, serving, broken, once>>

HandlerResumes ==
    /\ Handle("woken", "close")
    /\ wg = {}
    /\ UNCHANGED <<loop, last, request, sem, wg, serving, broken, once>>

(* No goroutine but the loop's has a deferred close: this panic, like      *)
(* WakePanics, ends the process with the store as it is.                   *)
HandlerPanics ==
    /\ Handle("woken", "stranded")
    /\ wg # {}
    /\ UNCHANGED <<loop, last, request, sem, wg, serving, broken, once>>

HandlerCloses ==
    /\ Handle("close", "closing")
    /\ once = "new"
    /\ once' = "handler"
    /\ UNCHANGED <<loop, last, request, sem, wg, serving, broken>>

HandlerClosed ==
    /\ Handle("closing", "close")
    /\ once' = "done"
    /\ UNCHANGED <<loop, last, request, sem, wg, serving, broken>>

(* Mutant of Exit: a close another goroutine is still running counts. *)
ExitEarly ==
    /\ \/ (loop = "close" \/ handler = "close") /\ once # "new"
       \/ handler = "stranded"
    /\ exited' = TRUE
    /\ UNCHANGED <<loop, last, request, sem, wg, serving, broken, handler, once>>

(* The loop returns from run, or panics on, or the signal handler calls    *)
(* os.Exit; a panic elsewhere ends the process whatever the others do.     *)
Exit ==
    /\ \/ (loop = "close" \/ handler = "close") /\ once = "done"
       \/ handler = "stranded"
    /\ exited' = TRUE
    /\ UNCHANGED <<loop, last, request, sem, wg, serving, broken, handler, once>>
-----------------------------------------------------------------------------
LoopNext ==
    \/ ReadRequest \/ ReadLast \/ TakeSlot \/ SpawnGet \/ SpawnMisused
    \/ LockServing \/ HandlePut \/ WritePut \/ UnlockServing
    \/ WaitGets \/ WriteClose \/ LoopCloses \/ LoopClosed

GetNext(i) == HandleGet(i) \/ WriteGet(i) \/ GiveSlot(i) \/ LeaveGroup(i)

LastGetNext == WakeWaiter \/ WakePanics

HandlerNext ==
    \/ HandlerLocks \/ HandlerWaits \/ HandlerResumes \/ HandlerPanics
    \/ HandlerCloses \/ HandlerClosed

Running(A) == ~exited /\ A /\ UNCHANGED exited

Ended == exited /\ UNCHANGED vars

Next ==
    \/ Running(LoopNext)
    \/ \E i \in Requests : Running(GetNext(i))
    \/ Running(LastGetNext)
    \/ Running(Signal \/ HandlerNext)
    \/ ~exited /\ Exit
    \/ Ended

(* Every goroutine that can go on does, and the go command sends another   *)
(* request, or ends its input.  A signal need never come.                  *)
Fairness ==
    /\ WF_vars(Running(LoopNext))
    /\ \A i \in Requests : WF_vars(Running(GetNext(i)))
    /\ WF_vars(Running(LastGetNext))
    /\ WF_vars(Running(HandlerNext))
    /\ WF_vars(~exited /\ Exit)

Spec == Init /\ [][Next]_vars /\ Fairness
-----------------------------------------------------------------------------
(* Properties.                                                             *)

(* No request is served by a store that is being closed, whose live files  *)
(* are being stripped ("In-flight gets are still materialising into the    *)
(* run directory that the deferred close is about to strip").  Of puts     *)
(* that is so whatever happens, which is what the mutex is for; of gets,   *)
(* unless a signal came or a response could not be written.                *)
ServedBeforeClose ==
    once # "new" =>
        /\ loop # "put"
        /\ \A i \in Requests :
            request[i] = "serving" => broken \/ handler # "select"

(* The helper exits only after its store is closed, whichever of the loop  *)
(* and the signal handler closes it and whichever ends the process, but    *)
(* for one way out: the wait group panics on the signal handler's side.    *)
(* That takes a signal that found gets in flight, and a loop that adds     *)
(* another as the last of them ends ("waiting on the same group as its     *)
(* gets"); then nothing strips the run directory.                          *)
ExitsClosed == exited => once = "done" \/ handler = "stranded"

(* The invariant that makes both so: how far a request has come says who   *)
(* is at it, and so do the slots, the wait group, the mutex and closeOnce; *)
(* and a loop that is past its wait has no get left to wait for, unless it *)
(* came there by a failed write or by a panic.                             *)
RequestsTracked ==
    \A i \in Requests :
        /\ i > last <=> request[i] = "unread"
        /\ request[i] = "read" =>
             i = last /\ loop \in {"slot", "spawn", "lock", "close", "closing"}
        /\ request[i] = "serving" => i \in wg \/ (i = last /\ loop = "put")
        /\ request[i] = "writing" => i \in wg \/ (i = last /\ loop = "writePut")
        /\ request[i] = "lost" => broken

LoopAtRequest ==
    /\ loop \in {"slot", "spawn", "lock"} => last > 0 /\ request[last] = "read"
    /\ loop = "put" => last > 0 /\ request[last] = "serving" /\ last \notin wg
    /\ loop = "writePut" => last > 0 /\ request[last] = "writing" /\ last \notin wg
    /\ loop = "unlock" => last > 0

SlotsHeld ==
    /\ loop = "spawn" => last \in sem
    /\ \A i \in sem \ wg : /\ i = last /\ request[i] = "read"
                           /\ loop \in {"spawn", "close", "closing"}
    /\ \A i \in wg : /\ request[i] = "read" => loop \in {"close", "closing"}
                     /\ request[i] \in {"serving", "writing"} => i \in sem

MutexHeld ==
    /\ serving = "loop" <=> loop \in {"put", "writePut", "unlock"}
    /\ serving = "handler" <=> handler \notin {"select", "lock"}

OnceHeld ==
    /\ once = "loop" <=> loop = "closing"
    /\ once = "handler" <=> handler = "closing"
    /\ once = "done" => loop = "close" \/ handler = "close"

(* All that a group at zero can count is a get whose adding panicked.      *)
GroupAtZero == handler = "draining" => \A i \in wg : request[i] = "read"

DrainedBeforeClose ==
    loop \in {"writeClose", "close", "closing"} =>
        broken \/ wg = {} \/ handler \in {"draining", "stranded"}

ProtocolInvariant ==
    /\ TypeOK /\ RequestsTracked /\ LoopAtRequest /\ SlotsHeld
    /\ MutexHeld /\ OnceHeld /\ GroupAtZero /\ DrainedBeforeClose /\ ExitsClosed

(* Every request that is read is answered, unless a response could not be  *)
(* written before, or a signal came.                                       *)
RequestsAnswered ==
    \A i \in Requests :
        request[i] = "read" ~> request[i] = "answered" \/ broken \/ handler # "select"

(* The helper ends, once its input does, though responses fail to be       *)
(* written and a signal may come at any time: the loop, the slots, the     *)
(* wait group, the mutex and closeOnce never wait for each other in vain,  *)
(* not even where the group forgets a get (WakeWaiter).  A panic of the    *)
(* group ends it too.                                                      *)
EventuallyExits == <>exited
=============================================================================
