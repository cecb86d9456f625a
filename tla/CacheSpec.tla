------------------------------ MODULE CacheSpec ------------------------------
(***************************************************************************)
(* What gocachez promises the go command, with no files, no catalog and no *)
(* maintenance: a put that is answered has stored its output under its     *)
(* action, and a get answers either a miss or an output that its action    *)
(* named at some moment between the request and the answer.  A miss is     *)
(* always allowed; a wrong answer, or an answer whose bytes are not those  *)
(* of the output, never is.                                                *)
(***************************************************************************)
CONSTANTS Clients, Actions, Outputs,
          None       \* no action, or no output

VARIABLES stored,    \* the output last stored under each action
          state,     \* how far each client's request has come
          action,    \* the action each client asks for
          answer     \* the output each client stores, or has found

vars == <<stored, state, action, answer>>

States == {"idle", "asked", "found", "hit", "missed", "storing", "stored"}

Init ==
    /\ stored = [a \in Actions |-> None]
    /\ state  = [c \in Clients |-> "idle"]
    /\ action = [c \in Clients |-> None]
    /\ answer = [c \in Clients |-> None]

Become(c, s, a, o) ==
    /\ state'  = [state EXCEPT ![c] = s]
    /\ action' = [action EXCEPT ![c] = a]
    /\ answer' = [answer EXCEPT ![c] = o]

Ask(c, a) ==
    /\ state[c] = "idle"
    /\ Become(c, "asked", a, None)
    /\ UNCHANGED stored

(* The moment a get takes effect: the answer is what the action names now. *)
Find(c) ==
    /\ state[c] = "asked"
    /\ stored[action[c]] # None
    /\ Become(c, "found", action[c], stored[action[c]])
    /\ UNCHANGED stored

Hit(c) ==
    /\ state[c] = "found"
    /\ Become(c, "hit", action[c], answer[c])
    /\ UNCHANGED stored

Miss(c) ==
    /\ state[c] \in {"asked", "found"}
    /\ Become(c, "missed", action[c], None)
    /\ UNCHANGED stored

BeginStore(c, a, o) ==
    /\ state[c] = "idle"
    /\ Become(c, "storing", a, o)
    /\ UNCHANGED stored

(* The moment a put takes effect. *)
Store(c) ==
    /\ state[c] = "storing"
    /\ stored' = [stored EXCEPT ![action[c]] = answer[c]]
    /\ Become(c, "stored", action[c], answer[c])

(* A request ends when it is answered, when it fails, or when a crash takes *)
(* several of them at once.                                                 *)
End(S) ==
    /\ state'  = [c \in Clients |-> IF c \in S THEN "idle" ELSE state[c]]
    /\ action' = [c \in Clients |-> IF c \in S THEN None ELSE action[c]]
    /\ answer' = [c \in Clients |-> IF c \in S THEN None ELSE answer[c]]
    /\ UNCHANGED stored

Next ==
    \/ \E c \in Clients :
        \/ \E a \in Actions : Ask(c, a) \/ \E o \in Outputs : BeginStore(c, a, o)
        \/ Find(c) \/ Hit(c) \/ Miss(c) \/ Store(c)
    \/ \E S \in SUBSET Clients : End(S)

Spec == Init /\ [][Next]_vars
=============================================================================
