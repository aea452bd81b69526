------------------------------ MODULE Requests ------------------------------
(***************************************************************************)
(* What a JSON-RPC client and its server promise together.  No pipe, no    *)
(* pending table and no goroutine: a call is asked, carried out at most    *)
(* once, and returns once, with its own answer or with an error.  An error *)
(* says nothing of whether the call is, or will still be, carried out.     *)
(***************************************************************************)
EXTENDS Naturals

CONSTANT Callers            \* positive numbers; 0 stands for no answer

VARIABLES asked,            \* calls that have begun
          executed,         \* calls a handler was started for
          answer,           \* call -> the call whose answer it returned, or 0
          returned

requests == <<asked, executed, answer, returned>>

RequestsInit ==
    /\ asked = {} /\ executed = {} /\ returned = {}
    /\ answer = [c \in Callers |-> 0]

Ask(c) ==
    /\ c \notin asked
    /\ asked' = asked \cup {c}
    /\ returned' \in {returned, returned \cup {c}}      \* refused at once
    /\ UNCHANGED <<executed, answer>>

Execute(c) ==
    /\ c \in asked \ executed
    /\ executed' = executed \cup {c}
    /\ UNCHANGED <<asked, answer, returned>>

Answered(c) ==
    /\ c \in executed \ returned
    /\ answer' = [answer EXCEPT ![c] = c]
    /\ returned' = returned \cup {c}
    /\ UNCHANGED <<asked, executed>>

Failed(c) ==
    /\ c \in asked \ returned
    /\ returned' = returned \cup {c}
    /\ UNCHANGED <<asked, executed, answer>>

RequestsNext ==
    \E c \in Callers : Ask(c) \/ Execute(c) \/ Answered(c) \/ Failed(c)

RequestsSpec == RequestsInit /\ [][RequestsNext]_requests
=============================================================================
