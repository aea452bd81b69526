-------------------------- MODULE SubscribeToTask --------------------------
(***************************************************************************)
(* The gRPC handler Server.SubscribeToTask (a2a/grpc/grpc.go) beside a     *)
(* running TaskStore.  It reads the store three times, each time under a   *)
(* lock of its own: the task, then its broker, then, when there is no      *)
(* broker, the task again, which it reports as the final state.            *)
(* With a broker it goes on as a subscriber of TaskBroker.                 *)
(***************************************************************************)
EXTENDS TaskStore

CONSTANT Watchers   \* the SubscribeToTask calls

VARIABLES
    stage,      \* where each call stands
    target,     \* the task asked for
    snap,       \* the state of its copy of the task
    fresh,      \* the copy is from the second read
    hadBroker   \* the task had a broker at the first read (history)

watch == <<stage, target, snap, fresh, hadBroker>>
allVars == <<vars, watch>>

WatchInit ==
    /\ Init
    /\ stage = [w \in Watchers |-> "idle"]
    /\ target \in [Watchers -> Tasks]
    /\ snap = [w \in Watchers |-> "none"]
    /\ fresh = [w \in Watchers |-> FALSE]
    /\ hadBroker = [w \in Watchers |-> FALSE]

\* Get: an unknown id is answered with NotFound.
First(w) ==
    /\ stage[w] = "idle"
    /\ IF target[w] \in tasks
       THEN /\ stage' = [stage EXCEPT ![w] = "read"]
            /\ snap' = [snap EXCEPT ![w] = status[target[w]]]
            /\ hadBroker' = [hadBroker EXCEPT ![w] = target[w] \in brokers]
       ELSE /\ stage' = [stage EXCEPT ![w] = "notFound"]
            /\ UNCHANGED <<snap, hadBroker>>
    /\ UNCHANGED <<vars, target, fresh>>

\* Subscribe looks the broker up.
Look(w) ==
    /\ stage[w] = "read"
    /\ stage' = [stage EXCEPT ![w] = IF target[w] \in brokers THEN "live" ELSE "refused"]
    /\ UNCHANGED <<vars, target, snap, fresh, hadBroker>>

\* Mutant of Fallback: the first copy is reported, without the second read.
FallbackOnFirstCopy(w) ==
    /\ stage[w] = "refused"
    /\ stage' = [stage EXCEPT ![w] = "told"]
    /\ fresh' = [fresh EXCEPT ![w] = target[w] \in tasks]
    /\ UNCHANGED <<vars, target, snap, hadBroker>>

\* The second read, and Status(state, final = true) from what it gave; the
\* first copy serves when the task has been evicted in between.
Fallback(w) ==
    /\ stage[w] = "refused"
    /\ stage' = [stage EXCEPT ![w] = "told"]
    /\ IF target[w] \in tasks
       THEN /\ snap' = [snap EXCEPT ![w] = status[target[w]]]
            /\ fresh' = [fresh EXCEPT ![w] = TRUE]
       ELSE UNCHANGED <<snap, fresh>>
    /\ UNCHANGED <<vars, target, hadBroker>>

Watch(w) == First(w) \/ Look(w) \/ Fallback(w)

WatchedNext ==
    \/ Next /\ UNCHANGED watch
    \/ \E w \in Watchers : Watch(w)

WatchedSpec == WatchInit /\ [][WatchedNext]_allVars /\ Fairness

WatchTypeOK ==
    /\ TypeOK
    /\ stage \in [Watchers -> {"idle", "notFound", "read", "live", "refused", "told"}]
    /\ target \in [Watchers -> Tasks]
    /\ snap \in [Watchers -> State \union {"none"}]
    /\ fresh \in [Watchers -> BOOLEAN]
    /\ hadBroker \in [Watchers -> BOOLEAN]

\* A caller that came while the task had a broker and found it gone is told the
\* task's terminal state, as long as the task is still stored: the broker goes
\* only after the task has settled, and the second read comes after that.
LateWatcherSeesOutcome ==
    \A w \in Watchers :
        stage[w] = "told" /\ hadBroker[w] /\ fresh[w] =>
            snap[w] \in Terminal /\ snap[w] = status[target[w]]

\* A caller refused for want of a live broker is told a terminal state.
FallbackIsTerminal ==
    \A w \in Watchers : stage[w] = "told" => snap[w] \in Terminal

=============================================================================
