------------------------------ MODULE TaskStore ------------------------------
(***************************************************************************)
(* The A2A task lifecycle engine, TaskStore in a2a/taskstore.go: the calls *)
(* Send and SendStream (here "sync"), SendAsync ("async"), Cancel and      *)
(* Shutdown, and eviction.  One element of Tasks is one call, with the     *)
(* task it creates.                                                        *)
(*                                                                         *)
(* TaskStore.mu makes each of begin, complete, fail, snapshot, end,        *)
(* finishAsync, Cancel and the first half of Shutdown one step; the calls  *)
(* run on goroutines of their own, so everything between interleaves.      *)
(***************************************************************************)
EXTENDS Naturals, FiniteSets

CONSTANTS
    Tasks,      \* the calls made to the store, each with its task
    MaxTasks,   \* TaskStore.MaxTasks, after its default is applied
    MaxAge,     \* TaskStore.MaxAge in ticks, after its default is applied
    Second,     \* ticks of the clock in a second
    MaxClock    \* bound: how far the clock runs

ASSUME StoreAssumption ==
    /\ MaxTasks \in Nat \ {0}
    /\ MaxAge \in Nat \ {0}
    /\ Second \in Nat \ {0}
    /\ MaxClock \in Nat

VARIABLES
    clock,      \* nowFn, in ticks
    kind,       \* which call was made: "sync" or "async"
    pc,         \* where its goroutine stands
    status,     \* Task.Status.State
    stamp,      \* when Task.Status was set; the store keeps its Timestamp
    artifact,   \* the tasks with Artifacts
    tasks,      \* the keys of TaskStore.tasks
    inFlight,   \* the keys of TaskStore.inFlight
    brokers,    \* the keys of TaskStore.brokers
    terminalAt, \* the keys of TaskStore.terminalAt; the time is Timestamp
    ctxDone,    \* the tasks whose handler context is canceled
    wg,         \* the goroutines TaskStore.wg counts
    reported,   \* the state the call has reported as its last: reply or final status
    closing,    \* where Shutdown stands
    owed,       \* async calls in flight when Shutdown canceled (history)
    counted     \* those of them that wg counted then (history)

book == <<tasks, inFlight, brokers, terminalAt>>
shutdown == <<closing, owed, counted>>
vars == <<clock, kind, pc, status, stamp, artifact, book, ctxDone, wg, reported, shutdown>>

-----------------------------------------------------------------------------
Terminal == {"completed", "failed", "canceled"}     \* nothing sets "rejected"
State == {"submitted", "working"} \union Terminal

Settled == {t \in Tasks : status[t] \in Terminal}

Init ==
    /\ clock = 0
    /\ kind = [t \in Tasks |-> "none"]
    /\ pc = [t \in Tasks |-> "idle"]
    /\ status = [t \in Tasks |-> "submitted"]
    /\ stamp = [t \in Tasks |-> 0]
    /\ artifact = {}
    /\ tasks = {} /\ inFlight = {} /\ brokers = {} /\ terminalAt = {}
    /\ ctxDone = {}
    /\ wg = {}
    /\ reported = [t \in Tasks |-> "none"]
    /\ closing = "open" /\ owed = {} /\ counted = {}

-----------------------------------------------------------------------------
(* Eviction.                                                               *)

\* Mutant of Evictable: a canceled task goes although its handler still runs.
EvictableWhileBusy(stored, busy) == stored \intersect Settled

Evictable(stored, busy) == (stored \ busy) \intersect Settled

\* What the store keeps of a time, in Status.Timestamp as in terminalAt, is its
\* whole seconds; the clock it is compared with keeps the fraction.
Timestamp(t) == (stamp[t] \div Second) * Second

Expired(stored, busy) == {t \in Evictable(stored, busy) : Timestamp(t) + MaxAge < clock}

\* Mutant of EvictedForCap: the cap is off by one.
EvictedForCapLate(stored, idle) ==
    {drop \in SUBSET idle :
        /\ \A t \in drop, u \in idle \ drop : Timestamp(t) <= Timestamp(u)
        /\ Cardinality(stored \ drop) <= MaxTasks + 1 \/ drop = idle
        /\ drop # {} => Cardinality(stored \ drop) >= MaxTasks + 1}

\* The oldest of the idle tasks, as many as it takes to get down to MaxTasks
\* or all there are; which of several with one timestamp is left to the order
\* of a map.
EvictedForCap(stored, idle) ==
    {drop \in SUBSET idle :
        /\ \A t \in drop, u \in idle \ drop : Timestamp(t) <= Timestamp(u)
        /\ Cardinality(stored \ drop) <= MaxTasks \/ drop = idle
        /\ drop # {} => Cardinality(stored \ drop) >= MaxTasks}

\* evictLocked: first by age, then by count.  It reads, and so caches, the
\* terminal time of every task it considers.
Evict(stored, busy) ==
    LET aged == Expired(stored, busy)
        rest == stored \ aged
    IN  \E drop \in EvictedForCap(rest, Evictable(rest, busy)) :
          /\ tasks' = rest \ drop
          /\ terminalAt' = (terminalAt \union Evictable(stored, busy)) \ (aged \union drop)

-----------------------------------------------------------------------------
(* One call: newTask and begin, the handler, the end.                      *)

\* newTask and begin.  The handler of a sync call runs at once.
Begin(t, k) ==
    /\ pc[t] = "idle"
    /\ kind' = [kind EXCEPT ![t] = k]
    /\ pc' = [pc EXCEPT ![t] = IF k = "sync" THEN "running" ELSE "begun"]
    /\ status' = [status EXCEPT ![t] = "working"]
    /\ stamp' = [stamp EXCEPT ![t] = clock]
    /\ inFlight' = inFlight \union {t}
    /\ Evict(tasks \union {t}, inFlight \union {t})
    /\ UNCHANGED <<clock, artifact, brokers, ctxDone, wg, reported, shutdown>>

\* SendAsync: the broker is listed before the goroutine exists.
RegisterBroker(t) ==
    /\ pc[t] = "begun"
    /\ pc' = [pc EXCEPT ![t] = "registered"]
    /\ brokers' = brokers \union {t}
    /\ UNCHANGED <<clock, kind, status, stamp, artifact, tasks, inFlight, terminalAt,
                   ctxDone, wg, reported, shutdown>>

\* wg.Add and the go statement.
Launch(t) ==
    /\ pc[t] = "registered"
    /\ pc' = [pc EXCEPT ![t] = "running"]
    /\ wg' = wg \union {t}
    /\ UNCHANGED <<clock, kind, status, stamp, artifact, book, ctxDone, reported, shutdown>>

\* Mutant of Settle: a terminal state is overwritten.
SettleAnyway(t, outcome) ==
    /\ pc[t] = "running"
    /\ pc' = [pc EXCEPT ![t] = "settled"]
    /\ status' = [status EXCEPT ![t] = outcome]
    /\ stamp' = [stamp EXCEPT ![t] = clock]
    /\ artifact' = IF outcome = "completed" THEN artifact \union {t} ELSE artifact
    /\ terminalAt' = terminalAt \union {t}
    /\ UNCHANGED <<clock, kind, tasks, inFlight, brokers, ctxDone, wg, reported, shutdown>>

\* The handler returns and complete or fail records it, unless the task is
\* terminal already.
Settle(t, outcome) ==
    /\ pc[t] = "running"
    /\ pc' = [pc EXCEPT ![t] = "settled"]
    /\ IF status[t] \in Terminal
       THEN UNCHANGED <<status, stamp, artifact, terminalAt>>
       ELSE /\ status' = [status EXCEPT ![t] = outcome]
            /\ stamp' = [stamp EXCEPT ![t] = clock]
            /\ artifact' = IF outcome = "completed" THEN artifact \union {t} ELSE artifact
            /\ terminalAt' = terminalAt \union {t}
    /\ UNCHANGED <<clock, kind, tasks, inFlight, brokers, ctxDone, wg, reported, shutdown>>

HandlerReturns(t) == \E outcome \in {"completed", "failed"} : Settle(t, outcome)

\* The snapshot that becomes the reply, or the final status of the stream.
Report(t) ==
    /\ pc[t] = "settled"
    /\ pc' = [pc EXCEPT ![t] = "reported"]
    /\ reported' = [reported EXCEPT ![t] = status[t]]
    /\ UNCHANGED <<clock, kind, status, stamp, artifact, book, ctxDone, wg, shutdown>>

\* Mutant of End: finishAsync forgets the broker.
EndLeaking(t) ==
    /\ pc[t] = "reported"
    /\ pc' = [pc EXCEPT ![t] = IF kind[t] = "async" THEN "ended" ELSE "finished"]
    /\ inFlight' = inFlight \ {t}
    /\ ctxDone' = ctxDone \union {t}
    /\ UNCHANGED <<clock, kind, status, stamp, artifact, tasks, brokers, terminalAt,
                   wg, reported, shutdown>>

\* The deferred end, or finishAsync, and the deferred cancel.
End(t) ==
    /\ pc[t] = "reported"
    /\ pc' = [pc EXCEPT ![t] = IF kind[t] = "async" THEN "ended" ELSE "finished"]
    /\ inFlight' = inFlight \ {t}
    /\ brokers' = brokers \ {t}
    /\ ctxDone' = ctxDone \union {t}
    /\ UNCHANGED <<clock, kind, status, stamp, artifact, tasks, terminalAt,
                   wg, reported, shutdown>>

\* wg.Done, the last deferred call of an async goroutine.
WgDone(t) ==
    /\ pc[t] = "ended"
    /\ pc' = [pc EXCEPT ![t] = "finished"]
    /\ wg' = wg \ {t}
    /\ UNCHANGED <<clock, kind, status, stamp, artifact, book, ctxDone, reported, shutdown>>

\* The client of a sync call goes away: its request context ends.
RequestDone(t) ==
    /\ kind[t] = "sync"
    /\ pc[t] = "running"
    /\ t \notin ctxDone
    /\ ctxDone' = ctxDone \union {t}
    /\ UNCHANGED <<clock, kind, pc, status, stamp, artifact, book, wg, reported, shutdown>>

-----------------------------------------------------------------------------
(* Cancel and Shutdown.                                                    *)

\* Mutant of Cancel: the terminal check is missing.
CancelAnyway(t) ==
    /\ t \in tasks
    /\ status' = [status EXCEPT ![t] = "canceled"]
    /\ stamp' = [stamp EXCEPT ![t] = clock]
    /\ ctxDone' = ctxDone \union ({t} \intersect inFlight)
    /\ UNCHANGED <<clock, kind, pc, artifact, book, wg, reported, shutdown>>

\* Mutant of Cancel: the handler is not interrupted.
CancelQuietly(t) ==
    /\ t \in tasks
    /\ status[t] \notin Terminal
    /\ status' = [status EXCEPT ![t] = "canceled"]
    /\ stamp' = [stamp EXCEPT ![t] = clock]
    /\ UNCHANGED <<clock, kind, pc, artifact, book, ctxDone, wg, reported, shutdown>>

\* An absent task, or a terminal one, is an error and changes nothing.
\* terminalAt is not set: eviction falls back on the timestamp.
Cancel(t) ==
    /\ t \in tasks
    /\ status[t] \notin Terminal
    /\ status' = [status EXCEPT ![t] = "canceled"]
    /\ stamp' = [stamp EXCEPT ![t] = clock]
    /\ ctxDone' = ctxDone \union ({t} \intersect inFlight)
    /\ UNCHANGED <<clock, kind, pc, artifact, book, wg, reported, shutdown>>

\* Mutant of ShutdownCancels: the cancel functions are not called.
ShutdownOnlyWaits ==
    /\ closing = "open"
    /\ closing' = "waiting"
    /\ owed' = {t \in inFlight : kind[t] = "async"}
    /\ counted' = wg
    /\ UNCHANGED <<clock, kind, pc, status, stamp, artifact, book, ctxDone, wg, reported>>

\* Shutdown cancels what is in flight now.
ShutdownCancels ==
    /\ closing = "open"
    /\ closing' = "waiting"
    /\ ctxDone' = ctxDone \union inFlight
    /\ owed' = {t \in inFlight : kind[t] = "async"}
    /\ counted' = wg
    /\ UNCHANGED <<clock, kind, pc, status, stamp, artifact, book, wg, reported>>

\* Mutant of ShutdownReturns: wg.Wait is left out.
ShutdownHurries ==
    /\ closing = "waiting"
    /\ closing' \in {"drained", "timedOut"}
    /\ UNCHANGED <<clock, kind, pc, status, stamp, artifact, book, ctxDone, wg, reported,
                   owed, counted>>

\* Then wg.Wait returns, or Shutdown's own context ends first.
ShutdownReturns ==
    /\ closing = "waiting"
    /\ \/ wg = {} /\ closing' = "drained"
       \/ closing' = "timedOut"
    /\ UNCHANGED <<clock, kind, pc, status, stamp, artifact, book, ctxDone, wg, reported,
                   owed, counted>>

Tick ==
    /\ clock < MaxClock
    /\ clock' = clock + 1
    /\ UNCHANGED <<kind, pc, status, stamp, artifact, book, ctxDone, wg, reported, shutdown>>

-----------------------------------------------------------------------------
\* What a goroutine does without waiting for anything but its handler.
Advance(t) == RegisterBroker(t) \/ Launch(t) \/ Report(t) \/ End(t) \/ WgDone(t)

TaskNext(t) ==
    \/ \E k \in {"sync", "async"} : Begin(t, k)
    \/ Advance(t)
    \/ HandlerReturns(t)
    \/ RequestDone(t)
    \/ Cancel(t)

Next ==
    \/ \E t \in Tasks : TaskNext(t)
    \/ ShutdownCancels \/ ShutdownReturns
    \/ Tick

Spec == Init /\ [][Next]_vars

\* Goroutines keep running.  A handler need not return of its own accord; one
\* whose context is canceled does, as a handler must and agentHandler does.
Fairness ==
    /\ \A t \in Tasks : WF_vars(Advance(t))
    /\ \A t \in Tasks : WF_vars(t \in ctxDone /\ HandlerReturns(t))
    /\ WF_vars(ShutdownReturns)

FairSpec == Spec /\ Fairness

-----------------------------------------------------------------------------
TypeOK ==
    /\ clock \in Nat
    /\ kind \in [Tasks -> {"none", "sync", "async"}]
    /\ pc \in [Tasks -> {"idle", "begun", "registered", "running", "settled",
                         "reported", "ended", "finished"}]
    /\ status \in [Tasks -> State]
    /\ stamp \in [Tasks -> Nat]
    /\ artifact \in SUBSET Tasks
    /\ tasks \in SUBSET Tasks /\ inFlight \in SUBSET Tasks
    /\ brokers \in SUBSET Tasks /\ terminalAt \in SUBSET Tasks
    /\ ctxDone \in SUBSET Tasks
    /\ wg \in SUBSET Tasks
    /\ reported \in [Tasks -> State \union {"none"}]
    /\ closing \in {"open", "waiting", "drained", "timedOut"}
    /\ owed \in SUBSET Tasks /\ counted \in SUBSET Tasks

\* A terminal state is never left: of a Cancel, a Shutdown and the handler's
\* own end the first to take the lock decides, and the others do not overwrite
\* it (nor attach an artifact to it afterwards).
TerminalIsFinal ==
    [][\A t \in Settled :
          status'[t] = status[t] /\ (t \in artifact' <=> t \in artifact)]_vars

\* The state a call reports last, in its reply or in the final status of its
\* stream, is the terminal state the store holds for it from then on.
ReportIsTheOutcome ==
    \A t \in Tasks : reported[t] # "none" =>
        /\ reported[t] = status[t]
        /\ reported[t] \in Terminal
        /\ reported[t] = "completed" <=> t \in artifact

\* The four maps of the store stay in step: a task is in flight, and stored,
\* from begin until its goroutine ends, so that eviction never takes a task
\* whose handler may still run and a stored task that is not terminal can
\* always be interrupted; and nothing is left behind in brokers or terminalAt
\* by a task that is gone.
BooksAgree ==
    /\ brokers \subseteq inFlight
    /\ inFlight \subseteq tasks
    /\ tasks \ inFlight \subseteq Settled
    /\ terminalAt \subseteq tasks \intersect Settled
    /\ \A t \in Tasks : t \in inFlight <=> pc[t] \notin {"idle", "ended", "finished"}

\* A stored task that is canceled has had its handler's context canceled: no
\* canceled handler runs on.
CanceledIsInterrupted ==
    \A t \in Tasks : status[t] = "canceled" => t \in ctxDone

\* After a call has begun, the store holds more than MaxTasks tasks only if
\* none of them could be evicted, and nothing that ended longer than MaxAge ago.
\* What was evicted had ended no less than MaxAge less a second ago, or made
\* room, and was then no more than a second younger than what was kept: the
\* fraction of a second that a timestamp loses is all that may be wrong.
Retention ==
    [][inFlight' \ inFlight # {} =>
         LET kept == (tasks' \ inFlight') \intersect Settled
             gone == tasks \ tasks'
             old == {t \in gone : stamp[t] + MaxAge < clock + Second}
         IN  /\ Cardinality(tasks') <= MaxTasks \/ kept = {}
             /\ \A t \in kept : stamp[t] + MaxAge >= clock
             /\ \A t \in gone \ old, u \in kept : stamp[t] < stamp[u] + Second
             /\ gone \subseteq old \/ Cardinality(tasks') >= MaxTasks]_vars

\* When Shutdown returns without timing out, every async handler that was
\* counted when it canceled has finished.
ShutdownWaitsForCounted ==
    closing = "drained" => \A t \in counted : pc[t] = "finished"

\* Shutdown cancels every in-flight task and waits for async handlers to drain:
\* when it returns without timing out, every async call it canceled is over.
ShutdownDrains ==
    closing = "drained" => \A t \in owed : pc[t] = "finished"

\* Every task that is canceled, or in flight when Shutdown comes, leaves the
\* store's inFlight and is terminal.
InterruptedTasksEnd ==
    \A t \in Tasks : (t \in inFlight /\ (status[t] = "canceled" \/ t \in owed))
                        ~> (t \notin inFlight /\ t \in Settled)

=============================================================================
