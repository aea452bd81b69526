-------------------------- MODULE TaskStoreProofs --------------------------
(***************************************************************************)
(* The safety properties of TaskStore, for any set of calls and any        *)
(* limits.  They hold together or not at all: what the books say of a task *)
(* rests on where its goroutine stands, so the inductive invariant adds    *)
(* the tie between the program counter and the task's record.              *)
(*                                                                         *)
(* What SubscribeToTask tells a caller rests on the same invariant: a task *)
(* has a broker from registration until it has settled, so a broker seen   *)
(* and then missed means a settled task.                                   *)
(***************************************************************************)
EXTENDS SubscribeToTask, TLAPS

Started == {"begun", "registered", "running", "settled", "reported", "ended", "finished"}
Over == {"settled", "reported", "ended", "finished"}

\* Where a goroutine stands and what its task's record says.
PcAgrees ==
    \A t \in Tasks :
        /\ kind[t] = "none" <=> pc[t] = "idle"
        /\ pc[t] \in {"begun", "registered", "ended"} => kind[t] = "async"
        /\ pc[t] = "idle" <=> status[t] = "submitted"
        /\ pc[t] \in Over => status[t] \in Terminal
        /\ t \in artifact <=> status[t] = "completed"
        /\ t \in brokers <=> kind[t] = "async" /\ pc[t] \in {"registered", "running",
                                                         "settled", "reported"}
        /\ reported[t] = (IF pc[t] \in {"reported", "ended", "finished"}
                          THEN status[t] ELSE "none")

\* The wait group, and what Shutdown remembers of it.
WaitGroupAgrees ==
    /\ \A t \in Tasks :
         t \in wg <=> kind[t] = "async" /\ pc[t] \in {"running", "settled", "reported", "ended"}
    /\ \A t \in counted : t \in wg \/ pc[t] = "finished"

IInv ==
    /\ TypeOK
    /\ PcAgrees
    /\ BooksAgree
    /\ CanceledIsInterrupted
    /\ WaitGroupAgrees
    /\ ShutdownWaitsForCounted

-----------------------------------------------------------------------------
\* Eviction takes only tasks that are terminal and not in flight, and the
\* terminal times it leaves are those of tasks that stay.
LEMMA EvictSpares ==
    ASSUME NEW stored \in SUBSET Tasks, NEW busy \in SUBSET Tasks,
           terminalAt \subseteq stored \intersect Settled,
           Evict(stored, busy)
    PROVE  /\ tasks' \subseteq stored
           /\ stored \intersect busy \subseteq tasks'
           /\ stored \ tasks' \subseteq Settled
           /\ terminalAt' \subseteq tasks' \intersect Settled
BY DEF Evict, EvictedForCap, Evictable, Expired, Settled

-----------------------------------------------------------------------------
LEMMA InitIInv == Init => IInv
BY DEF Init, IInv, TypeOK, PcAgrees, BooksAgree, CanceledIsInterrupted, WaitGroupAgrees,
       ShutdownWaitsForCounted, Terminal, State, Settled, Over

LEMMA BeginIInv ==
    ASSUME IInv, NEW t \in Tasks, NEW k \in {"sync", "async"}, Begin(t, k)
    PROVE  IInv'
<1>. USE DEF IInv
<1>1. /\ tasks' \subseteq tasks \union {t}
      /\ inFlight \union {t} \subseteq tasks'
      /\ (tasks \union {t}) \ tasks' \subseteq Settled
      /\ terminalAt' \subseteq tasks' \intersect Settled
  <2> DEFINE stored == tasks \union {t}
             busy == inFlight \union {t}
  <2>1. stored \in SUBSET Tasks /\ busy \in SUBSET Tasks
    BY DEF TypeOK
  <2>2. /\ terminalAt \subseteq stored \intersect Settled
        /\ busy \subseteq stored
    BY DEF BooksAgree
  <2>3. Evict(stored, busy)
    BY DEF Begin
  <2>. HIDE DEF stored, busy
  <2>4. /\ tasks' \subseteq stored
        /\ stored \intersect busy \subseteq tasks'
        /\ stored \ tasks' \subseteq Settled
        /\ terminalAt' \subseteq tasks' \intersect Settled
    BY <2>1, <2>2, <2>3, EvictSpares
  <2>. QED
    BY <2>2, <2>4 DEF stored, busy
<1>2. TypeOK'
  <2>1. tasks' \subseteq Tasks /\ terminalAt' \subseteq Tasks
    BY <1>1 DEF TypeOK
  <2>. QED
    BY <2>1 DEF TypeOK, Begin, State, shutdown
<1>3. PcAgrees'
  BY DEF PcAgrees, TypeOK, Begin, Over, Terminal, State, shutdown
<1>4. BooksAgree'
  BY <1>1 DEF BooksAgree, PcAgrees, TypeOK, Begin, Settled, Terminal
<1>5. CanceledIsInterrupted'
  BY DEF CanceledIsInterrupted, TypeOK, Begin
<1>6. WaitGroupAgrees' /\ ShutdownWaitsForCounted'
  BY DEF WaitGroupAgrees, ShutdownWaitsForCounted, PcAgrees, TypeOK, Begin, shutdown
<1>. QED
  BY <1>2, <1>3, <1>4, <1>5, <1>6

LEMMA RegisterBrokerIInv == ASSUME IInv, NEW t \in Tasks, RegisterBroker(t) PROVE IInv'
<1>. USE DEF IInv
<1>1. TypeOK'
  BY DEF TypeOK, RegisterBroker, State, book, shutdown
<1>2. PcAgrees'
  BY DEF PcAgrees, TypeOK, RegisterBroker, Over, Terminal, State, book, shutdown
<1>3. BooksAgree'
  BY DEF BooksAgree, PcAgrees, TypeOK, RegisterBroker, Settled, Terminal, Over, book, shutdown
<1>4. CanceledIsInterrupted'
  BY DEF CanceledIsInterrupted, BooksAgree, PcAgrees, TypeOK, RegisterBroker, Terminal, Over, book, shutdown
<1>5. WaitGroupAgrees'
  BY DEF WaitGroupAgrees, PcAgrees, TypeOK, RegisterBroker, Over, Terminal, book, shutdown
<1>6. ShutdownWaitsForCounted'
  BY DEF ShutdownWaitsForCounted, WaitGroupAgrees, TypeOK, RegisterBroker, book, shutdown
<1>. QED
  BY <1>1, <1>2, <1>3, <1>4, <1>5, <1>6

LEMMA LaunchIInv == ASSUME IInv, NEW t \in Tasks, Launch(t) PROVE IInv'
<1>. USE DEF IInv
<1>1. TypeOK'
  BY DEF TypeOK, Launch, State, book, shutdown
<1>2. PcAgrees'
  BY DEF PcAgrees, TypeOK, Launch, Over, Terminal, State, book, shutdown
<1>3. BooksAgree'
  BY DEF BooksAgree, PcAgrees, TypeOK, Launch, Settled, Terminal, Over, book, shutdown
<1>4. CanceledIsInterrupted'
  BY DEF CanceledIsInterrupted, BooksAgree, PcAgrees, TypeOK, Launch, Terminal, Over, book, shutdown
<1>5. WaitGroupAgrees'
  BY DEF WaitGroupAgrees, PcAgrees, TypeOK, Launch, Over, Terminal, book, shutdown
<1>6. ShutdownWaitsForCounted'
  BY DEF ShutdownWaitsForCounted, WaitGroupAgrees, TypeOK, Launch, book, shutdown
<1>. QED
  BY <1>1, <1>2, <1>3, <1>4, <1>5, <1>6

LEMMA ReportIInv == ASSUME IInv, NEW t \in Tasks, Report(t) PROVE IInv'
<1>. USE DEF IInv
<1>1. TypeOK'
  BY DEF TypeOK, Report, State, book, shutdown
<1>2. PcAgrees'
  BY DEF PcAgrees, TypeOK, Report, Over, Terminal, State, book, shutdown
<1>3. BooksAgree'
  BY DEF BooksAgree, PcAgrees, TypeOK, Report, Settled, Terminal, Over, book, shutdown
<1>4. CanceledIsInterrupted'
  BY DEF CanceledIsInterrupted, BooksAgree, PcAgrees, TypeOK, Report, Terminal, Over, book, shutdown
<1>5. WaitGroupAgrees'
  BY DEF WaitGroupAgrees, PcAgrees, TypeOK, Report, Over, Terminal, book, shutdown
<1>6. ShutdownWaitsForCounted'
  BY DEF ShutdownWaitsForCounted, WaitGroupAgrees, TypeOK, Report, book, shutdown
<1>. QED
  BY <1>1, <1>2, <1>3, <1>4, <1>5, <1>6

LEMMA EndIInv == ASSUME IInv, NEW t \in Tasks, End(t) PROVE IInv'
<1>. USE DEF IInv
<1>1. TypeOK'
  BY DEF TypeOK, End, State, book, shutdown
<1>2. PcAgrees'
  BY DEF PcAgrees, TypeOK, End, Over, Terminal, State, book, shutdown
<1>3. BooksAgree'
  BY DEF BooksAgree, PcAgrees, TypeOK, End, Settled, Terminal, Over, book, shutdown
<1>4. CanceledIsInterrupted'
  BY DEF CanceledIsInterrupted, BooksAgree, PcAgrees, TypeOK, End, Terminal, Over, book, shutdown
<1>5. WaitGroupAgrees'
  BY DEF WaitGroupAgrees, PcAgrees, TypeOK, End, Over, Terminal, book, shutdown
<1>6. ShutdownWaitsForCounted'
  BY DEF ShutdownWaitsForCounted, WaitGroupAgrees, TypeOK, End, book, shutdown
<1>. QED
  BY <1>1, <1>2, <1>3, <1>4, <1>5, <1>6

LEMMA WgDoneIInv == ASSUME IInv, NEW t \in Tasks, WgDone(t) PROVE IInv'
<1>. USE DEF IInv
<1>1. TypeOK'
  BY DEF TypeOK, WgDone, State, book, shutdown
<1>2. PcAgrees'
  BY DEF PcAgrees, TypeOK, WgDone, Over, Terminal, State, book, shutdown
<1>3. BooksAgree'
  BY DEF BooksAgree, PcAgrees, TypeOK, WgDone, Settled, Terminal, Over, book, shutdown
<1>4. CanceledIsInterrupted'
  BY DEF CanceledIsInterrupted, BooksAgree, PcAgrees, TypeOK, WgDone, Terminal, Over, book, shutdown
<1>5. WaitGroupAgrees'
  BY DEF WaitGroupAgrees, PcAgrees, TypeOK, WgDone, Over, Terminal, book, shutdown
<1>6. ShutdownWaitsForCounted'
  BY DEF ShutdownWaitsForCounted, WaitGroupAgrees, TypeOK, WgDone, book, shutdown
<1>. QED
  BY <1>1, <1>2, <1>3, <1>4, <1>5, <1>6

LEMMA RequestDoneIInv == ASSUME IInv, NEW t \in Tasks, RequestDone(t) PROVE IInv'
<1>. USE DEF IInv
<1>1. TypeOK'
  BY DEF TypeOK, RequestDone, State, book, shutdown
<1>2. PcAgrees'
  BY DEF PcAgrees, TypeOK, RequestDone, Over, Terminal, State, book, shutdown
<1>3. BooksAgree'
  BY DEF BooksAgree, PcAgrees, TypeOK, RequestDone, Settled, Terminal, Over, book, shutdown
<1>4. CanceledIsInterrupted'
  BY DEF CanceledIsInterrupted, BooksAgree, PcAgrees, TypeOK, RequestDone, Terminal, Over, book, shutdown
<1>5. WaitGroupAgrees'
  BY DEF WaitGroupAgrees, PcAgrees, TypeOK, RequestDone, Over, Terminal, book, shutdown
<1>6. ShutdownWaitsForCounted'
  BY DEF ShutdownWaitsForCounted, WaitGroupAgrees, TypeOK, RequestDone, book, shutdown
<1>. QED
  BY <1>1, <1>2, <1>3, <1>4, <1>5, <1>6

LEMMA CancelIInv == ASSUME IInv, NEW t \in Tasks, Cancel(t) PROVE IInv'
<1>. USE DEF IInv
<1>1. TypeOK'
  BY DEF TypeOK, Cancel, State, Terminal, book, shutdown
<1>2. PcAgrees'
  BY DEF PcAgrees, BooksAgree, Settled, TypeOK, Cancel, Over, Terminal, State, book, shutdown
<1>3. BooksAgree'
  BY DEF BooksAgree, PcAgrees, TypeOK, Cancel, Settled, Terminal, Over, book, shutdown
<1>4. CanceledIsInterrupted'
  BY DEF CanceledIsInterrupted, BooksAgree, Settled, TypeOK, Cancel, Terminal, Over, book, shutdown
<1>5. WaitGroupAgrees'
  BY DEF WaitGroupAgrees, PcAgrees, TypeOK, Cancel, Over, Terminal, book, shutdown
<1>6. ShutdownWaitsForCounted'
  BY DEF ShutdownWaitsForCounted, WaitGroupAgrees, TypeOK, Cancel, book, shutdown
<1>. QED
  BY <1>1, <1>2, <1>3, <1>4, <1>5, <1>6

LEMMA SettleIInv == ASSUME IInv, NEW t \in Tasks, NEW outcome \in {"completed", "failed"}, Settle(t, outcome) PROVE IInv'
<1>. USE DEF IInv
<1>1. TypeOK'
  BY DEF TypeOK, Settle, State, Terminal, book, shutdown
<1>2. PcAgrees'
  BY DEF PcAgrees, TypeOK, Settle, Over, Terminal, State, book, shutdown
<1>3. BooksAgree'
  BY DEF BooksAgree, PcAgrees, TypeOK, Settle, Settled, Terminal, Over, book, shutdown
<1>4. CanceledIsInterrupted'
  BY DEF CanceledIsInterrupted, BooksAgree, PcAgrees, TypeOK, Settle, Terminal, Over, book, shutdown
<1>5. WaitGroupAgrees'
  BY DEF WaitGroupAgrees, PcAgrees, TypeOK, Settle, Over, Terminal, book, shutdown
<1>6. ShutdownWaitsForCounted'
  BY DEF ShutdownWaitsForCounted, WaitGroupAgrees, TypeOK, Settle, book, shutdown
<1>. QED
  BY <1>1, <1>2, <1>3, <1>4, <1>5, <1>6

LEMMA ShutdownCancelsIInv == ASSUME IInv, ShutdownCancels PROVE IInv'
<1>. USE DEF IInv
<1>1. TypeOK'
  BY DEF TypeOK, ShutdownCancels, State, book, shutdown
<1>2. PcAgrees'
  BY DEF PcAgrees, TypeOK, ShutdownCancels, Over, Terminal, State, book, shutdown
<1>3. BooksAgree'
  BY DEF BooksAgree, PcAgrees, TypeOK, ShutdownCancels, Settled, Terminal, Over, book, shutdown
<1>4. CanceledIsInterrupted'
  BY DEF CanceledIsInterrupted, BooksAgree, PcAgrees, TypeOK, ShutdownCancels, Terminal, Over, book, shutdown
<1>5. WaitGroupAgrees'
  BY DEF WaitGroupAgrees, PcAgrees, TypeOK, ShutdownCancels, Over, Terminal, book, shutdown
<1>6. ShutdownWaitsForCounted'
  BY DEF ShutdownWaitsForCounted, WaitGroupAgrees, TypeOK, ShutdownCancels, book, shutdown
<1>. QED
  BY <1>1, <1>2, <1>3, <1>4, <1>5, <1>6

LEMMA ShutdownReturnsIInv == ASSUME IInv, ShutdownReturns PROVE IInv'
<1>. USE DEF IInv
<1>1. TypeOK'
  BY DEF TypeOK, ShutdownReturns, State, book, shutdown
<1>2. PcAgrees'
  BY DEF PcAgrees, TypeOK, ShutdownReturns, Over, Terminal, State, book, shutdown
<1>3. BooksAgree'
  BY DEF BooksAgree, PcAgrees, TypeOK, ShutdownReturns, Settled, Terminal, Over, book, shutdown
<1>4. CanceledIsInterrupted'
  BY DEF CanceledIsInterrupted, BooksAgree, PcAgrees, TypeOK, ShutdownReturns, Terminal, Over, book, shutdown
<1>5. WaitGroupAgrees'
  BY DEF WaitGroupAgrees, PcAgrees, TypeOK, ShutdownReturns, Over, Terminal, book, shutdown
<1>6. ShutdownWaitsForCounted'
  BY DEF ShutdownWaitsForCounted, WaitGroupAgrees, TypeOK, ShutdownReturns, book, shutdown
<1>. QED
  BY <1>1, <1>2, <1>3, <1>4, <1>5, <1>6

LEMMA TickIInv == ASSUME IInv, Tick PROVE IInv'
<1>. USE DEF IInv
<1>1. TypeOK'
  BY DEF TypeOK, Tick, State, book, shutdown
<1>2. PcAgrees'
  BY DEF PcAgrees, TypeOK, Tick, Over, Terminal, State, book, shutdown
<1>3. BooksAgree'
  BY DEF BooksAgree, PcAgrees, TypeOK, Tick, Settled, Terminal, Over, book, shutdown
<1>4. CanceledIsInterrupted'
  BY DEF CanceledIsInterrupted, BooksAgree, PcAgrees, TypeOK, Tick, Terminal, Over, book, shutdown
<1>5. WaitGroupAgrees'
  BY DEF WaitGroupAgrees, PcAgrees, TypeOK, Tick, Over, Terminal, book, shutdown
<1>6. ShutdownWaitsForCounted'
  BY DEF ShutdownWaitsForCounted, WaitGroupAgrees, TypeOK, Tick, book, shutdown
<1>. QED
  BY <1>1, <1>2, <1>3, <1>4, <1>5, <1>6

-----------------------------------------------------------------------------
LEMMA NextIInv == IInv /\ [Next]_vars => IInv'
<1>. SUFFICES ASSUME IInv, [Next]_vars PROVE IInv'
  OBVIOUS
<1>1. ASSUME NEW t \in Tasks, TaskNext(t) PROVE IInv'
  <2>1. ASSUME NEW k \in {"sync", "async"}, Begin(t, k) PROVE IInv'
    BY <2>1, BeginIInv
  <2>2. CASE Advance(t)
    BY <2>2, RegisterBrokerIInv, LaunchIInv, ReportIInv, EndIInv, WgDoneIInv DEF Advance
  <2>3. CASE HandlerReturns(t)
    BY <2>3, SettleIInv DEF HandlerReturns
  <2>. QED
    BY <1>1, <2>1, <2>2, <2>3, RequestDoneIInv, CancelIInv DEF TaskNext
<1>2. CASE ShutdownCancels \/ ShutdownReturns \/ Tick
  BY <1>2, ShutdownCancelsIInv, ShutdownReturnsIInv, TickIInv
<1>3. CASE UNCHANGED vars
  BY <1>3 DEF IInv, TypeOK, PcAgrees, BooksAgree, CanceledIsInterrupted, WaitGroupAgrees,
              ShutdownWaitsForCounted, Settled, vars, book, shutdown
<1>. QED
  BY <1>1, <1>2, <1>3 DEF Next

LEMMA SpecIInv == Spec => []IInv
<1>. QED
  BY InitIInv, NextIInv, PTL DEF Spec

-----------------------------------------------------------------------------
\* Every variable of the store keeps its type.
THEOREM StoreTypeOK == Spec => []TypeOK
<1>1. IInv => TypeOK
  BY DEF IInv
<1>. QED
  BY <1>1, SpecIInv, PTL

\* The four maps of the store stay in step with each other and with the
\* goroutines: in particular no in-flight task is ever evicted, and every stored
\* task that is not terminal can be interrupted.
THEOREM StoreBooksAgree == Spec => []BooksAgree
<1>1. IInv => BooksAgree
  BY DEF IInv
<1>. QED
  BY <1>1, SpecIInv, PTL

\* Cancel always reaches the handler of the task it cancels.
THEOREM StoreCanceledIsInterrupted == Spec => []CanceledIsInterrupted
<1>1. IInv => CanceledIsInterrupted
  BY DEF IInv
<1>. QED
  BY <1>1, SpecIInv, PTL

\* A reply, or the final status of a stream, is the outcome the store keeps.
THEOREM StoreReportIsTheOutcome == Spec => []ReportIsTheOutcome
<1>1. IInv => ReportIsTheOutcome
  BY DEF IInv, PcAgrees, ReportIsTheOutcome, Over
<1>. QED
  BY <1>1, SpecIInv, PTL

\* A Shutdown that was not cut short has waited for every counted handler.
THEOREM StoreShutdownWaits == Spec => []ShutdownWaitsForCounted
<1>1. IInv => ShutdownWaitsForCounted
  BY DEF IInv
<1>. QED
  BY <1>1, SpecIInv, PTL

\* Of Cancel, Shutdown and the handler's end the first to settle a task decides
\* its state for good.
THEOREM StoreTerminalIsFinal == Spec => TerminalIsFinal
<1> DEFINE Kept == \A t \in Settled :
                      status'[t] = status[t] /\ (t \in artifact' <=> t \in artifact)
<1>1. IInv /\ [Next]_vars => [Kept]_vars
  <2>. SUFFICES ASSUME IInv, Next, NEW u \in Settled
                PROVE  status'[u] = status[u] /\ (u \in artifact' <=> u \in artifact)
    BY DEF vars
  <2>. USE DEF IInv, TypeOK, Settled
  <2>1. ASSUME NEW t \in Tasks, TaskNext(t)
        PROVE  status'[u] = status[u] /\ (u \in artifact' <=> u \in artifact)
    <3>1. ASSUME NEW k \in {"sync", "async"}, Begin(t, k)
          PROVE  status'[u] = status[u] /\ artifact' = artifact
      BY <3>1 DEF Begin, PcAgrees, Terminal
    <3>2. CASE Advance(t)
      BY <3>2 DEF Advance, RegisterBroker, Launch, Report, End, WgDone
    <3>3. CASE HandlerReturns(t)
      BY <3>3 DEF HandlerReturns, Settle
    <3>4. CASE RequestDone(t) \/ Cancel(t)
      BY <3>4 DEF RequestDone, Cancel
    <3>. QED
      BY <2>1, <3>1, <3>2, <3>3, <3>4 DEF TaskNext
  <2>2. CASE ShutdownCancels \/ ShutdownReturns \/ Tick
    BY <2>2 DEF ShutdownCancels, ShutdownReturns, Tick
  <2>. QED
    BY <2>1, <2>2 DEF Next
<1>. QED
  BY <1>1, SpecIInv, PTL DEF Spec, TerminalIsFinal

\* The store's time of a task is less than a second before the true one.
LEMMA TimestampTruncates ==
    ASSUME stamp \in [Tasks -> Nat], NEW t \in Tasks
    PROVE  /\ Timestamp(t) \in Nat
           /\ Timestamp(t) <= stamp[t]
           /\ stamp[t] < Timestamp(t) + Second
<1> DEFINE seconds == stamp[t] \div Second
<1>1. stamp[t] \in Nat /\ Second \in Nat /\ Second > 0
  BY StoreAssumption
<1>2. /\ seconds \in Nat
      /\ stamp[t] = seconds * Second + (stamp[t] % Second)
      /\ stamp[t] % Second \in 0..(Second - 1)
  BY <1>1
<1>3. Timestamp(t) = seconds * Second
  BY DEF Timestamp
<1>. HIDE DEF seconds
<1>4. seconds * Second \in Nat
  BY <1>1, <1>2
<1>. QED
  BY <1>1, <1>2, <1>3, <1>4

\* What evictLocked leaves, by the count it leaves and by the store's times.
LEMMA EvictRetains ==
    ASSUME NEW stored \in SUBSET Tasks, NEW busy \in SUBSET Tasks,
           stamp \in [Tasks -> Nat], clock \in Nat, Evict(stored, busy)
    PROVE  /\ Cardinality(tasks') <= MaxTasks \/ Evictable(tasks', busy) = {}
           /\ \A t \in Evictable(tasks', busy) : Timestamp(t) + MaxAge >= clock
           /\ \A t \in stored \ tasks' :
                 \/ Timestamp(t) + MaxAge < clock
                 \/ /\ \A u \in Evictable(tasks', busy) : Timestamp(t) <= Timestamp(u)
                    /\ Cardinality(tasks') >= MaxTasks
<1> DEFINE aged == Expired(stored, busy)
           rest == stored \ aged
<1>1. PICK drop \in EvictedForCap(rest, Evictable(rest, busy)) : tasks' = rest \ drop
  BY DEF Evict
<1>2. /\ drop \subseteq Evictable(rest, busy)
      /\ \A t \in drop, u \in Evictable(rest, busy) \ drop : Timestamp(t) <= Timestamp(u)
      /\ Cardinality(rest \ drop) <= MaxTasks \/ drop = Evictable(rest, busy)
      /\ drop # {} => Cardinality(rest \ drop) >= MaxTasks
  BY <1>1 DEF EvictedForCap
<1>3. Evictable(tasks', busy) = Evictable(rest, busy) \ drop
  BY <1>1 DEF Evictable
<1>4. \A t \in Evictable(rest, busy) : t \in Tasks /\ ~(Timestamp(t) + MaxAge < clock)
  BY DEF Evictable, Expired
<1>5. \A t \in Evictable(tasks', busy) : Timestamp(t) + MaxAge >= clock
  <2>1. \A t \in Tasks : Timestamp(t) \in Nat
    BY TimestampTruncates
  <2>. HIDE DEF aged, rest
  <2>. QED
    BY <1>3, <1>4, <2>1, StoreAssumption
<1>6. \A t \in aged : Timestamp(t) + MaxAge < clock
  BY DEF Expired
<1>7. \A t \in stored \ tasks' : t \in aged \/ t \in drop
  BY <1>1
<1>. HIDE DEF aged, rest
<1>8. Cardinality(tasks') <= MaxTasks \/ Evictable(tasks', busy) = {}
  BY <1>1, <1>2, <1>3
<1>9. ASSUME NEW t \in drop
      PROVE  /\ \A u \in Evictable(tasks', busy) : Timestamp(t) <= Timestamp(u)
             /\ Cardinality(tasks') >= MaxTasks
  BY <1>1, <1>2, <1>3, <1>9
<1>. QED
  BY <1>5, <1>6, <1>7, <1>8, <1>9

\* A call that begins leaves more than MaxTasks tasks only if none of them could
\* be evicted; it keeps no task past its age; it evicts those that are within a
\* second of it, and of the others those that are the oldest to a second, and no
\* more of these than the limit asks.
THEOREM StoreRetention == Spec => Retention
<1> DEFINE Kept == (tasks' \ inFlight') \intersect Settled
           Gone == tasks \ tasks'
           Old == {t \in Gone : stamp[t] + MaxAge < clock + Second}
           Step == inFlight' \ inFlight # {} =>
                     /\ Cardinality(tasks') <= MaxTasks \/ Kept = {}
                     /\ \A t \in Kept : stamp[t] + MaxAge >= clock
                     /\ \A t \in Gone \ Old, u \in Kept : stamp[t] < stamp[u] + Second
                     /\ Gone \subseteq Old \/ Cardinality(tasks') >= MaxTasks
<1>1. ASSUME IInv, NEW t \in Tasks, NEW k \in {"sync", "async"}, Begin(t, k)
      PROVE  Step
  <2>1. /\ Evict(tasks \union {t}, inFlight \union {t}) /\ inFlight' = inFlight \union {t}
        /\ tasks \union {t} \in SUBSET Tasks /\ inFlight \union {t} \in SUBSET Tasks
        /\ tasks \subseteq Tasks
        /\ stamp \in [Tasks -> Nat] /\ clock \in Nat
    BY <1>1 DEF Begin, IInv, TypeOK
  <2>2. Kept = Evictable(tasks', inFlight \union {t})
    BY <2>1 DEF Evictable
  <2>3. Gone \subseteq (tasks \union {t}) \ tasks' /\ Gone \subseteq Tasks
    BY <2>1
  <2>4. Kept \subseteq Tasks
    BY DEF Settled
  <2>5. \A u \in Tasks : /\ Timestamp(u) \in Nat /\ stamp[u] \in Nat
                         /\ Timestamp(u) <= stamp[u]
                         /\ stamp[u] < Timestamp(u) + Second
    BY <2>1, TimestampTruncates
  <2>6. MaxAge \in Nat /\ Second \in Nat /\ clock \in Nat
    BY <2>1, StoreAssumption
  <2>. HIDE DEF Kept, Gone
  <2>7. /\ Cardinality(tasks') <= MaxTasks \/ Kept = {}
        /\ \A u \in Kept : Timestamp(u) + MaxAge >= clock
        /\ \A v \in Gone : \/ Timestamp(v) + MaxAge < clock
                           \/ /\ \A u \in Kept : Timestamp(v) <= Timestamp(u)
                              /\ Cardinality(tasks') >= MaxTasks
    BY <2>1, <2>2, <2>3, EvictRetains
  <2>8. \A u \in Kept : stamp[u] + MaxAge >= clock
    BY <2>4, <2>5, <2>6, <2>7
  <2>9. \A v \in Gone : Timestamp(v) + MaxAge < clock => v \in Old
    BY <2>3, <2>5, <2>6
  <2>10. \A v \in Gone \ Old, u \in Kept : stamp[v] < stamp[u] + Second
    <3>1. \A v \in Gone \ Old, u \in Kept : Timestamp(v) <= Timestamp(u)
      BY <2>7, <2>9
    <3>. QED
      BY <3>1, <2>3, <2>4, <2>5, <2>6
  <2>11. Gone \subseteq Old \/ Cardinality(tasks') >= MaxTasks
    BY <2>7, <2>9
  <2>. QED
    BY <2>7, <2>8, <2>10, <2>11
<1>2. ASSUME IInv, NEW t \in Tasks, Advance(t) \/ HandlerReturns(t) \/ RequestDone(t) \/ Cancel(t)
      PROVE  inFlight' \ inFlight = {}
  BY <1>2 DEF Advance, RegisterBroker, Launch, Report, End, WgDone, HandlerReturns, Settle,
              RequestDone, Cancel, book
<1>3. ASSUME ShutdownCancels \/ ShutdownReturns \/ Tick
      PROVE  inFlight' \ inFlight = {}
  BY <1>3 DEF ShutdownCancels, ShutdownReturns, Tick, book
<1>4. IInv /\ [Next]_vars => [Step]_vars
  <2>. HIDE DEF Step
  <2>1. inFlight' \ inFlight = {} => Step
    BY DEF Step
  <2>. QED
    BY <1>1, <1>2, <1>3, <2>1 DEF Next, TaskNext
<1>. QED
  BY <1>4, SpecIInv, PTL DEF Spec, Retention

-----------------------------------------------------------------------------
(* A caller whose task lost its broker between two of its three reads.     *)

Registered == {"registered", "running", "settled", "reported", "ended", "finished"}

\* What a call knows of its target at each stage.
WatchAgrees ==
    \A w \in Watchers :
        /\ stage[w] = "idle" => ~hadBroker[w] /\ ~fresh[w]
        /\ hadBroker[w] => kind[target[w]] = "async" /\ pc[target[w]] \in Registered
        /\ stage[w] = "refused" /\ hadBroker[w] => status[target[w]] \in Terminal
        /\ fresh[w] => stage[w] = "told"

WInv == IInv /\ WatchTypeOK /\ WatchAgrees /\ LateWatcherSeesOutcome

LEMMA InitWInv == WatchInit => WInv
<1>. SUFFICES ASSUME WatchInit PROVE WInv
  OBVIOUS
<1>1. IInv
  BY InitIInv DEF WatchInit
<1>2. WatchTypeOK /\ WatchAgrees /\ LateWatcherSeesOutcome
  BY <1>1 DEF WatchInit, WatchTypeOK, WatchAgrees, LateWatcherSeesOutcome, IInv
<1>. QED
  BY <1>1, <1>2 DEF WInv

\* A step of the store moves no goroutine back and unsettles no task.
LEMMA StoreMovesOn ==
    ASSUME IInv, Next, NEW t \in Tasks, kind[t] = "async", pc[t] \in Registered
    PROVE  /\ kind'[t] = "async" /\ pc'[t] \in Registered
           /\ status[t] \in Terminal => status'[t] = status[t]
<1>. USE DEF IInv, TypeOK, Registered
<1>1. ASSUME NEW u \in Tasks, TaskNext(u)
      PROVE  /\ kind'[t] = "async" /\ pc'[t] \in Registered
             /\ status[t] \in Terminal => status'[t] = status[t]
  <2>1. CASE \E k \in {"sync", "async"} : Begin(u, k)
    BY <2>1 DEF Begin
  <2>2. CASE Advance(u)
    BY <2>2 DEF Advance, RegisterBroker, Launch, Report, End, WgDone
  <2>3. CASE HandlerReturns(u)
    BY <2>3 DEF HandlerReturns, Settle
  <2>4. CASE RequestDone(u) \/ Cancel(u)
    BY <2>4 DEF RequestDone, Cancel
  <2>. QED
    BY <1>1, <2>1, <2>2, <2>3, <2>4 DEF TaskNext
<1>2. CASE ShutdownCancels \/ ShutdownReturns \/ Tick
  BY <1>2 DEF ShutdownCancels, ShutdownReturns, Tick
<1>. QED
  BY <1>1, <1>2 DEF Next

LEMMA NextWInv == WInv /\ [WatchedNext]_allVars => WInv'
<1>. SUFFICES ASSUME WInv, [WatchedNext]_allVars PROVE WInv'
  OBVIOUS
<1>1. IInv'
  <2>1. [Next]_vars
    BY DEF WatchedNext, Watch, First, Look, Fallback, allVars
  <2>. QED
    BY <2>1, NextIInv DEF WInv
<1>2. CASE Next /\ UNCHANGED watch
  <2>1. \A w \in Watchers : kind[target[w]] = "async" /\ pc[target[w]] \in Registered =>
          /\ kind'[target[w]] = "async" /\ pc'[target[w]] \in Registered
          /\ status[target[w]] \in Terminal => status'[target[w]] = status[target[w]]
    BY <1>2, StoreMovesOn DEF WInv, WatchTypeOK
  <2>2. WatchTypeOK'
    <3>1. TypeOK'
      BY <1>1 DEF IInv
    <3>. QED
      BY <1>2, <3>1 DEF WInv, WatchTypeOK, watch
  <2>3. WatchAgrees'
    BY <1>2, <2>1 DEF WInv, WatchAgrees, watch
  <2>4. LateWatcherSeesOutcome'
    BY <1>2, <2>1 DEF WInv, WatchAgrees, LateWatcherSeesOutcome, watch
  <2>. QED
    BY <1>1, <2>2, <2>3, <2>4 DEF WInv
<1>3. ASSUME NEW w \in Watchers, Watch(w) PROVE WInv'
  <2>. USE DEF WInv, WatchTypeOK
  <2>0. vars' = vars
    BY <1>3 DEF Watch, First, Look, Fallback
  <2>1. WatchTypeOK'
    <3>1. TypeOK'
      BY <1>1 DEF IInv
    <3>2. status \in [Tasks -> State]
      BY DEF TypeOK
    <3>. HIDE DEF TypeOK
    <3>3. CASE First(w)
      <4>1. hadBroker' \in [Watchers -> BOOLEAN]
        <5>1. (target[w] \in brokers) \in BOOLEAN
          OBVIOUS
        <5>. DEFINE b == target[w] \in brokers
        <5>2. hadBroker' = hadBroker \/ hadBroker' = [hadBroker EXCEPT ![w] = b]
          BY <3>3 DEF First
        <5>. HIDE DEF b
        <5>3. b \in BOOLEAN
          BY <5>1 DEF b
        <5>. QED
          BY <5>2, <5>3
      <4>2. /\ stage' \in [Watchers -> {"idle", "notFound", "read", "live", "refused", "told"}]
            /\ snap' \in [Watchers -> State \union {"none"}]
            /\ target' = target /\ fresh' = fresh
        BY <3>2, <3>3 DEF First
      <4>. QED
        BY <3>1, <4>1, <4>2
    <3>4. CASE Look(w)
      BY <3>1, <3>4 DEF Look
    <3>5. CASE Fallback(w)
      <4>1. /\ stage' \in [Watchers -> {"idle", "notFound", "read", "live", "refused", "told"}]
            /\ target' = target /\ hadBroker' = hadBroker
        BY <3>5 DEF Fallback
      <4>2. fresh' \in [Watchers -> BOOLEAN]
        BY <3>5 DEF Fallback
      <4>3. snap' \in [Watchers -> State \union {"none"}]
        BY <3>2, <3>5 DEF Fallback
      <4>. QED
        BY <3>1, <4>1, <4>2, <4>3
    <3>. QED
      BY <1>3, <3>3, <3>4, <3>5 DEF Watch
  <2>2. target[w] \in tasks /\ target[w] \in brokers =>
          kind[target[w]] = "async" /\ pc[target[w]] \in Registered
    BY DEF IInv, PcAgrees, Registered
  <2>3. kind[target[w]] = "async" /\ pc[target[w]] \in Registered /\ target[w] \notin brokers =>
          status[target[w]] \in Terminal
    BY DEF IInv, PcAgrees, Registered, Over
  <2>4. WatchAgrees'
    BY <1>3, <2>0, <2>2, <2>3 DEF WatchAgrees, Watch, First, Look, Fallback, vars
  <2>5. LateWatcherSeesOutcome'
    BY <1>3, <2>0 DEF WatchAgrees, LateWatcherSeesOutcome, Watch, First, Look, Fallback, vars
  <2>. QED
    BY <1>1, <2>1, <2>4, <2>5
<1>4. CASE UNCHANGED allVars
  BY <1>1, <1>4 DEF WInv, IInv, WatchTypeOK, WatchAgrees, LateWatcherSeesOutcome,
                    allVars, vars, watch
<1>. QED
  BY <1>2, <1>3, <1>4 DEF WatchedNext

\* A caller of SubscribeToTask that saw the task's broker and then missed it is
\* told the outcome the store keeps.
THEOREM WatcherSeesOutcome == WatchedSpec => []LateWatcherSeesOutcome
<1>1. WInv => LateWatcherSeesOutcome
  BY DEF WInv
<1>. QED
  BY <1>1, InitWInv, NextWInv, PTL DEF WatchedSpec

=============================================================================
