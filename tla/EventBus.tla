------------------------------ MODULE EventBus ------------------------------
(***************************************************************************)
(* The in-process Bus, and the orchestrator command that lives by it: the  *)
(* agents of a run publish from goroutines of their own, one goroutine     *)
(* prints every event, and one bridges them to the network bus and injects *)
(* the hub's.  When the run is over the command closes the bus and leaves  *)
(* once the trace is printed and, within limits, the bridge is through.    *)
(***************************************************************************)
EXTENDS Naturals, Sequences, FiniteSets

CONSTANTS Agents,           \* agents that work at the same time
          NEvents,          \* events each publishes, at most (a bound)
          NForeign,         \* events the hub sends, at most (a bound)
          BusCap            \* what a subscriber's channel holds

ASSUME BusAssumption ==
    /\ NEvents \in Nat /\ NForeign \in Nat /\ BusCap \in Nat \ {0}
    /\ IsFiniteSet(Agents) /\ "hub" \notin Agents

Sources == Agents \cup {"hub"}
Readers == {"printer", "bridge"}

VARIABLES subs, shut,       \* Bus.subs, Bus.closed
          mail, closed,     \* the subscribers' channels, and which are closed
          lost,             \* Bus.dropped
          holding, left,    \* Publish calls that hold the read lock, and the
                            \* subscribers each has still to offer its event to
          sent              \* events each source has published on the open bus
VARIABLES main,             \* where runOrchestrator is
          hurried,          \* it left the bridge behind: the timer, or an error
          stopped,          \* its context is done
          printed,          \* what the printer has read
          bridge, posting,  \* the bridge, and the event it has in hand
          posted, failures, \* what it has posted, Client.pubFailures
          since             \* sent, when the bridge subscribed

busVars == <<subs, shut, mail, closed, lost, holding, left, sent>>
runVars == <<main, hurried, stopped, printed, bridge, posting, posted, failures, since>>
allBusVars == <<busVars, runVars>>

NoEvent == <<"", 0>>                    \* an event is its source and number

BusInit ==
    /\ subs = {} /\ shut = FALSE /\ closed = {} /\ lost = 0
    /\ mail = [s \in Readers |-> <<>>]
    /\ holding = {} /\ left = [a \in Sources |-> {}] /\ sent = [a \in Sources |-> 0]
    /\ main = "new" /\ hurried = FALSE /\ stopped = FALSE
    /\ printed = <<>> /\ bridge = "new" /\ posting = NoEvent
    /\ posted = <<>> /\ failures = 0 /\ since = [a \in Sources |-> 0]

-----------------------------------------------------------------------------
(* The bus.  Subscribe, Close and the function that unsubscribes take the  *)
(* lock; Publish shares it with other Publish calls.                       *)

Locked == holding = {}

Subscribe(s) ==
    /\ Locked
    /\ IF shut THEN closed' = closed \cup {s} /\ UNCHANGED subs
               ELSE subs' = subs \cup {s} /\ UNCHANGED closed

Unsubscribe(s) ==
    /\ Locked
    /\ closed' = IF s \in subs THEN closed \cup {s} ELSE closed
    /\ subs' = subs \ {s}

\* Mutant: Close shuts the bus without waiting for the Publish calls.
CloseBusUnlocked == shut' = TRUE /\ closed' = closed \cup subs /\ subs' = {}

CloseBus ==
    /\ Locked
    /\ shut' = TRUE
    /\ closed' = closed \cup subs
    /\ subs' = {}

Publishing(a) == IF a = "hub" THEN bridge \in {"begun", "selecting", "posting"} /\ sent[a] < NForeign
                              ELSE main = "running" /\ sent[a] < NEvents

Publish(a) ==
    /\ a \notin holding /\ Publishing(a) /\ ~shut
    /\ holding' = holding \cup {a}
    /\ left' = [left EXCEPT ![a] = subs]
    /\ sent' = [sent EXCEPT ![a] = @ + 1]
    /\ UNCHANGED <<subs, shut, mail, closed, lost, runVars>>

Offer(a, s) ==
    /\ s \in left[a]
    /\ left' = [left EXCEPT ![a] = @ \ {s}]
    /\ IF Len(mail[s]) < BusCap
       THEN mail' = [mail EXCEPT ![s] = Append(@, <<a, sent[a]>>)] /\ UNCHANGED lost
       ELSE lost' = lost + 1 /\ UNCHANGED mail
    /\ UNCHANGED <<subs, shut, closed, holding, sent, runVars>>

Unlock(a) ==
    /\ a \in holding /\ left[a] = {}
    /\ holding' = holding \ {a}
    /\ UNCHANGED <<subs, shut, mail, closed, lost, left, sent, runVars>>

-----------------------------------------------------------------------------
(* runOrchestrator.                                                        *)

Observe ==
    /\ main = "new"
    /\ Subscribe("printer")
    /\ main' = "building"
    /\ UNCHANGED <<shut, mail, lost, holding, left, sent, hurried, stopped, printed,
                   bridge, posting, posted, failures, since>>

\* build.Orchestrator and build.MCPTools succeed, or one of them does not: the
\* bus is then closed and the command ends without a thought for the bridge.
Build ==
    /\ main = "building"
    /\ \/ main' = "running" /\ UNCHANGED <<busVars, hurried>>
       \/ /\ CloseBus
          /\ main' = "draining" /\ hurried' = TRUE
          /\ UNCHANGED <<mail, lost, holding, left, sent>>
    /\ UNCHANGED <<stopped, printed, bridge, posting, posted, failures, since>>

\* Run has returned: none of its agents is publishing any more.
RunEnds ==
    /\ main = "running" /\ holding \cap Agents = {}
    /\ main' = "ended"
    /\ UNCHANGED <<busVars, hurried, stopped, printed, bridge, posting, posted, failures, since>>

CloseAfterRun ==
    /\ main = "ended"
    /\ CloseBus
    /\ main' = "draining"
    /\ UNCHANGED <<mail, lost, holding, left, sent, hurried, stopped, printed,
                   bridge, posting, posted, failures, since>>

Trace ==
    /\ mail["printer"] # <<>>
    /\ printed' = Append(printed, Head(mail["printer"]))
    /\ mail' = [mail EXCEPT !["printer"] = Tail(@)]
    /\ UNCHANGED <<subs, shut, closed, lost, holding, left, sent, main, hurried, stopped,
                   bridge, posting, posted, failures, since>>

\* Mutant: the command does not wait for the printer to finish.
PrintedEarly ==
    /\ main = "draining"
    /\ main' = IF hurried THEN "exited" ELSE "flushing"
    /\ UNCHANGED <<busVars, hurried, stopped, printed, bridge, posting, posted, failures, since>>

\* The printer's range ends with its channel, and the wait for it.
Printed ==
    /\ main = "draining" /\ "printer" \in closed /\ mail["printer"] = <<>>
    /\ main' = IF hurried THEN "exited" ELSE "flushing"
    /\ UNCHANGED <<busVars, hurried, stopped, printed, bridge, posting, posted, failures, since>>

\* Mutant: the wait for the bridge has no timer.
ExitPatiently ==
    /\ main = "flushing" /\ bridge = "returned"
    /\ main' = "exited"
    /\ UNCHANGED <<busVars, hurried, stopped, printed, bridge, posting, posted, failures, since>>

Exit ==
    /\ main = "flushing"
    /\ \/ bridge = "returned" /\ UNCHANGED hurried
       \/ hurried' = TRUE                                \* the timer
    /\ main' = "exited"
    /\ UNCHANGED <<busVars, stopped, printed, bridge, posting, posted, failures, since>>

Signal ==
    /\ ~stopped /\ main \notin {"new", "exited"}
    /\ stopped' = TRUE
    /\ UNCHANGED <<busVars, main, hurried, printed, bridge, posting, posted, failures, since>>

-----------------------------------------------------------------------------
(* Client.Bridge, in a goroutine started before the printer subscribes.    *)

Bridged(state) ==
    /\ main # "exited"
    /\ bridge' = state
    /\ UNCHANGED <<main, hurried, stopped, printed>>

\* It starts the goroutine that receives before it subscribes.
BridgeBegins ==
    /\ bridge = "new"
    /\ Bridged("begun")
    /\ UNCHANGED <<busVars, posting, posted, failures, since>>

BridgeSubscribes ==
    /\ bridge = "begun"
    /\ Subscribe("bridge")
    /\ since' = sent
    /\ Bridged("selecting")
    /\ UNCHANGED <<shut, mail, lost, holding, left, sent, posting, posted, failures>>

\* What came from the hub is not echoed.
BridgeTakes ==
    /\ bridge = "selecting" /\ mail["bridge"] # <<>>
    /\ mail' = [mail EXCEPT !["bridge"] = Tail(@)]
    /\ IF Head(mail["bridge"])[1] = "hub"
       THEN Bridged("selecting") /\ UNCHANGED posting
       ELSE Bridged("posting") /\ posting' = Head(mail["bridge"])
    /\ UNCHANGED <<subs, shut, closed, lost, holding, left, sent, posted, failures, since>>

BridgePosts ==
    /\ bridge = "posting"
    /\ \/ posted' = Append(posted, posting) /\ UNCHANGED failures
       \/ failures' = failures + 1 /\ UNCHANGED posted
    /\ posting' = NoEvent
    /\ Bridged("selecting")
    /\ UNCHANGED <<busVars, since>>

\* A closed channel yields its events first; the context may come before them.
BridgeEnds ==
    /\ bridge = "selecting"
    /\ stopped \/ ("bridge" \in closed /\ mail["bridge"] = <<>>)
    /\ Unsubscribe("bridge")
    /\ Bridged("returned")
    /\ UNCHANGED <<shut, mail, lost, holding, left, sent, posting, posted, failures, since>>

-----------------------------------------------------------------------------
Source(a) == Publish(a) \/ Unlock(a) \/ \E s \in Readers : Offer(a, s)
Command == Observe \/ Build \/ RunEnds \/ CloseAfterRun \/ Printed \/ Exit
Bridge == BridgeBegins \/ BridgeSubscribes \/ BridgeTakes \/ BridgePosts \/ BridgeEnds

BusNext == (\E a \in Sources : Source(a)) \/ Command \/ Trace \/ Bridge \/ Signal

\* Goroutines run and the timer fires.  Nobody need publish, and a post to the
\* hub may never end.
BusFairness ==
    /\ \A a \in Sources : WF_allBusVars(Unlock(a) \/ \E s \in Readers : Offer(a, s))
    /\ WF_allBusVars(Trace) /\ WF_allBusVars(CloseAfterRun \/ Printed \/ Exit)

BusSpec == BusInit /\ [][BusNext]_allBusVars /\ BusFairness

-----------------------------------------------------------------------------
(* Properties.                                                             *)

\* Publish never sends on a channel that Close or an unsubscribe has closed,
\* which would panic: what it has still to offer its event to is registered.
SendsOnlyOnOpen == \A a \in Sources : left[a] \cap closed = {}

\* When the command exits, what the agents published was printed or counted as
\* dropped, in order and once; what they published while the bridge was
\* subscribed was posted to the hub, counted as a failure or as dropped,
\* unless the exit says that the bridge was left behind or interrupted.
InOrder(s) == \A i, j \in 1..Len(s) : i < j /\ s[i][1] = s[j][1] => s[i][2] < s[j][2]
Emitted(A, from) == {e \in A \X (1..NEvents) : from[e[1]] < e[2] /\ e[2] <= sent[e[1]]}

RunIsAccounted ==
    /\ InOrder(printed) /\ InOrder(posted)
    /\ \A i \in 1..Len(posted) : posted[i] \in Emitted(Agents, since)
    /\ main = "exited" =>
          LET traced == {i \in DOMAIN printed : printed[i][1] \in Agents} IN
          Cardinality(Emitted(Agents, [a \in Sources |-> 0])) <= Cardinality(traced) + lost
    /\ main = "exited" /\ ~hurried /\ ~stopped =>
          Cardinality(Emitted(Agents, since)) <= Len(posted) + failures + lost

\* Once the run is over the command exits, whatever the hub does.
CommandExits == main = "ended" ~> main = "exited"
=============================================================================
