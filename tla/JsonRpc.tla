------------------------------ MODULE JsonRpc ------------------------------
(***************************************************************************)
(* A JSON-RPC client and the server it talks to over a child's standard    *)
(* input and output: internal/rpc as mcp.Dial and mcp.Close use it.        *)
(*                                                                         *)
(* On the client's side any number of calls and one read loop share the    *)
(* table of pending calls; each call writes through a goroutine of its     *)
(* own.  On the server's side one loop reads and starts a handler per      *)
(* request, no more than Slots at a time.  The child may crash, and a      *)
(* foreign one may repeat answers.  A message is the number of its call.   *)
(***************************************************************************)
EXTENDS Naturals, Sequences, FiniteSets

CONSTANTS NCalls,           \* messages the client sends
          Notes,            \* those of them that are notifications
          Stubborn,         \* those whose handlers never return
          Slots,            \* maxConcurrentRequests
          Pipe,             \* messages a pipe holds
          MaxNoise          \* messages the server sends unasked (a bound)

ASSUME RpcAssumption ==
    /\ NCalls \in Nat \ {0} /\ Slots \in Nat \ {0} /\ Pipe \in Nat \ {0}
    /\ MaxNoise \in Nat
    /\ Notes \subseteq 1..NCalls /\ Stubborn \subseteq 1..NCalls

Messages == 1..NCalls

VARIABLES call, got,        \* where each call is, the answer it returned
          writer,           \* its goroutine that writes
          pending,          \* Client.pending: calls with a channel in the table
          chan, ended,      \* what is in a call's channel; the channels closed
          taken,            \* the answer the read loop is about to hand over
          dead,             \* Client.closed: the read loop has ended
          closing           \* mcp.Client.Close: "open", "waiting", "killed", "closed"
VARIABLES up, down          \* the pipes
VARIABLES serve, request,   \* Server.Serve and the request it has in hand
          handler,          \* the handler of each message
          interrupted,      \* the context of Serve
          exited,           \* the child is gone
          noise

clientVars == <<call, got, writer, pending, chan, ended, taken, dead, closing>>
serverVars == <<serve, request, handler, interrupted, exited, noise>>
rpcVars == <<clientVars, up, down, serverVars>>

RpcInit ==
    /\ call = [c \in Messages |-> "new"] /\ got = [c \in Messages |-> 0]
    /\ writer = [c \in Messages |-> "none"]
    /\ pending = {} /\ chan = [c \in Messages |-> 0] /\ ended = {}
    /\ taken = 0 /\ dead = FALSE /\ closing = "open"
    /\ up = <<>> /\ down = <<>>
    /\ serve = "reading" /\ request = 0
    /\ handler = [c \in Messages |-> "none"]
    /\ interrupted = FALSE /\ exited = FALSE /\ noise = 0

Closed == closing # "open"                              \* the child's stdin
Busy == {c \in Messages : handler[c] \in {"running", "writing"}}

-----------------------------------------------------------------------------
(* The client.                                                             *)

\* Call registers the call under the lock that refuses it once the read loop
\* has ended, and starts the write; a notification is not registered.
BeginCall(c) ==
    /\ call[c] = "new"
    /\ IF dead
       THEN /\ call' = [call EXCEPT ![c] = "done"]
            /\ UNCHANGED <<writer, pending>>
       ELSE /\ call' = [call EXCEPT ![c] = "writing"]
            /\ writer' = [writer EXCEPT ![c] = "blocked"]
            /\ pending' = IF c \in Notes THEN pending ELSE pending \cup {c}
    /\ UNCHANGED <<got, chan, ended, taken, dead, closing, up, down, serverVars>>

Written(c) ==
    /\ writer[c] = "blocked"
    /\ \/ /\ ~Closed /\ ~exited /\ Len(up) < Pipe
          /\ up' = Append(up, c)
          /\ writer' = [writer EXCEPT ![c] = "written"]
       \* A write cut short may have left the line, or a part of it.
       \/ /\ Closed \/ exited
          /\ up' \in {up} \cup IF Len(up) < Pipe THEN {Append(up, c), Append(up, 0)} ELSE {}
          /\ writer' = [writer EXCEPT ![c] = "failed"]
    /\ UNCHANGED <<call, got, pending, chan, ended, taken, dead, closing, down, serverVars>>

CallReturns(c, answer) ==
    /\ call' = [call EXCEPT ![c] = "done"]
    /\ got' = [got EXCEPT ![c] = answer]
    /\ pending' = pending \ {c}

\* The first select of Call, and the only one of Notify.
AfterWrite(c) ==
    /\ call[c] = "writing"
    /\ writer[c] \in {"written", "failed"}
    /\ IF writer[c] = "failed" \/ c \in Notes
       THEN CallReturns(c, 0)
       ELSE call' = [call EXCEPT ![c] = "waiting"] /\ UNCHANGED <<got, pending>>
    /\ UNCHANGED <<writer, chan, ended, taken, dead, closing, up, down, serverVars>>

ContextEnds(c) ==
    /\ call[c] \in {"writing", "waiting"}
    /\ CallReturns(c, 0)
    /\ UNCHANGED <<writer, chan, ended, taken, dead, closing, up, down, serverVars>>

\* The second select: an answer, or a channel closed by the read loop.
Receive(c) ==
    /\ call[c] = "waiting"
    /\ chan[c] # 0 \/ c \in ended
    /\ call' = [call EXCEPT ![c] = "done"]
    /\ got' = [got EXCEPT ![c] = chan[c]]
    /\ chan' = [chan EXCEPT ![c] = 0]
    /\ UNCHANGED <<writer, pending, ended, taken, dead, closing, up, down, serverVars>>

\* Mutant: an answer goes to any call that waits for one.
MatchAny(m) ==
    /\ taken' \in IF pending = {} THEN {0} ELSE pending
    /\ pending' = pending \ {taken'}

\* Mutant: the call stays in the table.
MatchKeeping(m) ==
    /\ taken' = IF m \in pending THEN m ELSE 0
    /\ UNCHANGED pending

\* The read loop looks the answer's call up under the lock and takes it out of
\* the table.  What matches no pending call, or is no answer, is dropped.
Match(m) ==
    /\ taken' = IF m \in pending THEN m ELSE 0
    /\ pending' = pending \ {m}

Take ==
    /\ ~dead /\ taken = 0 /\ down # <<>>
    /\ Match(Head(down))
    /\ down' = Tail(down)
    /\ UNCHANGED <<call, got, writer, chan, ended, dead, closing, up, serverVars>>

\* It sends on the channel, which holds one answer, without the lock.
HandOver ==
    /\ taken # 0 /\ chan[taken] = 0
    /\ chan' = [chan EXCEPT ![taken] = taken]
    /\ taken' = 0
    /\ UNCHANGED <<call, got, writer, pending, ended, dead, closing, up, down, serverVars>>

\* Mutant: the channels of the pending calls are left open.
ReadEndsQuietly ==
    /\ ~dead /\ taken = 0
    /\ exited /\ (down = <<>> \/ closing = "closed")
    /\ dead' = TRUE
    /\ pending' = {}
    /\ UNCHANGED <<call, got, writer, chan, ended, taken, closing, up, down, serverVars>>

\* The child's stdout is at its end, or Wait has closed it with answers unread.
ReadEnds ==
    /\ ~dead /\ taken = 0
    /\ exited /\ (down = <<>> \/ closing = "closed")
    /\ dead' = TRUE
    /\ ended' = ended \cup pending
    /\ pending' = {}
    /\ UNCHANGED <<call, got, writer, chan, taken, closing, up, down, serverVars>>

\* mcp.Client.Close: the child's stdin, then Wait, bounded by CloseGrace.
Close ==
    /\ closing = "open"
    /\ closing' = "waiting"
    /\ UNCHANGED <<call, got, writer, pending, chan, ended, taken, dead, up, down, serverVars>>

Kill ==
    /\ closing = "waiting"
    /\ closing' = "killed" /\ exited' = TRUE
    /\ UNCHANGED <<call, got, writer, pending, chan, ended, taken, dead, up, down,
                   serve, request, handler, interrupted, noise>>

Reaped ==
    /\ closing \in {"waiting", "killed"} /\ exited
    /\ closing' = "closed"
    /\ UNCHANGED <<call, got, writer, pending, chan, ended, taken, dead, up, down, serverVars>>

-----------------------------------------------------------------------------
(* The server.                                                             *)

\* Something that is not a request (0) is answered from the loop itself.
Read ==
    /\ serve = "reading" /\ ~exited /\ up # <<>>
    /\ request' = Head(up)
    /\ up' = Tail(up)
    /\ serve' = IF Head(up) = 0 THEN "refusing" ELSE "dispatching"
    /\ UNCHANGED <<clientVars, down, handler, interrupted, exited, noise>>

Refuse ==
    /\ serve = "refusing" /\ ~exited /\ Len(down) < Pipe
    /\ down' = Append(down, 0)
    /\ serve' = "reading"
    /\ UNCHANGED <<clientVars, up, request, handler, interrupted, exited, noise>>

\* A slot is free, or the context ends while the loop waits for one.
Dispatch ==
    /\ serve = "dispatching" /\ ~exited
    /\ \/ /\ Cardinality(Busy) < Slots
          /\ handler' = [handler EXCEPT ![request] = "running"]
          /\ serve' = "reading"
       \/ /\ interrupted
          /\ serve' = "unwinding"
          /\ UNCHANGED handler
    /\ UNCHANGED <<clientVars, up, down, request, interrupted, exited, noise>>

HandlerReturns(c) ==
    /\ handler[c] = "running" /\ ~exited /\ c \notin Stubborn
    /\ handler' = [handler EXCEPT ![c] = IF c \in Notes THEN "done" ELSE "writing"]
    /\ UNCHANGED <<clientVars, up, down, serve, request, interrupted, exited, noise>>

WriteAnswer(c) ==
    /\ handler[c] = "writing" /\ ~exited /\ Len(down) < Pipe
    /\ down' = Append(down, c)
    /\ handler' = [handler EXCEPT ![c] = "done"]
    /\ UNCHANGED <<clientVars, up, serve, request, interrupted, exited, noise>>

EndOfInput ==
    /\ serve = "reading" /\ ~exited /\ up = <<>> /\ Closed
    /\ serve' = "grace"
    /\ UNCHANGED <<clientVars, up, down, request, handler, interrupted, exited, noise>>

\* The deferred function: a first wait, which lets handlers finish, then the
\* cancellation and a second wait.  Each ends with the handlers or on a timer.
GraceEnds ==
    /\ serve = "grace" /\ ~exited
    /\ serve' = "unwinding" /\ interrupted' = TRUE
    /\ UNCHANGED <<clientVars, up, down, request, handler, exited, noise>>

Unwound ==
    /\ serve = "unwinding" /\ ~exited
    /\ serve' = "returned" /\ exited' = TRUE            \* and main with it
    /\ UNCHANGED <<clientVars, up, down, request, handler, interrupted, noise>>

\* The environment: the context given to Serve ends, the child crashes, a
\* foreign server repeats an answer or sends a request of its own.
Interrupt ==
    /\ ~interrupted /\ ~exited
    /\ interrupted' = TRUE
    /\ UNCHANGED <<clientVars, up, down, serve, request, handler, exited, noise>>

Crash ==
    /\ ~exited
    /\ exited' = TRUE
    /\ UNCHANGED <<clientVars, up, down, serve, request, handler, interrupted, noise>>

Noise ==
    /\ noise < MaxNoise /\ ~exited /\ Len(down) < Pipe
    /\ \E m \in {0} \cup {c \in Messages \ Notes : handler[c] = "done"} : down' = Append(down, m)
    /\ noise' = noise + 1
    /\ UNCHANGED <<clientVars, up, serve, request, handler, interrupted, exited>>

-----------------------------------------------------------------------------
Progress(c) == Written(c) \/ AfterWrite(c) \/ Receive(c)
Caller(c) == BeginCall(c) \/ Progress(c) \/ ContextEnds(c)
ReadLoop == Take \/ HandOver \/ ReadEnds
Serve == Read \/ Refuse \/ Dispatch \/ EndOfInput \/ GraceEnds \/ Unwound
Handler(c) == HandlerReturns(c) \/ WriteAnswer(c)

RpcNext ==
    \/ \E c \in Messages : Caller(c) \/ Handler(c)
    \/ ReadLoop \/ Serve
    \/ Close \/ Kill \/ Reaped
    \/ Interrupt \/ Crash \/ Noise

\* Goroutines run and timers fire; no context need end, nobody need close,
\* crash or kill.  Of each disjunction one action at a time is enabled.
RpcFairness ==
    /\ \A c \in Messages : WF_rpcVars(Progress(c)) /\ WF_rpcVars(Handler(c))
    /\ WF_rpcVars(ReadLoop) /\ WF_rpcVars(Serve) /\ WF_rpcVars(Reaped)

RpcSpec == RpcInit /\ [][RpcNext]_rpcVars /\ RpcFairness

-----------------------------------------------------------------------------
(* Properties.                                                             *)

\* What the client and the server do is what Requests promises: a handler is
\* started once at most, and a call returns once, with an error or its own
\* answer - whatever comes late, twice, or after the call has given up.
Promised == INSTANCE Requests WITH
    Callers <- Messages,
    asked <- {c \in Messages : call[c] # "new"},
    executed <- {c \in Messages : handler[c] # "none"},
    answer <- got,
    returned <- {c \in Messages : call[c] = "done"}
ImplementsRequests == Promised!RequestsSpec

\* The read loop never waits for a caller and never sends on a channel it has
\* closed: the channel of the answer it has taken is open and empty.
ReadLoopNeverStalls == taken # 0 => chan[taken] = 0 /\ taken \notin ended

\* Once the transport is closed, or the child is gone, every call that is
\* under way comes back.
CallsReturn ==
    \A c \in Messages : (Closed \/ exited) /\ call[c] \in {"writing", "waiting"} ~> call[c] = "done"

\* drainTimeout "bounds how long Serve waits for in-flight handlers after the
\* transport closes" (server.go:18): Serve returns, stubborn handlers or not.
ServeReturns == Closed ~> exited
=============================================================================
