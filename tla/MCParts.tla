------------------------------ MODULE MCParts ------------------------------
(* The components that share no state with each other, in one run: its     *)
(* first states choose the component, which then takes its own steps, so   *)
(* that the state spaces add up and do not multiply.  The instances:       *)
(* JsonRpc: two calls, one with a handler that never returns, two slots,   *)
(* pipes of one message, one message of noise.  EventBus: one agent of two *)
(* events, one event of the hub's, channels of one.  HttpRetry: durations  *)
(* of six bits, which two doublings overflow, and at most four attempts.   *)
(* Wire: five messages, so that a tool turn can follow a tool turn.        *)
(* ProviderStream: a text and two calls in four frames.  SseScanner: all   *)
(* streams of five bytes, events of four.  Config: three commands, one of  *)
(* which may edit and one of which may start agents.  Exchange: three      *)
(* pieces of text, and foreign tasks that settle, fail or go on.           *)
(* AgentLoop: three runs, so that what one leaves behind is trimmed by the *)
(* next, two steps and two tool calls, and windows shorter than a turn.    *)
EXTENDS JsonRpc, EventBus, HttpRetry, Wire, ProviderStream, SseScanner, MCConfig, Exchange, AgentLoop

RetryPolicies == [attempts : {0, 2, 4}, base : {0, 3, 9}, cap : {0, 12, 30}]

SaidKinds == {<<"text">>, <<"blank", "link">>}
RepliedKinds == {<<>>, <<"thinking", "text">>, <<"call", "call">>}
WantedParameters ==
    [maxTokens : {0, 1024, 3000}, thinking : {"off", "on"}, budget : {0, 500, 3000}, temperature : BOOLEAN]

ReplyBlocks == <<"text", "call", "call">>

VARIABLE part

Rest(running) ==
    /\ UNCHANGED part
    /\ part = running
    /\ IF running = "rpc" THEN TRUE ELSE UNCHANGED rpcVars
    /\ IF running = "bus" THEN TRUE ELSE UNCHANGED allBusVars
    /\ IF running = "retry" THEN TRUE ELSE UNCHANGED retryVars
    /\ IF running = "wire" THEN TRUE ELSE UNCHANGED wireVars
    /\ IF running = "stream" THEN TRUE ELSE UNCHANGED streamVars
    /\ IF running = "sse" THEN TRUE ELSE UNCHANGED sseVars
    /\ IF running = "config" THEN TRUE ELSE UNCHANGED configVars
    /\ IF running = "exchange" THEN TRUE ELSE UNCHANGED exchangeVars
    /\ IF running = "agent" THEN TRUE ELSE UNCHANGED vars

\* The windows are tried with tools that run in order; which of them fits does not
\* depend on the order in which parallel ones end.
PartsInit ==
    /\ part \in {"rpc", "bus", "retry", "wire", "stream", "sse", "config", "exchange", "agent"}
    /\ RpcInit /\ BusInit /\ RetryInit /\ WireInit /\ StreamInit /\ SseInit
    /\ ConfigInit /\ ExchangeInit
    /\ Init /\ (part # "agent" => keepLast = (CHOOSE k \in KeepLasts : TRUE) /\ ~parallel)
    /\ parallel => keepLast = 1

PartsNext ==
    \/ Rest("rpc") /\ RpcNext
    \/ Rest("bus") /\ BusNext
    \/ Rest("retry") /\ RetryNext
    \/ Rest("wire") /\ WireNext
    \/ Rest("stream") /\ StreamNext
    \/ Rest("sse") /\ SseNext
    \/ Rest("config") /\ ConfigNext
    \/ Rest("exchange") /\ ExchangeNext
    \/ Rest("agent") /\ Next

\* A component that does not run is in its initial state, where none of the
\* actions it is to be fair to is enabled.
PartsSpec ==
    PartsInit /\ [][PartsNext]_<<part, rpcVars, allBusVars, retryVars, wireVars, streamVars,
                                 sseVars, configVars, exchangeVars, vars>>
              /\ RpcFairness /\ BusFairness /\ Fairness
=============================================================================
