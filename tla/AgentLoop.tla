----------------------------- MODULE AgentLoop -----------------------------
(***************************************************************************)
(* One agent over several runs (agent.go), the main agent of an            *)
(* Orchestrator (orchestrator.go): Run appends the user's message and      *)
(* drive asks the provider, executes the tools it calls, and asks again.   *)
(*                                                                         *)
(* The tool calls of one answer run one after the other or, with           *)
(* ParallelTools, on goroutines of their own.  A call is to a local tool,  *)
(* to a name that is not registered, or to a sub-agent; the last runs the  *)
(* same loop on a clone of that agent, whose session ends with the call.   *)
(* The context of a run can be canceled at any moment.                     *)
(***************************************************************************)
EXTENDS Session

CONSTANTS
    MaxSteps,   \* Agent.MaxSteps, after its default is applied
    MaxCalls,   \* bound: tool calls in one answer
    KeepLasts,  \* the values of Agent.KeepLast looked at, 0 for unset
    MaxRuns     \* bound: runs

ASSUME AgentAssumption ==
    /\ MaxSteps \in Nat \ {0}
    /\ MaxCalls \in Nat
    /\ KeepLasts \subseteq Nat
    /\ MaxRuns \in Nat

VARIABLES
    keepLast,   \* Agent.KeepLast
    parallel,   \* Agent.ParallelTools
    history,    \* Session.history
    pc,         \* where the run stands
    canceled,   \* the run's context is canceled
    step,       \* the steps drive has completed
    uses,       \* the tool calls being executed: what each one calls
    slot,       \* where each of them stands
    results,    \* the results slice of observe: the call answered, in its place
    spent,      \* TotalUsage of the clone a delegation runs, in provider calls
    owing,      \* answered provider calls of all clones, less Orchestrator.usage
    runs        \* how many runs there have been

config == <<keepLast, parallel>>
tools == <<uses, slot, results, spent>>
vars == <<config, history, pc, canceled, step, tools, owing, runs>>

Calls == 1 .. MaxCalls
Callee == {"local", "sub", "unknown"}
StopReason == {"tool_use", "end_turn", "max_tokens", "other"}

\* A message: its role and, in their order, the numbers of the tool calls it
\* makes or answers.
Message(role, ids) == [role |-> role, ids |-> ids]
NoCalls == [i \in Calls |-> "none"]

ExecutableStop(stop) == stop \in {"tool_use", "end_turn"}

Init ==
    /\ keepLast \in KeepLasts
    /\ parallel \in BOOLEAN
    /\ history = <<>>
    /\ pc = "idle"
    /\ canceled = FALSE
    /\ step = 0
    /\ uses = <<>> /\ slot = NoCalls /\ results = <<>>
    /\ spent = [i \in Calls |-> 0]
    /\ owing = 0
    /\ runs = 0

-----------------------------------------------------------------------------
\* RunMessage and StreamMessage: a context that is already canceled leaves the
\* session alone.
Run ==
    /\ pc = "idle"
    /\ runs < MaxRuns
    /\ runs' = runs + 1
    /\ \E dead \in BOOLEAN :
         IF dead THEN UNCHANGED <<history, pc, canceled, step>>
         ELSE /\ history' = Append(history, Message("user", <<>>))
              /\ pc' = "next"
              /\ canceled' = FALSE
              /\ step' = 0
    /\ UNCHANGED <<config, tools, owing>>

Cancel ==
    /\ pc # "idle"
    /\ ~canceled
    /\ canceled' = TRUE
    /\ UNCHANGED <<config, history, pc, step, tools, owing, runs>>

\* drive returns: the deferred Trim, whatever the outcome.
Return(h, failed) ==
    /\ pc' = "idle"
    /\ history' = IF keepLast > 0 THEN Trim(h, keepLast) ELSE h

\* The head of the loop: the steps are used up or the context is canceled, or
\* request copies the history for the provider.
NextStep ==
    /\ pc = "next"
    /\ IF step = MaxSteps \/ canceled
       THEN Return(history, TRUE)
       ELSE pc' = "asking" /\ UNCHANGED history
    /\ UNCHANGED <<config, canceled, step, tools, owing, runs>>

ProviderFails ==
    /\ pc = "asking"
    /\ Return(history, TRUE)
    /\ UNCHANGED <<config, canceled, step, tools, owing, runs>>

\* answerTruncatedTools: an error result for each call, and another step.
Recover(h, ids) ==
    /\ history' = Append(h, Message("tool", ids))
    /\ pc' = "next"
    /\ step' = step + 1
    /\ UNCHANGED tools

\* The provider answers with n tool calls.
Answer ==
    /\ pc = "asking"
    /\ \E n \in 0 .. MaxCalls, stop \in StopReason :
         LET ids == [i \in 1 .. n |-> i]
             h   == Append(history, Message("assistant", ids))
         IN  \/ /\ n = 0
                /\ Return(h, FALSE)
                /\ UNCHANGED <<step, tools>>
             \/ /\ n > 0 /\ ~ExecutableStop(stop)
                /\ Recover(h, ids)
             \/ /\ n > 0 /\ ExecutableStop(stop)
                /\ history' = h
                /\ pc' = "acting"
                /\ uses' \in [1 .. n -> Callee]
                /\ slot' = [i \in Calls |-> IF i <= n THEN "waiting" ELSE "none"]
                /\ results' = [i \in 1 .. n |-> 0]
                /\ spent' = [i \in Calls |-> 0]
                /\ UNCHANGED step
    /\ UNCHANGED <<config, canceled, owing, runs>>

-----------------------------------------------------------------------------
(* observe: the tool calls of an answer.                                   *)

\* Mutant of Put: a result goes in the first place that is free.
PutNext(i) ==
    LET free == {j \in DOMAIN results : results[j] = 0}
    IN  results' = [results EXCEPT ![CHOOSE j \in free : \A k \in free : j <= k] = i]

Put(i) == results' = [results EXCEPT ![i] = i]

\* A call begins; one to an unknown name is answered at once.
Begin(i) ==
    /\ slot[i] = "waiting"
    /\ parallel \/ \A j \in 1 .. i - 1 : slot[j] = "done"
    /\ IF uses[i] = "unknown"
       THEN slot' = [slot EXCEPT ![i] = "done"] /\ Put(i)
       ELSE slot' = [slot EXCEPT ![i] = "running"] /\ UNCHANGED results
    /\ UNCHANGED <<config, history, pc, canceled, step, uses, spent, owing, runs>>

\* Mutant of LocalReturns: a tool that panics is never done.
LocalReturnsUnlessPanic(i) ==
    /\ slot[i] = "running" /\ uses[i] = "local"
    /\ \/ slot' = [slot EXCEPT ![i] = "done"] /\ Put(i)
       \/ slot' = [slot EXCEPT ![i] = "none"] /\ UNCHANGED results
    /\ UNCHANGED <<config, history, pc, canceled, step, uses, spent, owing, runs>>

\* A local tool returns, fails or panics: there is a result in every case.
LocalReturns(i) ==
    /\ slot[i] = "running" /\ uses[i] = "local"
    /\ slot' = [slot EXCEPT ![i] = "done"]
    /\ Put(i)
    /\ UNCHANGED <<config, history, pc, canceled, step, uses, spent, owing, runs>>

\* The provider answers the clone of a sub-agent.
SubAnswered(i) ==
    /\ slot[i] = "running" /\ uses[i] = "sub"
    /\ spent[i] < MaxSteps
    /\ spent' = [spent EXCEPT ![i] = @ + 1]
    /\ owing' = owing + 1
    /\ UNCHANGED <<config, history, pc, canceled, step, uses, slot, results, runs>>

\* The clone's run ends with an answer, which takes a step, or an error.
SubEnds(i) ==
    /\ slot[i] = "running" /\ uses[i] = "sub"
    /\ \/ spent[i] > 0 /\ slot' = [slot EXCEPT ![i] = "answered"]
       \/ slot' = [slot EXCEPT ![i] = "failed"]
    /\ UNCHANGED <<config, history, pc, canceled, step, uses, results, spent, owing, runs>>

\* Mutant of SubAccounted: a delegation that failed is not accounted for.
SubAccountedIfAnswered(i) ==
    /\ slot[i] \in {"answered", "failed"}
    /\ owing' = owing - (IF slot[i] = "answered" THEN spent[i] ELSE 0)
    /\ slot' = [slot EXCEPT ![i] = "done"]
    /\ Put(i)
    /\ UNCHANGED <<config, history, pc, canceled, step, uses, spent, runs>>

\* addUsage, and the delegation tool returns.
SubAccounted(i) ==
    /\ slot[i] \in {"answered", "failed"}
    /\ owing' = owing - spent[i]
    /\ slot' = [slot EXCEPT ![i] = "done"]
    /\ Put(i)
    /\ UNCHANGED <<config, history, pc, canceled, step, uses, spent, runs>>

\* Every call has returned: the tool message is appended.
Observed ==
    /\ pc = "acting"
    /\ \A i \in DOMAIN uses : slot[i] = "done"
    /\ history' = Append(history, Message("tool", results))
    /\ pc' = "next"
    /\ step' = step + 1
    /\ uses' = <<>> /\ results' = <<>>
    /\ slot' = NoCalls
    /\ spent' = [i \in Calls |-> 0]
    /\ UNCHANGED <<config, canceled, owing, runs>>

-----------------------------------------------------------------------------
Tool(i) ==
    Begin(i) \/ LocalReturns(i) \/ SubAnswered(i) \/ SubEnds(i) \/ SubAccounted(i)

Loop == NextStep \/ ProviderFails \/ Answer \/ Observed

Next == Run \/ Cancel \/ Loop \/ \E i \in Calls : Tool(i)

Spec == Init /\ [][Next]_vars

\* Providers and tools return.
Fairness == WF_vars(Loop) /\ \A i \in Calls : WF_vars(Tool(i))

FairSpec == Spec /\ Fairness

-----------------------------------------------------------------------------
Role(h, i) == h[i].role

\* Every tool call is answered by the message that follows, in the order of the
\* calls, and a tool message answers nothing else.
Answered(h, i) ==
    /\ Role(h, i) = "assistant" /\ h[i].ids # <<>> /\ i < Len(h) =>
         Role(h, i + 1) = "tool" /\ h[i + 1].ids = h[i].ids
    /\ Role(h, i) = "tool" => i > 1 /\ Role(h, i - 1) = "assistant"
    /\ Role(h, i) = "assistant" => i > 1 /\ Role(h, i - 1) \in {"user", "tool"}

\* Whatever went before - failures, cancellations, truncated answers, tools that
\* finish out of order, trimming - the provider is asked with a history that
\* begins with a user's message, ends with one or with tool results, and in
\* which every tool call has its result.
RequestsAreWellFormed ==
    pc = "asking" =>
        /\ history # <<>> /\ Role(history, 1) = "user"
        /\ Role(history, Len(history)) \in {"user", "tool"}
        /\ \A i \in DOMAIN history : Answered(history, i)

\* Trimming at the end of a run never splits a turn: what is left begins at a
\* user's message, is all that came after it, the run's own turn included, and
\* is no shorter than KeepLast unless nothing was dropped.
TurnsAreWhole ==
    [][pc # "idle" /\ pc' = "idle" =>
         \E turn \in UserTurns(history) :
           LET kept == Len(history) - turn + 1
           IN  /\ Len(history') \in {kept, kept + 1}      \* with the final answer
               /\ \A i \in 1 .. kept : history'[i] = history[turn + i - 1]
               /\ turn = 1 \/ Len(history') >= keepLast]_vars

\* When a run has ended, every provider call made for its delegations, for the
\* failed and the concurrent ones too, is in the orchestrator's account.
DelegationsAreAccounted == pc = "idle" => owing = 0

\* A run ends, whatever the provider keeps answering.
RunsEnd == pc # "idle" ~> pc = "idle"

=============================================================================
