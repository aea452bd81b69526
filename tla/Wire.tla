-------------------------------- MODULE Wire --------------------------------
(***************************************************************************)
(* What the providers' adapters send of a conversation.  A session grows   *)
(* turn by turn, as hosts and the agent append to it, and may be saved and *)
(* loaded in between; each adapter turns all of it into the messages of    *)
(* its own API, every time.  Texts are their place in the conversation.    *)
(***************************************************************************)
EXTENDS Integers, Sequences, SequencesExt, FiniteSets

CONSTANTS MaxTurns,         \* messages of the conversation (a bound)
          Names,            \* of the tools
          Said, Replied,    \* the kinds of content a user's and a model's
                            \* message may hold, as sequences
          Wanted            \* parameters of a request

Kinds == {"text", "blank", "plan", "thinking", "call", "result", "image", "link", "audio"}
RequestFields == [maxTokens : Int, thinking : {"off", "on"}, budget : Int, temperature : BOOLEAN]

\* Users make no calls and show no thinking; hosts and observe give results.
ASSUME WireAssumption ==
    /\ MaxTurns \in Nat
    /\ Said \subseteq Seq(Kinds \ {"thinking", "call", "result"})
    /\ Replied \subseteq Seq(Kinds \ {"result"})
    /\ Wanted \subseteq RequestFields

\* A content is its kind, an id, a name and the state of a call's input.
Content(kind, id, name, input) == [kind |-> kind, id |-> id, name |-> name, input |-> input]
Plain(kind, place) == Content(kind, place, "", "")

VARIABLES talk,             \* Session.history
          wanted            \* the other fields of the Request

wireVars == <<talk, wanted>>

None == [maxTokens |-> 0, thinking |-> "off", budget |-> 0, temperature |-> FALSE]
WireInit == talk = <<>> /\ wanted = None

-----------------------------------------------------------------------------
(* The conversation.                                                       *)

\* The parts of the given kinds; the messages that have parts.
Only(kinds, parts) ==
    FlattenSeq([i \in 1..Len(parts) |-> IF parts[i].kind \in kinds THEN <<parts[i]>> ELSE <<>>])
NonEmpty(messages) ==
    FlattenSeq([i \in 1..Len(messages) |->
        IF messages[i].parts # <<>> THEN <<messages[i]>> ELSE <<>>])

CallsOf(m) == Only({"call"}, m.content)
Asked == talk # <<>> /\ Last(talk).role = "assistant" /\ CallsOf(Last(talk)) # <<>>

Add(role, content) ==
    /\ Len(talk) < MaxTurns /\ wanted = None      \* explored apart from it
    /\ talk' = Append(talk, [role |-> role, content |-> content])
    /\ UNCHANGED wanted

\* A user's turn; the one before may have been left unanswered by an error.
Say(kinds) ==
    /\ ~Asked
    /\ Add("user", [i \in 1..Len(kinds) |-> Plain(kinds[i], Len(talk) + 1)])

Instruct ==
    /\ ~Asked
    /\ Add("system", <<Plain("text", Len(talk) + 1)>>)

\* A model's reply.  Adapters that are given no ids for its calls count them
\* from call_0, again in each reply.
Reply(kinds, names, input, counted) ==
    /\ talk # <<>> /\ Last(talk).role \notin {"assistant", "system"}
    /\ LET id(i) == IF counted THEN i ELSE MaxTurns * (Len(talk) + 1) + i IN
       Add("assistant", [i \in 1..Len(kinds) |->
               IF kinds[i] = "call" THEN Content("call", id(i), names[i], input)
                                    ELSE Plain(kinds[i], Len(talk) + 1)])

\* observe answers every call, and stamps the name; a host may leave it out.
Answers(named) ==
    /\ Asked
    /\ LET calls == CallsOf(Last(talk)) IN
       Add("tool", [i \in 1..Len(calls) |->
                       Content("result", calls[i].id, IF named THEN calls[i].name ELSE "", "")])

\* Session.Save and Load: the canonical form makes an invalid input {}.
Canonical(c) == IF c.kind = "call" /\ c.input # "valid" THEN [c EXCEPT !.input = "empty"] ELSE c

SaveAndLoad ==
    /\ talk # <<>>
    /\ talk' = [i \in 1..Len(talk) |->
                   [talk[i] EXCEPT !.content = [j \in DOMAIN @ |-> Canonical(@[j])]]]
    /\ talk' # talk
    /\ UNCHANGED wanted

Want(w) ==
    /\ talk = <<>> /\ wanted = None
    /\ wanted' = w
    /\ UNCHANGED talk

-----------------------------------------------------------------------------
(* The adapters.  A wire message is a role and its parts.                  *)

Msg(role, parts) == [role |-> role, parts |-> parts]

\* Anthropic: contentBlocks and buildRequest; the system text goes elsewhere.
\* Audio, for which the call is refused, is left out.
AnthropicMessage(m) ==
    Msg(IF m.role = "assistant" THEN "assistant" ELSE "user",
        Only(IF m.role = "system" THEN {} ELSE Kinds \ {"blank"}, m.content))
AnthropicWire(h) == NonEmpty([i \in 1..Len(h) |-> AnthropicMessage(h[i])])

\* OpenAI: buildMessages.  One message for each result; the texts of a reply
\* are joined, ahead of its calls, and what else it holds is not sent.
OpenAIMessages(m) ==
    IF m.role = "tool" THEN [j \in 1..Len(m.content) |-> Msg("tool", <<m.content[j]>>)]
    ELSE IF m.role = "assistant"
         THEN <<Msg("assistant", Only({"text"}, m.content) \o Only({"call"}, m.content))>>
         ELSE <<Msg(m.role, m.content)>>
OpenAIWire(h) == FlattenSeq([i \in 1..Len(h) |-> OpenAIMessages(h[i])])

\* Mutant: the names are collected before the conversation is walked.
GoogleNameAtOnce(h, i, c) ==
    LET calls == {k \in 1..Len(h) : \E j \in DOMAIN h[k].content :
                      h[k].content[j].kind = "call" /\ h[k].content[j].id = c.id}
        call == CHOOSE x \in {h[Max(calls)].content[j] : j \in DOMAIN h[Max(calls)].content} :
                   x.kind = "call" /\ x.id = c.id
    IN  IF c.name # "" \/ calls = {} THEN c.name ELSE call.name

\* Google: buildContents.  A result without a name takes the name of the last
\* call with its id so far; an image by URL is not sent.
GoogleName(h, i, c) ==
    LET before == {k \in 1..(i - 1) : \E j \in DOMAIN h[k].content :
                      h[k].content[j].kind = "call" /\ h[k].content[j].id = c.id}
        call == CHOOSE x \in {h[Max(before)].content[j] : j \in DOMAIN h[Max(before)].content} :
                   x.kind = "call" /\ x.id = c.id
    IN  IF c.name # "" \/ before = {} THEN c.name ELSE call.name

GoogleContent(h, i, c) == IF c.kind = "result" THEN [c EXCEPT !.name = GoogleName(h, i, c)] ELSE c
GoogleMessage(h, i) ==
    Msg(IF h[i].role = "assistant" THEN "model" ELSE "user",
        Only(IF h[i].role = "system" THEN {} ELSE Kinds \ {"link"},
             [j \in 1..Len(h[i].content) |-> GoogleContent(h, i, h[i].content[j])]))
GoogleWire(h) == NonEmpty([i \in 1..Len(h) |-> GoogleMessage(h, i)])

\* A CLI: renderPrompt flattens it into a transcript of what can be read.
CliWire(h) ==
    NonEmpty([i \in 1..Len(h) |-> Msg(h[i].role, Only({"text", "plan", "result"}, h[i].content))])

\* Mutant: room is made before the least budget is applied.
AnthropicParamsTight(w) ==
    LET asked == IF w.maxTokens <= 0 THEN 4096 ELSE w.maxTokens
        budget == IF w.budget <= 0 THEN 2048 ELSE IF w.budget < 1024 THEN 1024 ELSE w.budget
    IN  IF w.thinking = "off"
        THEN [maxTokens |-> asked, budget |-> 0, temperature |-> w.temperature]
        ELSE [maxTokens |-> IF asked <= w.budget THEN budget + 4096 ELSE asked,
              budget |-> budget, temperature |-> FALSE]

\* The parameters Anthropic is sent: thinking needs a budget, room above it and
\* no temperature.
AnthropicParams(w) ==
    LET asked == IF w.maxTokens <= 0 THEN 4096 ELSE w.maxTokens
        budget == IF w.budget <= 0 THEN 2048 ELSE IF w.budget < 1024 THEN 1024 ELSE w.budget
    IN  IF w.thinking = "off"
        THEN [maxTokens |-> asked, budget |-> 0, temperature |-> w.temperature]
        ELSE [maxTokens |-> IF asked <= budget THEN budget + 4096 ELSE asked,
              budget |-> budget, temperature |-> FALSE]

WireNext ==
    \/ \E kinds \in Said : Say(kinds)
    \/ \E kinds \in Replied : \E names \in [DOMAIN kinds -> Names] :
          \E input \in {"valid", "cut"}, counted \in BOOLEAN : Reply(kinds, names, input, counted)
    \/ \E named \in BOOLEAN : Answers(named)
    \/ Instruct \/ SaveAndLoad
    \/ \E w \in Wanted : Want(w)

WireSpec == WireInit /\ [][WireNext]_wireVars

-----------------------------------------------------------------------------
(* Properties.                                                             *)

Parts(w) == FlattenSeq([i \in 1..Len(w) |-> w[i].parts])
Sent == FlattenSeq([i \in 1..Len(talk) |-> talk[i].content])

\* Every result, with the name of the function it answers.
Named(i, c) ==
    IF c.kind # "result" THEN c ELSE
    [c EXCEPT !.name = (CHOOSE u \in ToSet(talk[i - 1].content) : u.kind = "call" /\ u.id = c.id).name]
SentNamed ==
    FlattenSeq([i \in 1..Len(talk) |-> [j \in 1..Len(talk[i].content) |-> Named(i, talk[i].content[j])]])

\* Each adapter sends every text, call and result, in order; the results of a
\* reply's calls follow it, and carry the name of the function they answer
\* where the API goes by it - however often the ids start again from call_0.
FollowUp(w) ==
    \A i \in 1..(Len(w) - 1) :
        Only({"call"}, w[i].parts) # <<>> => Only({"result"}, w[i + 1].parts) # <<>>

WireKeepsTheTurns ==
    LET spoken == Only({"text"}, Sent)
        said == FlattenSeq([i \in 1..Len(talk) |->
                    IF talk[i].role = "system" THEN <<>> ELSE talk[i].content])
        acted == {"call", "result"}
    IN  /\ \A w \in {AnthropicWire(talk), OpenAIWire(talk), GoogleWire(talk)} : FollowUp(w)
        /\ Only(acted, Parts(AnthropicWire(talk))) = Only(acted, Sent)
        /\ Only(acted, Parts(OpenAIWire(talk))) = Only(acted, Sent)
        /\ Only(acted, Parts(GoogleWire(talk))) = Only(acted, SentNamed)
        /\ Only({"text"}, Parts(OpenAIWire(talk))) = spoken
        /\ Only({"text"}, Parts(CliWire(talk))) = spoken
        /\ \A w \in {AnthropicWire(talk), GoogleWire(talk)} :
               Only({"text"}, Parts(w)) = Only({"text"}, said)

\* No adapter sends what its API is known, by the comments of the code, to
\* refuse: a message or a text without content to Anthropic, a message without
\* parts to Google, a thinking budget without room above it.
WireIsAcceptable ==
    /\ \A w \in {AnthropicWire(talk), GoogleWire(talk)} : \A i \in 1..Len(w) : w[i].parts # <<>>
    /\ Only({"blank"}, Parts(AnthropicWire(talk))) = <<>>
    /\ wanted.thinking # "off" =>
          LET p == AnthropicParams(wanted) IN
          p.budget >= 1024 /\ p.maxTokens > p.budget /\ ~p.temperature
=============================================================================
