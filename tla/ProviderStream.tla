--------------------------- MODULE ProviderStream ---------------------------
(***************************************************************************)
(* The Stream functions of the adapters: frames of a vendor's format come  *)
(* in, normalised events go out through a callback, and in the end a whole *)
(* message is returned, or an error.  What a frame adds to a text or to    *)
(* the input of a call is a fragment, the number of the frame.             *)
(***************************************************************************)
EXTENDS Naturals, Sequences, SequencesExt, FiniteSets

CONSTANTS MaxFrames,        \* frames of a stream (a bound)
          Blocks            \* what the reply is made of: "text", "thinking", "call"

ASSUME StreamAssumption == MaxFrames \in Nat /\ Blocks \in Seq({"text", "thinking", "call"})

Index == 1..Len(Blocks)

VARIABLES vendor,           \* the adapter, "none" before the call
          frames,           \* frames read
          meant,            \* block -> the fragments the server has sent of it
          acc,              \* block -> what the adapter has gathered of it
          valid,            \* Anthropic's calls whose input so far is valid JSON
          order,            \* the calls in the order they came; for Anthropic,
                            \* the blocks whose stop has come; for a CLI, the
                            \* bytes held back
          finish,           \* the reply's end was seen
          events,           \* given to the callback
          message, over     \* what is returned: "ok", "error" or "open" so far

streamVars == <<vendor, frames, meant, acc, valid, order, finish, events, message, over>>

NoId == <<"none", 0>>                               \* nor name
Nothing == [type |-> "none", id |-> NoId, name |-> NoId, parts |-> <<>>, started |-> FALSE]
Nowhere == [i \in Index |-> Nothing]

StreamInit ==
    /\ vendor = "none" /\ frames = 0 /\ meant = [i \in Index |-> <<>>]
    /\ acc = Nowhere /\ valid = {} /\ order = <<>> /\ finish = FALSE
    /\ events = <<>> /\ message = <<>> /\ over = "open"

Ev(type, id, name, parts) == [type |-> type, id |-> id, name |-> name, parts |-> parts]
TextEv(type, parts) == Ev(type, NoId, NoId, parts)
StartEv(a) == Ev("start", a.id, a.name, <<>>)
DeltaEv(part) == Ev("delta", NoId, NoId, <<part>>)
Deltas(parts) == [k \in 1..Len(parts) |-> DeltaEv(parts[k])]
StopEv(a) == Ev("stop", a.id, NoId, <<>>)
DoneEv == Ev("done", NoId, NoId, <<>>)

\* A part of the message.
TextItem(type, parts) == [type |-> type, id |-> NoId, name |-> NoId, parts |-> parts]
Item(a) == [type |-> a.type, id |-> IF a.type = "call" THEN a.id ELSE NoId,
            name |-> IF a.type = "call" THEN a.name ELSE NoId, parts |-> a.parts]

Name(i) == <<"name", i>>

\* The callback takes the events, or fails at one of them and ends the stream.
Emit(evs) ==
    \/ events' = events \o evs /\ UNCHANGED over
    \/ \E k \in 1..Len(evs) : events' = events \o SubSeq(evs, 1, k) /\ over' = "error"

Frame(v) ==
    /\ vendor = v /\ over = "open" /\ frames < MaxFrames
    /\ frames' = frames + 1
    /\ UNCHANGED <<vendor, message>>

Sends(i) == meant' = [meant EXCEPT ![i] = Append(@, frames + 1)]

\* A fragment, or several, of a block of the type is added to what there is of it.
Grown(a, type, more) == [a EXCEPT !.type = type, !.parts = @ \o more]

\* Blocks come one after the other; OpenAI's calls may come mixed.
InTurn(i) == \A j \in Index : j > i => meant[j] = <<>> /\ acc[j] = Nothing

StreamBegins ==
    /\ vendor = "none"
    /\ vendor' \in {"openai", "anthropic", "google", "cli"}
    /\ UNCHANGED <<frames, meant, acc, valid, order, finish, events, message, over>>

-----------------------------------------------------------------------------
(* OpenAI.  A call has one name: that a server renames it after its start  *)
(* was told is left out.                                                   *)

OpenAIText(i) ==
    /\ Blocks[i] = "text" /\ InTurn(i)
    /\ Frame("openai") /\ Sends(i)
    /\ acc' = [acc EXCEPT ![i] = Grown(@, "text", <<frames + 1>>)]
    /\ Emit(<<TextEv("text", <<frames + 1>>)>>)
    /\ UNCHANGED <<valid, order, finish>>

\* Mutant: the id is taken whenever one comes.
WithCallUnfrozen(a, i, has) ==
    [a EXCEPT !.type = "call",
              !.id = IF "id" \in has THEN <<"given", i>> ELSE @,
              !.name = IF "name" \in has THEN Name(i) ELSE @,
              !.parts = IF "args" \in has THEN Append(@, frames + 1) ELSE @]

\* A fragment of a call, and what it has: the id is frozen once the start was
\* emitted, which needs a name, and makes up an id if none has come.
WithCall(a, i, has) ==
    [a EXCEPT !.type = "call",
              !.id = IF "id" \in has /\ ~a.started THEN <<"given", i>> ELSE @,
              !.name = IF "name" \in has THEN Name(i) ELSE @,
              !.parts = IF "args" \in has THEN Append(@, frames + 1) ELSE @]

OpenAICall(i, has) ==
    /\ Blocks[i] = "call" /\ \A j \in Index : j > i => Blocks[j] = "call" \/ InTurn(i)
    /\ Frame("openai")
    /\ IF "args" \in has THEN Sends(i) ELSE UNCHANGED meant
    /\ LET got == WithCall(acc[i], i, has)
           starts == ~got.started /\ got.name # NoId
           a == IF starts THEN [got EXCEPT !.started = TRUE,
                                           !.id = IF @ = NoId THEN <<"call", i>> ELSE @]
                          ELSE got
       IN  /\ acc' = [acc EXCEPT ![i] = a]
           /\ Emit(IF starts
                   THEN <<StartEv(a)>> \o Deltas(a.parts)
                   ELSE IF "args" \in has /\ a.started THEN <<DeltaEv(frames + 1)>> ELSE <<>>)
    /\ order' = IF Contains(order, i) THEN order ELSE Append(order, i)
    /\ UNCHANGED <<valid, finish>>

-----------------------------------------------------------------------------
(* Anthropic.  A block's start, its deltas, its stop; the start may be     *)
(* missing, and then a text is recovered from its deltas, a call is not.   *)
(* That a server sends a call's start after its deltas is left out.        *)

BlockStarts(i) ==
    /\ InTurn(i) /\ ~acc[i].started /\ (Blocks[i] = "call" => meant[i] = <<>>)
    /\ Frame("anthropic")
    /\ LET a == [acc[i] EXCEPT !.type = Blocks[i], !.id = <<"given", i>>, !.name = Name(i),
                               !.started = TRUE]
       IN  /\ acc' = [acc EXCEPT ![i] = a]
           /\ Emit(IF Blocks[i] = "call" THEN <<StartEv(a)>> ELSE <<>>)
    /\ UNCHANGED <<meant, valid, order, finish>>

\* What has come of a call's input may be valid JSON, or not yet, or no more.
BlockGrows(i) ==
    /\ InTurn(i) /\ ~Contains(order, i)
    /\ Frame("anthropic") /\ Sends(i)
    /\ IF acc[i] = Nothing /\ Blocks[i] = "call"
       THEN UNCHANGED <<acc, valid, events, over>>
       ELSE /\ valid' \in IF Blocks[i] = "call" THEN {valid \cup {i}, valid \ {i}} ELSE {valid}
            /\ acc' = [acc EXCEPT ![i] = Grown(@, Blocks[i], <<frames + 1>>)]
            /\ Emit(<<IF Blocks[i] = "call" THEN DeltaEv(frames + 1) ELSE TextEv(Blocks[i], <<frames + 1>>)>>)
    /\ UNCHANGED <<order, finish>>

BlockStops(i) ==
    /\ InTurn(i) /\ acc[i].started /\ ~Contains(order, i)
    /\ Frame("anthropic")
    /\ Emit(IF acc[i].type = "call" THEN <<StopEv(acc[i])>> ELSE <<>>)
    /\ order' = Append(order, i)
    /\ UNCHANGED <<meant, acc, valid, finish>>

-----------------------------------------------------------------------------
(* Google.  A part is whole; a call without an id is numbered.             *)

GooglePart(i) ==
    /\ InTurn(i) /\ (Blocks[i] = "call" => acc[i] = Nothing)
    /\ Frame("google") /\ Sends(i)
    /\ \E id \in {NoId, <<"given", i>>} :
       LET a == [type |-> Blocks[i], name |-> Name(i), started |-> TRUE,
                 id |-> IF id = NoId THEN <<"call", Len(order)>> ELSE id,
                 parts |-> Append(acc[i].parts, frames + 1)]
       IN  /\ acc' = [acc EXCEPT ![i] = a]
           /\ Emit(IF Blocks[i] = "call"
                   THEN <<StartEv(a), DeltaEv(frames + 1), StopEv(a)>>
                   ELSE <<TextEv(Blocks[i], <<frames + 1>>)>>)
    /\ order' = IF Blocks[i] = "call" THEN Append(order, i) ELSE order
    /\ UNCHANGED <<valid, finish>>

-----------------------------------------------------------------------------
(* A CLI.  Its output is read as it comes; a frame is a byte or more, and  *)
(* a number above MaxFrames says that it ends inside of a rune, or above   *)
(* twice that, that it is white space, which is read whole.                *)

Cut == {"whole", "inside", "blank"}
Byte(n, cut) ==
    CASE cut = "whole" -> n
      [] cut = "inside" -> n + MaxFrames
      [] cut = "blank" -> n + 2 * MaxFrames
Inside(byte) == MaxFrames < byte /\ byte <= 2 * MaxFrames
Blank(byte) == 2 * MaxFrames < byte

\* strings.TrimSpace: the white space at both ends goes.
Trimmed(said) ==
    LET printed == {k \in DOMAIN said : ~Blank(said[k])}
    IN  IF printed = {} THEN <<>> ELSE SubSeq(said, Min(printed), Max(printed))

CompletePrefix(bytes) == Max({0} \cup {k \in 1..Len(bytes) : ~Inside(bytes[k])})

\* One or two of them are read, and what ends on a rune is handed on.
CliRead(i, cuts) ==
    /\ Blocks[i] = "text" /\ InTurn(i) /\ vendor = "cli" /\ over = "open" /\ frames + Len(cuts) <= MaxFrames
    /\ frames' = frames + Len(cuts)
    /\ LET read == [k \in 1..Len(cuts) |-> Byte(frames + k, cuts[k])]
           held == order \o read
           k == CompletePrefix(held)
           told == SubSeq(held, 1, k)
       IN  /\ Len(held) - k <= 3                        \* a rune is at most four bytes
           /\ meant' = [meant EXCEPT ![i] = @ \o read]
           /\ acc' = [acc EXCEPT ![i] = Grown(@, "text", told)]
           /\ Emit(IF k > 0 THEN <<TextEv("text", told)>> ELSE <<>>)
           /\ order' = SubSeq(held, k + 1, Len(held))
    /\ UNCHANGED <<vendor, valid, finish, message>>

\* The output is at its end: the rest of it is handed on, the process waited
\* for, and what it said is an answer if it succeeded, without the white space
\* around it.
CliEnds ==
    /\ vendor = "cli" /\ over = "open"
    /\ LET rest == IF order # <<>> THEN <<TextEv("text", order)>> ELSE <<>>
           last == rest \o <<DoneEv>>
           said == FlattenSeq([i \in Index |-> acc[i].parts]) \o order
       IN  \/ /\ events' = events \o last /\ over' = "ok" /\ finish' = TRUE
              /\ message' = <<TextItem("text", Trimmed(said))>>
           \/ /\ \E k \in 0..Len(last) : events' = events \o SubSeq(last, 1, k)
              /\ over' = "error" /\ UNCHANGED <<finish, message>>
    /\ UNCHANGED <<vendor, frames, meant, acc, valid, order>>

-----------------------------------------------------------------------------
(* The end.                                                                *)

\* finish_reason, stop_reason or message_stop, or finishReason.
Finishes ==
    /\ ~finish
    /\ \E v \in {"openai", "anthropic", "google"} : Frame(v)
    /\ finish' = TRUE
    /\ UNCHANGED <<meant, acc, valid, order, events, over>>

\* The texts of one kind joined, ahead of the calls; Anthropic's by index.
Joined(kind) ==
    LET parts == FlattenSeq([i \in Index |-> IF acc[i].type = kind THEN acc[i].parts ELSE <<>>])
    IN  IF parts = <<>> THEN <<>> ELSE <<TextItem(kind, parts)>>

\* The calls that have a name, in order, each as the part of a message or as
\* the event that it is over.
CallsMade ==
    FlattenSeq([k \in 1..Len(order) |->
        IF acc[order[k]].name # NoId THEN <<acc[order[k]]>> ELSE <<>>])

\* Anthropic's call whose input is not valid JSON gets the empty object for it,
\* which <<>> stands for, as for every adapter's call that was sent no input.
BlockContent(i) ==
    IF acc[i].type = "call" /\ i \notin valid THEN [acc[i] EXCEPT !.parts = <<>>] ELSE acc[i]

Assembled ==
    IF vendor = "anthropic"
    THEN FlattenSeq([i \in Index |->
             IF acc[i].type # "none" /\ (acc[i].type = "text" => acc[i].parts # <<>>)
             THEN <<Item(BlockContent(i))>> ELSE <<>>])
    ELSE Joined("thinking") \o Joined("text") \o [k \in 1..Len(CallsMade) |-> Item(CallsMade[k])]
Ending ==
    (IF vendor = "openai" THEN [k \in 1..Len(CallsMade) |-> StopEv(CallsMade[k])] ELSE <<>>) \o <<DoneEv>>

\* Mutant: a stream that breaks off is taken for its end.
StreamEndsAnyhow ==
    /\ vendor \notin {"none", "cli"} /\ over = "open"
    /\ events' = events \o Ending
    /\ over' = "ok" /\ message' = Assembled
    /\ UNCHANGED <<vendor, frames, meant, acc, valid, order, finish>>

\* The stream is at its end: cut short, it is an error.  OpenAI's calls stop
\* here, and every vendor's stream is done.
StreamEnds ==
    /\ vendor \notin {"none", "cli"} /\ over = "open"
    /\ IF ~finish
       THEN over' = "error" /\ UNCHANGED <<events, message>>
       ELSE \/ events' = events \o Ending /\ over' = "ok" /\ message' = Assembled
            \/ /\ \E k \in 1..Len(Ending) : events' = events \o SubSeq(Ending, 1, k)
               /\ over' = "error" /\ UNCHANGED message
    /\ UNCHANGED <<vendor, frames, meant, acc, valid, order, finish>>

\* A frame that is an error, or no JSON, or a read that fails.
StreamBreaks ==
    /\ vendor # "none" /\ over = "open"
    /\ over' = "error"
    /\ UNCHANGED <<vendor, frames, meant, acc, valid, order, finish, events, message>>

StreamNext ==
    \/ StreamBegins \/ Finishes \/ StreamEnds \/ StreamBreaks
    \/ \E i \in Index : OpenAIText(i) \/ BlockStarts(i) \/ BlockGrows(i) \/ BlockStops(i) \/ GooglePart(i)
    \/ \E i \in Index, n \in 1..2 : \E cuts \in [1..n -> Cut] : CliRead(i, cuts)
    \/ CliEnds
    \/ \E i \in Index, has \in SUBSET {"id", "name", "args"} : has # {} /\ OpenAICall(i, has)

StreamSpec == StreamInit /\ [][StreamNext]_streamVars

-----------------------------------------------------------------------------
(* Properties.                                                             *)

OfType(type, s) == FlattenSeq([k \in 1..Len(s) |-> IF s[k].type = type THEN <<s[k]>> ELSE <<>>])
Given(type) == OfType(type, events)
Returned(type) == OfType(type, message)
PartsOf(items) == FlattenSeq([k \in 1..Len(items) |-> items[k].parts])
Told(type) == PartsOf(Given(type))
At(e) == {p \in DOMAIN events : events[p] = e}

\* The calls of which the adapter does not keep the input it has told of.
Discarded == {i \in Index : vendor = "anthropic" /\ Blocks[i] = "call" /\ i \notin valid}

\* The message has a text as it was told, a CLI's without what is blank at its ends.
TextIsTold(type) ==
    LET told == Told(type)
        kept == PartsOf(Returned(type))
    IN  \E first \in 1..(Len(told) + 1), last \in 0..Len(told) :
          /\ kept = SubSeq(told, first, last)
          /\ \A k \in DOMAIN told : k < first \/ k > last => vendor = "cli" /\ Blank(told[k])

\* When a stream returns a message, the events that went before say the same: its
\* texts in order, but for the white space around a CLI's output, and for each of its
\* calls one start with its id and name, its input after the start, one stop with
\* its id after that; and done at the end.  Every fragment of an input that is told
\* is in the message, but for Anthropic's inputs that are not JSON.  No text is cut
\* inside of a rune, unless the output ends there.
StreamTellsTheMessage ==
    over = "ok" =>
        /\ \A type \in {"text", "thinking"} : TextIsTold(type)
        /\ ToSet(Told("delta")) \ UNION {ToSet(acc[i].parts) : i \in Discarded}
             = ToSet(PartsOf(Returned("call")))
        /\ Len(Given("start")) = Len(Returned("call"))
        /\ \A call \in ToSet(Returned("call")) :
              /\ Cardinality(At(StartEv(call))) = 1
              /\ \A start \in At(StartEv(call)), part \in ToSet(call.parts) :
                    \A delta \in At(DeltaEv(part)) : start < delta
              /\ vendor # "anthropic" => Cardinality(At(StopEv(call))) = 1
              /\ \A stop \in At(StopEv(call)), part \in ToSet(call.parts) :
                    \A delta \in At(DeltaEv(part)) : delta < stop
        /\ At(DoneEv) = {Len(events)}
        /\ vendor = "cli" =>
              \A p \in 1..(Len(events) - 2) : ~Inside(Last(events[p].parts))

\* A message is returned only of a reply whose end was seen, and it is whole: every
\* text the server has sent, but for white space around a CLI's output, and every
\* call with all of its input or, if it is Anthropic's and no JSON, with none of it
\* and never with a part.
StreamIsWhole ==
    over = "ok" =>
        /\ finish
        /\ \A i \in Index :
              IF Blocks[i] = "call"
              THEN \A call \in ToSet(Returned("call")) : call.name = Name(i) =>
                     call.parts = IF i \in Discarded THEN <<>> ELSE meant[i]
              ELSE {part \in ToSet(meant[i]) : ~Blank(part)} \subseteq ToSet(PartsOf(Returned(Blocks[i])))
=============================================================================
