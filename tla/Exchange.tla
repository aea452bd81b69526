------------------------------ MODULE Exchange ------------------------------
(***************************************************************************)
(* One message of an A2A client, sent or streamed, over the JSON-RPC or    *)
(* the gRPC binding: the server's handler and its sink, the connection,    *)
(* another client that cancels the task, and the client's assembly of the  *)
(* answer.  The server may also be a foreign one, which sends snapshots,   *)
(* messages, last chunks and empty responses that this one never does.  A  *)
(* text is the sequence of the pieces it was made of; the task store is    *)
(* TaskStore's, cut to one task.                                           *)
(***************************************************************************)
EXTENDS Naturals, SequencesExt

CONSTANTS MaxPieces,      \* pieces of text that a server makes
          ForeignStates   \* states of a foreign server's task

Failures == {"failed", "canceled", "rejected"}
Settled == {"completed", "input-required", "auth-required"}

ASSUME ExchangeAssumption ==
    MaxPieces \in Nat /\ ForeignStates \subseteq {"working"} \cup Settled \cup Failures

VARIABLES way,            \* [binding, streamed, foreign, content] of it
          peer,           \* where the server is
          task,           \* the state of its task
          pieces,         \* pieces made so far
          told, answer,   \* the text streamed, since a chunk that restarted it; the last
                          \* settled one: [text, note, appended, saw]
          wire,           \* what the client has still to read
          cut,            \* the connection is down
          asm,            \* the client's StreamAssembler
          result          \* what the client returned: [got, text]

exchangeVars == <<way, peer, task, pieces, told, answer, wire, cut, asm, result>>

\* A settled text: its status message's is the note, and the last chunk of it
\* may have been appended to what was streamed.
SettledAs(text, note, appended) == [text |-> text, note |-> note, appended |-> appended, saw |-> TRUE]
NoAnswer == [text |-> <<>>, note |-> <<>>, appended |-> FALSE, saw |-> FALSE]
NewAssembler == [full |-> <<>>, final |-> <<>>, sawDelta |-> FALSE, sawFinal |-> FALSE]
Unknown == [got |-> "", text |-> <<>>]

ExchangeInit ==
    /\ way = [binding |-> "", streamed |-> FALSE, foreign |-> FALSE, content |-> ""]
    /\ peer = "off" /\ task = "" /\ pieces = 0
    /\ told = <<>> /\ answer = NoAnswer
    /\ wire = <<>> /\ cut = FALSE
    /\ asm = NewAssembler /\ result = Unknown

\* The text of a status message, which no server makes any other text of.
Note == <<0>>

\* What crosses the wire.
Status(state) == [kind |-> "status", state |-> state]
Artifact(text, append, last) == [kind |-> "artifact", text |-> text, append |-> append, last |-> last]
Snapshot(state, text, note) == [kind |-> "task", state |-> state, text |-> text, note |-> note]
Direct(text) == [kind |-> "message", text |-> text]
Void == [kind |-> "void", text |-> <<>>]     \* a response without a result
Error == [kind |-> "error"]
End == [kind |-> "end"]

\* A sink's send: what is sent over a connection that is down is lost.
Send(events) == wire' = IF cut THEN wire ELSE wire \o events

-----------------------------------------------------------------------------
(* The client sends.                                                       *)

\* The client of this repository sends text, a foreign one any part; a foreign
\* client of a foreign server is none of this repository's.
ClientSends(b, s, f, content) ==
    /\ peer = "off" /\ (f => content = "text")
    /\ way' = [binding |-> b, streamed |-> s, foreign |-> f, content |-> content]
    /\ peer' = IF f THEN "foreign" ELSE "dispatching"
    /\ UNCHANGED <<task, pieces, told, answer, wire, cut, asm, result>>

-----------------------------------------------------------------------------
(* The server.                                                             *)

\* The JSON-RPC server refuses what it cannot read, dispatch or stream.
Refuses ==
    /\ peer = "dispatching" /\ way.binding = "http"
    /\ Send(<<Error>>)
    /\ peer' = "done"
    /\ UNCHANGED <<way, task, pieces, told, answer, cut, asm, result>>

\* The agent takes text and inline images or audio; data parts it skips, and
\* any other file part it refuses.
Accepted == way.content # "file"

Begins ==
    /\ peer = "dispatching"
    /\ task' = "working" /\ peer' = "running"
    /\ IF way.streamed THEN Send(<<Status("working")>>) ELSE UNCHANGED wire
    /\ UNCHANGED <<way, pieces, told, answer, cut, asm, result>>

\* The handler makes a piece of text; a streamed one is emitted.  Once a
\* send fails, which a connection that is down makes it do sooner or later, so
\* does the handler.
Makes ==
    /\ peer = "running" /\ Accepted /\ pieces < MaxPieces
    /\ pieces' = pieces + 1
    /\ IF way.streamed THEN /\ Send(<<Artifact(<<pieces + 1>>, told # <<>>, FALSE)>>)
                            /\ told' = Append(told, pieces + 1)
                       ELSE UNCHANGED <<wire, told>>
    /\ peer' \in IF way.streamed /\ cut THEN {peer, "failing"} ELSE {peer}
    /\ UNCHANGED <<way, task, answer, cut, asm, result>>

\* tasks/cancel, or CancelTask, by another client.
Cancels ==
    /\ peer \in {"running", "failing"} /\ task = "working"
    /\ task' = "canceled"
    /\ UNCHANGED <<way, peer, pieces, told, answer, wire, cut, asm, result>>

\* A message that is not accepted, a failed run, or a context that is done.
HandlerFails ==
    /\ peer \in {"running", "failing"}
    /\ task' = IF task = "working" THEN "failed" ELSE task
    /\ Send(IF way.streamed THEN <<Status(task'), End>>
            ELSE IF way.binding = "grpc" THEN <<Error>> ELSE <<Snapshot(task', <<>>, <<>>)>>)
    /\ peer' = "done"
    /\ UNCHANGED <<way, pieces, told, answer, cut, asm, result>>

\* Mutant: the handler's answer goes out although the task was canceled.
HandlerAnswersAnyway ==
    /\ peer = "running" /\ Accepted
    /\ task' = IF task = "working" THEN "completed" ELSE task
    /\ \E from \in 1..(pieces + 1) :
           LET text == [i \in 1..(pieces + 1 - from) |-> from + i - 1]
           IN  /\ answer' = SettledAs(text, <<>>, FALSE)
               /\ Send(IF way.streamed
                       THEN <<Artifact(text, FALSE, TRUE), Status("completed"), End>>
                       ELSE <<Snapshot("completed", text, <<>>)>>)
    /\ peer' = "done"
    /\ UNCHANGED <<way, pieces, told, cut, asm, result>>

\* The answer is the text of the last step, which follows that of the others.
HandlerAnswers ==
    /\ peer = "running" /\ Accepted
    /\ task' = IF task = "working" THEN "completed" ELSE task
    /\ \E from \in 1..(pieces + 1) :
           LET text == IF task = "working" THEN [i \in 1..(pieces + 1 - from) |-> from + i - 1] ELSE <<>>
           IN  /\ answer' = IF task = "working" THEN SettledAs(text, <<>>, FALSE) ELSE answer
               /\ Send(IF ~way.streamed THEN <<Snapshot(task', text, <<>>)>>
                       ELSE IF task = "working"
                       THEN <<Artifact(text, FALSE, TRUE), Status(task'), End>>
                       ELSE <<Status(task'), End>>)
    /\ peer' = "done"
    /\ UNCHANGED <<way, pieces, told, cut, asm, result>>

-----------------------------------------------------------------------------
(* A foreign server.                                                       *)

ForeignTells(restart, direct) ==
    /\ peer = "foreign" /\ way.streamed /\ pieces < MaxPieces
    /\ pieces' = pieces + 1
    /\ IF direct THEN Send(<<Direct(<<pieces + 1>>)>>)
                 ELSE Send(<<Artifact(<<pieces + 1>>, ~restart, FALSE)>>)
    /\ told' = IF restart /\ ~direct THEN <<pieces + 1>> ELSE Append(told, pieces + 1)
    /\ UNCHANGED <<way, peer, task, answer, cut, asm, result>>

\* The last chunk of an artifact, which may be empty, and may be appended to
\* the text streamed before it.
ForeignFinishes(restart, empty) ==
    /\ peer = "foreign" /\ way.streamed /\ pieces < MaxPieces
    /\ pieces' = pieces + 1
    /\ answer' = IF empty THEN SettledAs(<<>>, <<>>, FALSE)
                 ELSE SettledAs(IF restart THEN <<pieces + 1>> ELSE Append(told, pieces + 1), <<>>, ~restart)
    /\ Send(<<Artifact(IF empty THEN <<>> ELSE <<pieces + 1>>, ~restart, TRUE)>>)
    /\ UNCHANGED <<way, peer, task, told, cut, asm, result>>

\* A task with a text and a status message, with the message only, or with none.
ForeignSettles(state, empty, note) ==
    /\ peer = "foreign" /\ pieces < MaxPieces /\ (empty \/ note = Note)
    /\ pieces' = pieces + 1
    /\ task' = state
    /\ LET text == IF empty THEN <<>> ELSE <<pieces + 1>>
       IN  /\ answer' = IF state \in Settled \/ ~way.streamed THEN SettledAs(text, note, FALSE) ELSE answer
           /\ Send(<<Snapshot(state, text, note)>>)
    /\ peer' = IF way.streamed /\ state \notin Failures THEN "foreign" ELSE "done"
    /\ UNCHANGED <<way, told, cut, asm, result>>

ForeignAnswers(void) ==
    /\ peer = "foreign" /\ ~way.streamed /\ pieces < MaxPieces
    /\ pieces' = pieces + 1
    /\ answer' = SettledAs(IF void THEN <<>> ELSE <<pieces + 1>>, <<>>, FALSE)
    /\ Send(IF void THEN <<Void>> ELSE <<Direct(<<pieces + 1>>)>>)
    /\ peer' = "done"
    /\ UNCHANGED <<way, task, told, cut, asm, result>>

ForeignEnds ==
    /\ peer = "foreign" /\ way.streamed
    /\ Send(<<End>>)
    /\ peer' = "done"
    /\ UNCHANGED <<way, task, pieces, told, answer, cut, asm, result>>

-----------------------------------------------------------------------------
(* The connection.                                                         *)

\* It breaks, after what the client has yet to read or in front of it.  The
\* end of a stream that was cut is an error to its reader.
Breaks ==
    /\ peer # "off" /\ ~cut
    /\ cut' = TRUE
    /\ \E n \in 0..Len(wire) : wire' = SubSeq(wire, 1, n)
    /\ UNCHANGED <<way, peer, task, pieces, told, answer, asm, result>>

-----------------------------------------------------------------------------
(* The client reads.                                                       *)

Delta(a, text, append) ==
    [a EXCEPT !.full = IF append THEN @ \o text ELSE text, !.sawDelta = TRUE]

Final(a, text) == [a EXCEPT !.final = text, !.sawFinal = TRUE]

\* Mutant: deltas outrank the final text.
AssembledDeltasFirst(a) == IF a.sawDelta THEN a.full ELSE a.final

Result(a) ==
    IF a.sawFinal /\ a.final # <<>> THEN a.final ELSE IF a.sawDelta THEN a.full ELSE a.final

Returns(got, text) == result' = [got |-> got, text |-> text]

\* The text of a task: the HTTP client falls back to the status message's.
TaskText(binding, e) == IF e.text = <<>> /\ binding = "http" THEN e.note ELSE e.text

\* What ends a call with an error, and what another event adds to the answer.
Failed(e) == e.kind = "error" \/ (e.kind \in {"status", "task"} /\ e.state \in Failures)

Absorb(binding, a, e) ==
    IF e.kind = "artifact" THEN IF e.last THEN Final(a, e.text) ELSE Delta(a, e.text, e.append)
    ELSE IF e.kind = "message" THEN Delta(a, e.text, TRUE)
    ELSE IF e.kind = "task" /\ e.state \in Settled THEN Final(a, TaskText(binding, e))
    ELSE a

ReadEvent ==
    /\ way.streamed /\ result = Unknown /\ wire # <<>>
    /\ LET e == Head(wire)
       IN  IF Failed(e) THEN Returns("error", <<>>) /\ UNCHANGED asm
           ELSE IF e.kind = "end" THEN Returns("answer", Result(asm)) /\ UNCHANGED asm
           ELSE asm' = Absorb(way.binding, asm, e) /\ UNCHANGED result
    /\ wire' = Tail(wire)
    /\ UNCHANGED <<way, peer, task, pieces, told, answer, cut>>

\* The response to message/send; an empty one is an error over HTTP only.
ResponseText(binding, e) == IF e.kind = "task" THEN TaskText(binding, e) ELSE e.text

ReadResponse ==
    /\ ~way.streamed /\ result = Unknown /\ wire # <<>>
    /\ LET e == Head(wire)
       IN  IF Failed(e) \/ (e = Void /\ way.binding = "http") THEN Returns("error", <<>>)
           ELSE Returns("answer", ResponseText(way.binding, e))
    /\ wire' = Tail(wire)
    /\ UNCHANGED <<way, peer, task, pieces, told, answer, cut, asm>>

ConnectionLost ==
    /\ cut /\ wire = <<>> /\ result = Unknown
    /\ Returns("error", <<>>)
    /\ UNCHANGED <<way, peer, task, pieces, told, answer, wire, cut, asm>>

ExchangeNext ==
    \/ \E b \in {"http", "grpc"}, s, f \in BOOLEAN, content \in {"text", "inline", "data", "file"} :
           ClientSends(b, s, f, content)
    \/ Refuses \/ Begins \/ Makes \/ Cancels \/ HandlerFails \/ HandlerAnswers
    \/ \E restart, direct \in BOOLEAN : ForeignTells(restart, direct)
    \/ \E restart, empty \in BOOLEAN : ForeignFinishes(restart, empty)
    \/ \E state \in ForeignStates, empty \in BOOLEAN, note \in {<<>>, Note} :
           ForeignSettles(state, empty, note)
    \/ \E void \in BOOLEAN : ForeignAnswers(void)
    \/ ForeignEnds
    \/ Breaks \/ ReadEvent \/ ReadResponse \/ ConnectionLost

ExchangeSpec == ExchangeInit /\ [][ExchangeNext]_exchangeVars

-----------------------------------------------------------------------------
(* Properties.                                                             *)

\* The settled text as far as a client can tell: of a text whose last chunk was
\* appended it takes that chunk for the whole, and of a task without any text
\* only the HTTP client reads the status message.
Heard ==
    IF answer.appended THEN <<Last(answer.text)>>
    ELSE IF answer.text = <<>> /\ way.binding = "http" THEN answer.note ELSE answer.text

\* Sent or streamed, wherever the connection breaks and whenever the task is
\* canceled: a client that returns an answer returns it only of a task that did
\* not fail, and returns the whole of the last settled text, or what was
\* streamed when there is none or it is empty.  Of this repository's server that
\* holds over either binding; from a foreign one a client hears of the settled
\* text what Heard says.
AnswerCrosses ==
    result.got = "answer" =>
        /\ task \notin Failures /\ (way.foreign \/ way.content # "file")
        /\ ~way.foreign => Heard = answer.text
        /\ result.text = IF Heard # <<>> THEN Heard ELSE told
=============================================================================
