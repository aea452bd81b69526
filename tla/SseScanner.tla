----------------------------- MODULE SseScanner -----------------------------
(***************************************************************************)
(* The scanner of server-sent events under the providers' streams and the  *)
(* client of the network bus: byte by byte to lines, whatever ends them,   *)
(* and line by line to events, under a cap on the size of one.  A line is  *)
(* what its first byte says it is; fields other than data and event are    *)
(* left out, and so is the byte order mark.                                *)
(***************************************************************************)
EXTENDS Naturals, Sequences, SequencesExt, FiniteSets

CONSTANTS MaxInput,         \* bytes of a stream (a bound)
          MaxEvent          \* maxEventBytes

ASSUME ScannerAssumption == MaxInput \in Nat /\ MaxEvent \in Nat

Bytes == {"LF", "CR", "data", "event", "comment"}

VARIABLES input, pos,       \* the stream, and the bytes read of it
          line,             \* the line readLine is building
          data, evType,     \* the event Next is building
          delivered,        \* the events Next has returned
          scan              \* "new", "reading", "eof" or "error"

sseVars == <<input, pos, line, data, evType, delivered, scan>>

SseInit ==
    /\ input = <<>> /\ pos = 0 /\ line = <<>> /\ data = <<>> /\ evType = <<>>
    /\ delivered = <<>> /\ scan = "new"

Feed ==
    /\ scan = "new"
    /\ input' \in SeqOf(Bytes, MaxInput)
    /\ scan' = "reading"
    /\ UNCHANGED <<pos, line, data, evType, delivered>>

\* Without data an event is not dispatched, and its type is forgotten.
DispatchEvent(d, t) ==
    /\ delivered' = IF d = <<>> THEN delivered ELSE Append(delivered, [type |-> t, data |-> d])
    /\ data' = <<>> /\ evType' = <<>>

\* The data of an event with the field of one more line.
WithField(l) == IF l # <<>> /\ l[1] = "data" THEN Append(data, l) ELSE data
TypeAfter(l) == IF l # <<>> /\ l[1] = "event" THEN l ELSE evType

Size(d) == Len(FlattenSeq(d)) + Len(d)

\* Mutant: a carriage return ends a line by itself, always.
AfterReturnAlone(p) == p

\* A line feed that follows a carriage return belongs to it.
AfterReturn(p) == IF p < Len(input) /\ input[p + 1] = "LF" THEN p + 1 ELSE p

EndOfLine ==
    /\ line' = <<>>
    /\ IF line = <<>> THEN DispatchEvent(data, evType) /\ scan' = scan
       ELSE IF Size(WithField(line)) > MaxEvent
       THEN scan' = "error" /\ UNCHANGED <<data, evType, delivered>>
       ELSE data' = WithField(line) /\ evType' = TypeAfter(line) /\ UNCHANGED <<delivered, scan>>

ReadByte ==
    /\ scan = "reading" /\ pos < Len(input)
    /\ LET b == input[pos + 1]
       IN  \/ b = "LF" /\ pos' = pos + 1 /\ EndOfLine
           \/ b = "CR" /\ pos' = AfterReturn(pos + 1) /\ EndOfLine
           \/ /\ b \notin {"LF", "CR"}
              /\ pos' = pos + 1
              /\ IF Len(line) >= MaxEvent
                 THEN scan' = "error" /\ UNCHANGED line
                 ELSE line' = Append(line, b) /\ UNCHANGED scan
              /\ UNCHANGED <<data, evType, delivered>>
    /\ UNCHANGED input

\* At the end of the stream a line without an end counts, and so does an event
\* without its empty line.
AtEnd ==
    /\ scan = "reading" /\ pos = Len(input)
    /\ IF Size(WithField(line)) > MaxEvent
       THEN scan' = "error" /\ UNCHANGED <<data, evType, delivered>>
       ELSE scan' = "eof" /\ DispatchEvent(WithField(line), TypeAfter(line))
    /\ UNCHANGED <<input, pos, line>>

SseNext == Feed \/ ReadByte \/ AtEnd
SseSpec == SseInit /\ [][SseNext]_sseVars

-----------------------------------------------------------------------------
(* Properties.                                                             *)

\* The events of a stream, by definition: its lines end at a line feed or at a
\* carriage return that none follows; empty lines part the events; an event
\* has the data lines between two, and the type of the last one that gives it.
LineEnds(s) == {p \in DOMAIN s : s[p] = "LF" \/ (s[p] = "CR" /\ (p = Len(s) \/ s[p + 1] # "LF"))}
\* The line ahead of place p, its bytes from the last end on.
LineBefore(s, p) ==
    FlattenSeq([q \in 1..(p - 1) |->
        IF s[q] \notin {"LF", "CR"} /\ LineEnds(s) \cap (q..(p - 1)) = {} THEN <<s[q]>> ELSE <<>>])
Lines(s) ==
    FlattenSeq([p \in 1..(Len(s) + 1) |->
        IF p \in LineEnds(s) \cup {Len(s) + 1} THEN <<LineBefore(s, p)>> ELSE <<>>])
\* The lines of the name ahead of line k, from the last empty one on.
Fields(lines, k, name) ==
    FlattenSeq([j \in 1..(k - 1) |->
        IF lines[j] # <<>> /\ lines[j][1] = name /\ (\A m \in j..(k - 1) : lines[m] # <<>>)
        THEN <<lines[j]>> ELSE <<>>])
LastOf(fields) == IF fields = <<>> THEN <<>> ELSE Last(fields)
EventBefore(lines, k) ==
    [data |-> Fields(lines, k, "data"), type |-> LastOf(Fields(lines, k, "event"))]
EventsOf(lines) ==
    FlattenSeq([k \in 1..Len(lines) |->
        IF lines[k] = <<>> /\ Fields(lines, k, "data") # <<>> THEN <<EventBefore(lines, k)>> ELSE <<>>])
StreamEvents(s) == EventsOf(Append(Lines(s), <<>>))

\* What Next returns are the events of the stream, in order, from the first one
\* on; all of them when the scanner has come to the end of the stream.
ScannerTellsTheStream ==
    /\ IsPrefix(delivered, StreamEvents(input))
    /\ scan = "eof" => delivered = StreamEvents(input)
=============================================================================
