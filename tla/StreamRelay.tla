----------------------------- MODULE StreamRelay -----------------------------
(***************************************************************************)
(* The two ways in which internal/proxy/sse.go hands on the events that    *)
(* upstream streams: RelaySSE writes them to a client that streams, and    *)
(* BufferSSE collects them into one answer for a client that does not.     *)
(*                                                                         *)
(* A request takes one of the ways.  Here both read one stream in step, so *)
(* that an invariant can compare what the two clients are told.            *)
(*                                                                         *)
(* Text is a number of deltas, an item is known by its place in the stream *)
(* and a response is its output.  Lines without a meaning, events without  *)
(* data and the fields that setDefault fills in are left out.              *)
(***************************************************************************)
EXTENDS SequencesExt, Integers

CONSTANTS MaxEvents     \* bound: events in the stream

ASSUME MaxEventsAssumption == MaxEvents \in Nat

-----------------------------------------------------------------------------
(* What upstream sends.                                                    *)

Ends == {"completed", "incomplete", "failed"}

Absent == [kind |-> "absent", output |-> <<>>]
Null == [kind |-> "null", output |-> <<>>]
Scalar == [kind |-> "scalar", output |-> <<>>]
Object(output) == [kind |-> "object", output |-> output]

NoItem == [kind |-> "none", n |-> 0]

\* The item that upstream reports only with the response that ends a stream.
OwnItem == [kind |-> "own", n |-> 0]

Event(type, item, response) ==
    [type |-> type, item |-> item, response |-> response]

\* The events that may come at place n: "malformed" is no JSON, and "other"
\* stands for [DONE], for an item without a body and for all that both readers
\* make nothing of.  A failed response is not read for its output.
EventsAt(n) ==
    {Event(type, NoItem, Absent) :
        type \in {"malformed", "delta", "error", "other"}}
    \cup {Event("item", [kind |-> kind, n |-> n], Absent) :
            kind \in {"message", "tool"}}
    \cup {Event(type, NoItem, response) :
            type \in {"completed", "incomplete"},
            response \in {Absent, Null, Scalar, Object(<<>>), Object(<<OwnItem>>)}}
    \cup {Event("failed", NoItem, response) : response \in {Absent, Object(<<>>)}}

-----------------------------------------------------------------------------
(* streamState and what is made of it.                                     *)

NewState == [text |-> 0, output |-> <<>>, sawMessage |-> FALSE,
             terminal |-> Absent, terminalType |-> "none",
             streamError |-> FALSE]

Remember(s, e) ==
    CASE e.type = "delta" -> [s EXCEPT !.text = @ + 1]
      [] e.type = "item"  -> [s EXCEPT !.output = Append(@, e.item),
                                       !.sawMessage = @ \/ e.item.kind = "message"]
      [] e.type \in Ends  -> [s EXCEPT !.terminalType = e.type,
                                       !.terminal = IF e.response = Absent
                                                      THEN @ ELSE e.response]
      [] e.type = "error" -> [s EXCEPT !.streamError = TRUE]
      [] OTHER -> s

HasOutput(response) == response.output # <<>>

NeedsMessage(s) == s.text > 0 /\ ~s.sawMessage

\* Slip: the message made from the text is not noted.
WithMessageUnnoted(s) ==
    IF NeedsMessage(s)
      THEN [s EXCEPT !.output = Append(@, [kind |-> "synthetic", n |-> s.text])]
      ELSE s

\* The text becomes a message if upstream sent none.
WithMessage(s) ==
    IF NeedsMessage(s)
      THEN [s EXCEPT !.output = Append(@, [kind |-> "synthetic", n |-> s.text]),
                     !.sawMessage = TRUE]
      ELSE s

\* Slip: the text is left out when there are items.
PatchedFromItems(s, response) ==
    IF HasOutput(response) THEN response
    ELSE Object(IF s.output # <<>> THEN s.output ELSE WithMessage(s).output)

\* What patchTerminal makes of a response.
\* Unmarshal refuses a scalar; null becomes a nil map, and to set a default
\* in it is a panic.
Patched(s, response) ==
    IF HasOutput(response) THEN response ELSE Object(WithMessage(s).output)

\* The state after patching.
PatchedState(s, response) ==
    IF HasOutput(response) THEN s ELSE WithMessage(s)

\* Slip: the place of the message is counted before it is added.
IndexBefore(s, patched) == Len(s.output) - 1

\* The output_index of the message that patching added.
Index(s, patched) == Len(patched.output) - 1

\* What responseDetailsFrom can read of the response that was kept.
Details(s) == IF s.terminal.kind = "object" THEN s.terminal ELSE Absent

-----------------------------------------------------------------------------
VARIABLES
    upstream,   \* the body: open, closed by upstream, or broken
    pending,    \* the event whose lines have been read, not yet dispatched
    seen,       \* history: the events dispatched so far
    relay,      \* the streamState of RelaySSE
    outbox,     \* frames it still has to write for the last event
    relayEnd,   \* "running", "ok", "error" or "panic"
    received,   \* the frames its client has received
    gone,       \* its client has left
    buffer,     \* the streamState of BufferSSE
    bufferEnd,  \* "running", "response", "error" or "panic"
    answer      \* the response it returned

relayVars == <<relay, outbox, relayEnd, received>>
bufferVars == <<buffer, bufferEnd, answer>>
vars == <<upstream, pending, seen, relayVars, gone, bufferVars>>

NoEvent == Event("none", NoItem, Absent)

\* A frame for the client: an event passed on, a message that the relay makes
\* with its place in the output, a response that it patched, or its own error;
\* and how many events came before the one it is made for.
Frame(type, item, index, output) ==
    [type |-> type, item |-> item, index |-> index, output |-> output,
     after |-> Len(seen)]

Init ==
    /\ upstream = "open"
    /\ pending = NoEvent
    /\ seen = <<>>
    /\ relay = NewState
    /\ outbox = <<>>
    /\ relayEnd = "running"
    /\ received = <<>>
    /\ gone = FALSE
    /\ buffer = NewState
    /\ bufferEnd = "running"
    /\ answer = Absent

-----------------------------------------------------------------------------
(* The body, as iterateSSE scans it.                                       *)

\* The lines of an event have been read; it waits for its empty line.
ReadLines(e) ==
    /\ upstream = "open"
    /\ pending = NoEvent
    /\ relayEnd = "running" \/ bufferEnd = "running"
    /\ Len(seen) < MaxEvents
    /\ pending' = e
    /\ UNCHANGED <<upstream, seen, relayVars, gone, bufferVars>>

\* The body ends; what is pending is still dispatched.
EndOfBody ==
    /\ upstream = "open"
    /\ upstream' = "closed"
    /\ UNCHANGED <<pending, seen, relayVars, gone, bufferVars>>

\* Reading fails, or an event is too long: what is pending is forgotten.
ReadError ==
    /\ upstream = "open"
    /\ upstream' = "broken"
    /\ pending' = NoEvent
    /\ UNCHANGED <<seen, relayVars, gone, bufferVars>>

-----------------------------------------------------------------------------
(* RelaySSE.                                                               *)

\* Frames that reach a client that is still there.
Reaches(frames) == IF gone THEN received ELSE received \o frames

\* The relay stops; it tries to tell its client.
RelayStops ==
    /\ relayEnd' = "error"
    /\ outbox' = <<>>
    /\ received' = Reaches(<<Frame("streamEnded", NoItem, 0, <<>>)>>)

RelayPasses(e) ==
    /\ relayEnd = "running"
    /\ e.type \notin {"completed", "incomplete"}
    /\ relay' = Remember(relay, e)
    /\ outbox' = <<Frame(e.type, e.item, 0, <<>>)>>
    /\ UNCHANGED <<relayEnd, received>>

RelayPatches(e) ==
    LET s == Remember(relay, e)
        patched == PatchedState(s, e.response)
        output == Patched(s, e.response).output
    IN /\ relayEnd = "running"
       /\ e.type \in {"completed", "incomplete"}
       /\ e.response.kind \notin {"scalar", "null"}
       /\ relay' = patched
       /\ outbox' = (IF patched # s
                       THEN <<Frame("synthetic", Last(patched.output),
                                    Index(s, patched), <<>>)>>
                       ELSE <<>>) \o <<Frame(e.type, NoItem, 0, output)>>
       /\ UNCHANGED <<relayEnd, received>>

RelayRefuses(e) ==
    /\ relayEnd = "running"
    /\ e.type \in {"completed", "incomplete"}
    /\ e.response = Scalar
    /\ relay' = PatchedState(Remember(relay, e), e.response)
    /\ RelayStops

RelayPanics(e) ==
    /\ relayEnd = "running"
    /\ e.type \in {"completed", "incomplete"}
    /\ e.response = Null
    /\ relay' = PatchedState(Remember(relay, e), e.response)
    /\ relayEnd' = "panic"
    /\ UNCHANGED <<outbox, received>>

RelayIsOver == relayEnd # "running" /\ UNCHANGED relayVars

\* A frame is written; nobody may be there to receive it.
WriteFrame ==
    /\ outbox # <<>>
    /\ received' = Reaches(<<Head(outbox)>>)
    /\ outbox' = Tail(outbox)
    /\ UNCHANGED <<upstream, pending, seen, relay, relayEnd, gone, bufferVars>>

\* Writing to a client that left fails, sooner or later.
WriteFails ==
    /\ outbox # <<>>
    /\ gone
    /\ RelayStops
    /\ UNCHANGED <<upstream, pending, seen, relay, gone, bufferVars>>

ClientLeaves ==
    /\ ~gone
    /\ relayEnd = "running"
    /\ gone' = TRUE
    /\ UNCHANGED <<upstream, pending, seen, relayVars, bufferVars>>

\* Everything upstream sent has been dispatched and written.
Drained == upstream # "open" /\ pending = NoEvent /\ outbox = <<>>

\* Slip: a body that ends is taken for an answer that is complete.
RelayReturnsAnyway ==
    /\ Drained
    /\ relayEnd = "running"
    /\ upstream = "closed"
    /\ relayEnd' = "ok"
    /\ UNCHANGED <<upstream, pending, seen, relay, outbox, received, gone,
                   bufferVars>>

RelayReturns ==
    /\ Drained
    /\ relayEnd = "running"
    /\ upstream = "closed" /\ relay.terminalType # "none"
    /\ relayEnd' = "ok"
    /\ UNCHANGED <<upstream, pending, seen, relay, outbox, received, gone,
                   bufferVars>>

RelayCutShort ==
    /\ Drained
    /\ relayEnd = "running"
    /\ upstream = "broken" \/ relay.terminalType = "none"
    /\ RelayStops
    /\ UNCHANGED <<upstream, pending, seen, relay, gone, bufferVars>>

-----------------------------------------------------------------------------
(* BufferSSE.                                                              *)

BufferCollects(e) ==
    /\ bufferEnd = "running"
    /\ e.type # "malformed"
    /\ buffer' = Remember(buffer, e)
    /\ UNCHANGED <<bufferEnd, answer>>

BufferRefuses(e) ==
    /\ bufferEnd = "running"
    /\ e.type = "malformed"
    /\ bufferEnd' = "error"
    /\ UNCHANGED <<buffer, answer>>

BufferIsOver == bufferEnd # "running" /\ UNCHANGED bufferVars

\* Upstream announced no answer, or an error in its place.
Failed(s) ==
    \/ s.terminalType \in {"none", "failed"}
    \/ s.streamError

\* Slip: an answer cut short is never worth returning.
CutShort(s) == s.terminalType = "incomplete"

\* An answer cut short that has nothing in it.
Hollow(s) == s.terminalType = "incomplete" /\ s.output = <<>> /\ s.text = 0

Answers(s) ==
    /\ ~Failed(s)
    /\ \/ HasOutput(s.terminal)
       \/ /\ ~Hollow(s)
          /\ s.terminal.kind \notin {"scalar", "null"}
          /\ HasOutput(Patched(s, s.terminal))

Panics(s) == ~Failed(s) /\ ~Hollow(s) /\ s.terminal = Null

\* What BufferSSE returns once the body has ended.
Conclusion(s) ==
    CASE Answers(s) -> "response"
      [] Panics(s)  -> "panic"
      [] OTHER      -> "error"

BufferReturns ==
    /\ Drained
    /\ bufferEnd = "running"
    /\ bufferEnd' = IF upstream = "broken" THEN "error" ELSE Conclusion(buffer)
    /\ answer' = IF bufferEnd' = "response" THEN Patched(buffer, buffer.terminal)
                                            ELSE Absent
    /\ UNCHANGED <<upstream, pending, seen, relayVars, gone, buffer>>

-----------------------------------------------------------------------------
\* The empty line after an event, or the end of the body.
Dispatch ==
    /\ pending # NoEvent
    /\ outbox = <<>>
    /\ pending' = NoEvent
    /\ seen' = Append(seen, pending)
    /\ \/ RelayPasses(pending)
       \/ RelayPatches(pending)
       \/ RelayRefuses(pending)
       \/ RelayPanics(pending)
       \/ RelayIsOver
    /\ \/ BufferCollects(pending)
       \/ BufferRefuses(pending)
       \/ BufferIsOver
    /\ UNCHANGED <<upstream, gone>>

Next ==
    \/ \E e \in EventsAt(Len(seen) + 1) : ReadLines(e)
    \/ EndOfBody
    \/ ReadError
    \/ Dispatch
    \/ WriteFrame
    \/ WriteFails
    \/ ClientLeaves
    \/ RelayReturns
    \/ RelayCutShort
    \/ BufferReturns

Spec == Init /\ [][Next]_vars

-----------------------------------------------------------------------------
Items ==
    [kind : {"none", "own", "message", "tool", "synthetic"}, n : 0 .. MaxEvents]
Responses ==
    [kind : {"absent", "null", "scalar", "object"}, output : Seq(Items)]
EventTypes == {"malformed", "delta", "error", "other", "item"} \cup Ends
StreamStates ==
    [text : 0 .. MaxEvents, output : Seq(Items), sawMessage : BOOLEAN,
     terminal : Responses, terminalType : Ends \cup {"none"},
     streamError : BOOLEAN]
Frames ==
    [type : EventTypes \cup {"synthetic", "streamEnded"}, item : Items,
     index : 0 .. MaxEvents, output : Seq(Items), after : 0 .. MaxEvents]

TypeOK ==
    /\ upstream \in {"open", "closed", "broken"}
    /\ pending = NoEvent \/ pending \in EventsAt(Len(seen) + 1)
    /\ \A n \in DOMAIN seen : seen[n] \in EventsAt(n)
    /\ relay \in StreamStates /\ buffer \in StreamStates
    /\ outbox \in Seq(Frames) /\ received \in Seq(Frames)
    /\ relayEnd \in {"running", "ok", "error", "panic"}
    /\ gone \in BOOLEAN
    /\ bufferEnd \in {"running", "response", "error", "panic"}
    /\ answer \in Responses

\* A client that stayed is told how its stream ended, wherever upstream broke
\* off: by the event that ends an answer, or by an error as the last frame.
\* Only a panic leaves it with a connection that is cut.
ClientLearnsEnd ==
    ~gone =>
      /\ relayEnd = "ok" => \E i \in DOMAIN received : received[i].type \in Ends
      /\ relayEnd = "error" =>
           received # <<>> /\ Last(received).type = "streamEnded"

\* The deltas among the first n events.
Deltas(n) == Cardinality({i \in 1 .. n : seen[i].type = "delta"})

Made(f) == f.type = "synthetic"

\* f announces an item, and next, which ends the answer, has it in its place.
Announces(f, next) ==
    /\ next.type \in {"completed", "incomplete"}
    /\ next.output[f.index + 1] = f.item

\* Text is made into a message at most once in a stream, however often
\* upstream ends it; it holds all the text so far, the response that ends the
\* answer comes right after it, and holds it at the place it was announced.
MessageMadeOnce ==
    LET made == {i \in DOMAIN received : Made(received[i])} IN
    /\ \A i, j \in made : i = j
    /\ \A i \in made :
         /\ received[i].item.n = Deltas(received[i].after)
         /\ i = Len(received) => gone \/ outbox # <<>>
         /\ i < Len(received) => Announces(received[i], received[i + 1])

\* The items among the first n events.
Streamed(n) == {seen[i].item : i \in {j \in 1 .. n : seen[j].type = "item"}}

\* output has every item among the first n events, once and in their order,
\* and besides them nothing but a message made from text.
HasItems(output, n) ==
    LET kept == {k \in DOMAIN output : output[k].kind # "synthetic"} IN
    /\ {output[k] : k \in kept} = Streamed(n)
    /\ \A j, k \in kept : j < k => output[j].n < output[k].n

HasMessage(output) ==
    \E k \in DOMAIN output : output[k].kind \in {"message", "synthetic"}

\* When upstream ends an answer without saying what is in it, the client gets
\* a response with every item that was streamed, in order, and with a message
\* if there was text.
NothingStreamedIsLost ==
    \A i \in DOMAIN received :
      LET f == received[i] IN
      (f.type \in {"completed", "incomplete"}
         /\ ~HasOutput(seen[f.after + 1].response)) =>
        /\ HasItems(f.output, f.after)
        /\ Deltas(f.after) > 0 => HasMessage(f.output)

\* A stream as upstream should send it, as far as anything was sent: one event
\* ends the answer, after it comes nothing of it, and nothing is an error.
Orderly ==
    /\ upstream = "closed"
    /\ \E p \in DOMAIN seen :
         /\ seen[p].type \in Ends
         /\ \A n \in DOMAIN seen \ {p} :
              /\ seen[n].type \notin Ends \cup {"malformed", "error"}
              /\ n > p => seen[n].type = "other"

\* For an orderly stream both kinds of client get the same output, or both get
\* none, and the request is charged by the same response.
SameAnswer ==
    (Orderly /\ ~gone /\ relayEnd # "running" /\ bufferEnd # "running") =>
      LET told == {received[i].output : i \in DOMAIN received} \ {<<>>} IN
      /\ told = IF bufferEnd = "response" THEN {answer.output} ELSE {}
      /\ Details(relay) = Details(buffer)

=============================================================================
