------------------------- MODULE StreamRelayProofs --------------------------
(***************************************************************************)
(* Theorems about StreamRelay, for streams of any length.                  *)
(***************************************************************************)
EXTENDS StreamRelay, FiniteSetTheorems, TLAPS

AllEvents == [type : EventTypes \cup {"none"}, item : Items, response : Responses]

\* What n events have made of a stream's state.
Bounded(s, n) == s \in StreamStates /\ s.text <= n /\ Len(s.output) <= n

\* The types, with the lengths that bound the places of items.
Sized ==
    /\ TypeOK
    /\ seen \in Seq(AllEvents) /\ Len(seen) <= MaxEvents
    /\ pending # NoEvent => Len(seen) < MaxEvents
    /\ Bounded(relay, Len(seen)) /\ Bounded(buffer, Len(seen))

-----------------------------------------------------------------------------
\* The empty sequence and what one frame or one item makes longer.
LEMMA EmptyInSeq == ASSUME NEW S PROVE <<>> \in Seq(S) /\ Len(<<>>) = 0
  OBVIOUS

LEMMA OneInSeq ==
  ASSUME NEW S, NEW x \in S
  PROVE  <<x>> \in Seq(S) /\ Len(<<x>>) = 1 /\ <<x>>[1] = x
  OBVIOUS

LEMMA NoItemTyped == NoItem \in Items /\ OwnItem \in Items
  BY MaxEventsAssumption DEF NoItem, OwnItem, Items

LEMMA ResponsesTyped ==
  /\ Absent \in Responses /\ Null \in Responses /\ Scalar \in Responses
  /\ \A output \in Seq(Items) : Object(output) \in Responses
  BY EmptyInSeq DEF Absent, Null, Scalar, Object, Responses

LEMMA EventTyped ==
  ASSUME NEW n \in 1 .. MaxEvents, NEW e \in EventsAt(n)
  PROVE  /\ e \in AllEvents /\ e # NoEvent
         /\ e.type \in EventTypes
  <1> USE DEF AllEvents, EventTypes, Ends, NoEvent, Event
  <1>1. \A kind \in {"message", "tool"} : [kind |-> kind, n |-> n] \in Items
    BY MaxEventsAssumption DEF Items
  <1>2. Object(<<>>) \in Responses /\ Object(<<OwnItem>>) \in Responses
    <2>1. <<>> \in Seq(Items) /\ <<OwnItem>> \in Seq(Items)
      BY NoItemTyped, EmptyInSeq, OneInSeq
    <2> QED
      BY <2>1, ResponsesTyped
  <1>3. CASE e \in {Event(type, NoItem, Absent) :
                      type \in {"malformed", "delta", "error", "other"}}
    BY <1>3, NoItemTyped, ResponsesTyped
  <1>4. CASE e \in {Event("item", [kind |-> kind, n |-> n], Absent) :
                      kind \in {"message", "tool"}}
    BY <1>1, <1>4, ResponsesTyped
  <1>5. CASE e \in {Event(type, NoItem, response) :
                      type \in {"completed", "incomplete"},
                      response \in {Absent, Null, Scalar, Object(<<>>),
                                    Object(<<OwnItem>>)}}
    BY <1>2, <1>5, NoItemTyped, ResponsesTyped
  <1>6. CASE e \in {Event("failed", NoItem, response) :
                      response \in {Absent, Object(<<>>)}}
    BY <1>2, <1>6, NoItemTyped, ResponsesTyped
  <1> QED
    BY <1>3, <1>4, <1>5, <1>6 DEF EventsAt

-----------------------------------------------------------------------------
\* What an event adds to a stream's state: the event that ends an answer adds
\* neither text nor an item.
LEMMA RememberBounded ==
  ASSUME NEW n \in Nat, n < MaxEvents, NEW s, Bounded(s, n),
         NEW e \in AllEvents
  PROVE  /\ Bounded(Remember(s, e), n + 1)
         /\ e.type \in Ends =>
              /\ Bounded(Remember(s, e), n)
              /\ Remember(s, e).terminalType = e.type
         /\ e.type \notin Ends =>
              Remember(s, e).terminalType = s.terminalType
  <1> USE MaxEventsAssumption
  <1>0. s \in StreamStates /\ s.text \in 0 .. MaxEvents /\ s.text <= n
        /\ s.output \in Seq(Items) /\ Len(s.output) <= n
    BY DEF Bounded, StreamStates
  <1>1. CASE e.type = "delta"
    <2>1. Remember(s, e) = [s EXCEPT !.text = s.text + 1]
      BY <1>0, <1>1 DEF Remember, StreamStates, Ends
    <2>2. s.text + 1 \in 0 .. MaxEvents
      BY <1>0
    <2>3. [s EXCEPT !.text = s.text + 1] \in StreamStates
      BY <1>0, <2>2 DEF StreamStates
    <2> QED
      BY <1>0, <1>1, <2>1, <2>2, <2>3 DEF Bounded, StreamStates, Ends
  <1>2. CASE e.type = "item"
    <2> DEFINE output == Append(s.output, e.item)
               saw == s.sawMessage \/ e.item.kind = "message"
    <2>1. Remember(s, e) = [s EXCEPT !.output = output, !.sawMessage = saw]
      BY <1>0, <1>2 DEF Remember, StreamStates, Ends
    <2>2. output \in Seq(Items) /\ Len(output) <= n + 1
      BY <1>0 DEF AllEvents
    <2>3. saw \in BOOLEAN
      BY <1>0 DEF StreamStates
    <2> HIDE DEF output, saw
    <2>4. Remember(s, e) \in StreamStates
      BY <1>0, <2>1, <2>2, <2>3 DEF StreamStates
    <2>5. /\ Remember(s, e).text = s.text
          /\ Remember(s, e).output = output
          /\ Remember(s, e).terminalType = s.terminalType
      BY <1>0, <2>1 DEF StreamStates
    <2>6. e.type \notin Ends
      BY <1>2 DEF Ends
    <2> QED
      BY <1>0, <2>2, <2>4, <2>5, <2>6 DEF Bounded
  <1>3. CASE e.type \in Ends
    <2> DEFINE terminal == IF e.response = Absent THEN s.terminal ELSE e.response
    <2>1. Remember(s, e) = [s EXCEPT !.terminalType = e.type,
                                     !.terminal = terminal]
      BY <1>0, <1>3 DEF Remember, StreamStates, Ends
    <2>2. terminal \in Responses
      BY <1>0 DEF StreamStates, AllEvents
    <2> HIDE DEF terminal
    <2>3. Remember(s, e) \in StreamStates
      BY <1>0, <1>3, <2>1, <2>2 DEF StreamStates
    <2>4. /\ Remember(s, e).text = s.text
          /\ Remember(s, e).output = s.output
          /\ Remember(s, e).terminalType = e.type
      BY <1>0, <2>1 DEF StreamStates
    <2> QED
      BY <1>0, <1>3, <2>3, <2>4 DEF Bounded
  <1>4. CASE e.type = "error"
    <2>1. Remember(s, e) = [s EXCEPT !.streamError = TRUE]
      BY <1>0, <1>4 DEF Remember, StreamStates, Ends
    <2>2. Remember(s, e) \in StreamStates
      BY <1>0, <2>1 DEF StreamStates
    <2>3. /\ Remember(s, e).text = s.text
          /\ Remember(s, e).output = s.output
          /\ Remember(s, e).terminalType = s.terminalType
      BY <1>0, <2>1 DEF StreamStates
    <2>4. e.type \notin Ends
      BY <1>4 DEF Ends
    <2> QED
      BY <1>0, <2>2, <2>3, <2>4 DEF Bounded
  <1>5. CASE e.type \notin Ends \cup {"delta", "item", "error"}
    BY <1>0, <1>5 DEF Remember, Bounded, StreamStates
  <1> QED
    BY <1>1, <1>2, <1>3, <1>4, <1>5

\* A message that is made from text is one item more, the last.
LEMMA WithMessageBounded ==
  ASSUME NEW n \in 0 .. MaxEvents, NEW s, Bounded(s, n)
  PROVE  /\ WithMessage(s) \in StreamStates
         /\ Bounded(WithMessage(s), n + 1)
         /\ WithMessage(s).terminalType = s.terminalType
         /\ WithMessage(s) # s =>
              /\ Len(WithMessage(s).output) = Len(s.output) + 1
              /\ Last(WithMessage(s).output) \in Items
  <1> USE MaxEventsAssumption
  <1>0. s \in StreamStates /\ s.text \in 0 .. MaxEvents /\ s.text <= n
        /\ s.output \in Seq(Items) /\ Len(s.output) <= n
    BY DEF Bounded, StreamStates
  <1>1. CASE ~NeedsMessage(s)
    BY <1>0, <1>1 DEF WithMessage, Bounded
  <1>2. CASE NeedsMessage(s)
    <2> DEFINE message == [kind |-> "synthetic", n |-> s.text]
               output == Append(s.output, message)
    <2>1. WithMessage(s) = [s EXCEPT !.output = output, !.sawMessage = TRUE]
      BY <1>0, <1>2 DEF WithMessage, StreamStates
    <2>2. message \in Items
      BY <1>0 DEF Items
    <2> HIDE DEF message
    <2>3. output \in Seq(Items) /\ Len(output) = Len(s.output) + 1
          /\ output[Len(output)] = message
      BY <1>0, <2>2
    <2> HIDE DEF output
    <2>4. WithMessage(s) \in StreamStates
      BY <1>0, <2>1, <2>3 DEF StreamStates
    <2>5. /\ WithMessage(s).text = s.text
          /\ WithMessage(s).output = output
          /\ WithMessage(s).terminalType = s.terminalType
      BY <1>0, <2>1 DEF StreamStates
    <2> QED
      BY <1>0, <2>2, <2>3, <2>4, <2>5 DEF Bounded, Last
  <1> QED
    BY <1>1, <1>2

\* What patching makes of a state and of the response that ends an answer.
LEMMA PatchedBounded ==
  ASSUME NEW n \in Nat, n < MaxEvents, NEW s, Bounded(s, n),
         NEW response \in Responses
  PROVE  /\ Bounded(PatchedState(s, response), n + 1)
         /\ PatchedState(s, response).terminalType = s.terminalType
         /\ Patched(s, response) \in Responses
         /\ PatchedState(s, response) # s =>
              /\ Index(s, PatchedState(s, response)) \in 0 .. MaxEvents
              /\ Last(PatchedState(s, response).output) \in Items
  <1> USE MaxEventsAssumption
  <1>1. n \in 0 .. MaxEvents /\ s.output \in Seq(Items) /\ Len(s.output) <= n
        /\ Bounded(s, n + 1)
    BY DEF Bounded, StreamStates
  <1>2. CASE HasOutput(response)
    BY <1>1, <1>2 DEF PatchedState, Patched
  <1>3. CASE ~HasOutput(response)
    <2>1. PatchedState(s, response) = WithMessage(s)
          /\ Patched(s, response) = Object(WithMessage(s).output)
      BY <1>3 DEF PatchedState, Patched
    <2>2. WithMessage(s).output \in Seq(Items)
      BY <1>1, WithMessageBounded DEF StreamStates
    <2>3. Patched(s, response) \in Responses
      BY <2>1, <2>2, ResponsesTyped
    <2> QED
      BY <1>1, <2>1, <2>3, WithMessageBounded DEF Index
  <1> QED
    BY <1>2, <1>3

-----------------------------------------------------------------------------
\* Frames on their way to the client.
EndIn(frames) == \E i \in DOMAIN frames : frames[i].type \in Ends

\* A relay that is over has nothing left to write; one that runs has the event
\* that ended the answer among its frames, sent or unsent.
Told ==
    /\ relayEnd # "running" => outbox = <<>>
    /\ relayEnd = "running" /\ ~gone /\ relay.terminalType # "none" =>
         EndIn(outbox) \/ EndIn(received)
    /\ ClientLearnsEnd

Inv == Sized /\ Told

LEMMA FrameTyped ==
  ASSUME Sized, NEW type \in EventTypes \cup {"synthetic", "streamEnded"},
         NEW item \in Items, NEW index \in 0 .. MaxEvents,
         NEW output \in Seq(Items)
  PROVE  /\ Frame(type, item, index, output) \in Frames
         /\ Frame(type, item, index, output).type = type
  BY MaxEventsAssumption DEF Sized, Frame, Frames

LEMMA OneMore ==
  ASSUME NEW frames \in Seq(Frames), NEW f \in Frames
  PROVE  /\ frames \o <<f>> \in Seq(Frames)
         /\ frames \o <<f>> # <<>>
         /\ Last(frames \o <<f>>) = f
         /\ EndIn(frames \o <<f>>) <=> EndIn(frames) \/ f.type \in Ends
  <1>1. <<f>> \in Seq(Frames) /\ Len(<<f>>) = 1 /\ <<f>>[1] = f
    BY OneInSeq
  <1> DEFINE longer == frames \o <<f>>
  <1>2. /\ longer \in Seq(Frames) /\ Len(longer) = Len(frames) + 1
        /\ longer[Len(frames) + 1] = f
        /\ \A i \in 1 .. Len(frames) : longer[i] = frames[i]
    BY <1>1
  <1>3. DOMAIN longer = 1 .. (Len(frames) + 1) /\ DOMAIN frames = 1 .. Len(frames)
        /\ Len(frames) \in Nat
    BY <1>2
  <1> HIDE DEF longer
  <1>4. EndIn(longer) <=> EndIn(frames) \/ f.type \in Ends
    BY <1>2, <1>3 DEF EndIn
  <1>5. longer # <<>> /\ Last(longer) = f
    BY <1>2, <1>3 DEF Last
  <1> QED
    BY <1>2, <1>4, <1>5 DEF longer

\* Whatever the relay stops for, its client is told, if it is there.
LEMMA StopTells ==
  ASSUME Inv, RelayStops, gone' = gone
  PROVE  /\ outbox' \in Seq(Frames) /\ received' \in Seq(Frames)
         /\ relayEnd' = "error" /\ Told'
  <1> DEFINE f == Frame("streamEnded", NoItem, 0, <<>>)
  <1>1. f \in Frames /\ f.type = "streamEnded"
    <2>1. <<>> \in Seq(Items) /\ 0 \in 0 .. MaxEvents
      BY MaxEventsAssumption
    <2> QED
      BY <2>1, FrameTyped, NoItemTyped DEF Inv
  <1> HIDE DEF f
  <1>2. outbox' = <<>> /\ relayEnd' = "error"
        /\ received' = IF gone THEN received ELSE received \o <<f>>
    BY DEF RelayStops, Reaches, f
  <1>3. received \in Seq(Frames)
    BY DEF Inv, Sized, TypeOK
  <1> QED
    BY <1>1, <1>2, <1>3, OneMore, EmptyInSeq DEF Told, ClientLearnsEnd

-----------------------------------------------------------------------------
\* What a step leaves of RelaySSE when its events were n.
RelayFit(n) ==
    /\ outbox' \in Seq(Frames) /\ received' \in Seq(Frames)
    /\ relayEnd' \in {"running", "ok", "error", "panic"}
    /\ Bounded(relay', n)
    /\ Told'

\* An event is dispatched to RelaySSE.
LEMMA RelayHandles ==
  ASSUME Inv, NEW e \in AllEvents, e.type \in EventTypes,
         Len(seen) < MaxEvents, outbox = <<>>, gone' = gone,
         \/ RelayPasses(e) \/ RelayPatches(e) \/ RelayRefuses(e)
         \/ RelayPanics(e) \/ RelayIsOver
  PROVE  RelayFit(Len(seen) + 1)
  <1> DEFINE n == Len(seen)
             s == Remember(relay, e)
  <1>1. n \in Nat /\ n < MaxEvents /\ 0 \in 0 .. MaxEvents /\ Bounded(relay, n)
        /\ received \in Seq(Frames) /\ outbox \in Seq(Frames)
        /\ e.item \in Items /\ e.response \in Responses /\ <<>> \in Seq(Items)
    BY MaxEventsAssumption DEF Inv, Sized, TypeOK, AllEvents
  <1>2. /\ Bounded(s, n + 1)
        /\ e.type \in Ends => Bounded(s, n) /\ s.terminalType = e.type
        /\ e.type \notin Ends => s.terminalType = relay.terminalType
    BY <1>1, RememberBounded
  <1>3. e.type \in {"completed", "incomplete"} =>
          /\ Bounded(PatchedState(s, e.response), n + 1)
          /\ PatchedState(s, e.response).terminalType = e.type
          /\ Patched(s, e.response) \in Responses
          /\ PatchedState(s, e.response) # s =>
               /\ Index(s, PatchedState(s, e.response)) \in 0 .. MaxEvents
               /\ Last(PatchedState(s, e.response).output) \in Items
    <2>1. e.type \in {"completed", "incomplete"} => e.type \in Ends
      BY DEF Ends
    <2> QED
      BY <1>1, <1>2, <2>1, PatchedBounded
  <1>4. ASSUME NEW frame, e.type \in {"completed", "incomplete"},
               frame = Frame(e.type, NoItem, 0, Patched(s, e.response).output)
        PROVE  frame \in Frames /\ frame.type \in Ends
    <2>1. Patched(s, e.response).output \in Seq(Items)
      BY <1>3, <1>4 DEF Responses
    <2> QED
      BY <1>1, <1>4, <2>1, FrameTyped, NoItemTyped DEF Inv, Ends
  <1> HIDE DEF s
  <1>5. CASE RelayPasses(e)
    <2> DEFINE frame == Frame(e.type, e.item, 0, <<>>)
    <2>1. frame \in Frames /\ frame.type = e.type
      BY <1>1, FrameTyped DEF Inv
    <2>2. /\ relay' = s /\ outbox' = <<frame>>
          /\ relayEnd = "running" /\ relayEnd' = relayEnd /\ received' = received
      BY <1>5 DEF RelayPasses, s
    <2> HIDE DEF frame
    <2>3. outbox' \in Seq(Frames) /\ (e.type \in Ends => EndIn(outbox)')
      BY <2>1, <2>2, OneInSeq DEF EndIn
    <2>4. ~gone /\ s.terminalType # "none" => EndIn(outbox)' \/ EndIn(received)'
      BY <1>2, <2>2, <2>3 DEF Inv, Told, EndIn
    <2>5. Told'
      BY <2>2, <2>4 DEF Told, ClientLearnsEnd
    <2> QED
      BY <1>1, <1>2, <2>2, <2>3, <2>5 DEF RelayFit
  <1>6. CASE RelayPatches(e)
    <2> DEFINE patched == PatchedState(s, e.response)
               made == Frame("synthetic", Last(patched.output),
                             Index(s, patched), <<>>)
               ended == Frame(e.type, NoItem, 0, Patched(s, e.response).output)
               before == IF patched # s THEN <<made>> ELSE <<>>
    <2>1. e.type \in {"completed", "incomplete"} /\ relayEnd = "running"
          /\ relay' = patched /\ outbox' = before \o <<ended>>
          /\ relayEnd' = relayEnd /\ received' = received
      BY <1>6 DEF RelayPatches, s
    <2>2. ended \in Frames /\ ended.type \in Ends
      BY <1>4, <2>1
    <2>3. before \in Seq(Frames)
      <3>1. patched # s => made \in Frames
        BY <1>1, <1>3, <2>1, FrameTyped DEF Inv
      <3> HIDE DEF made
      <3> QED
        BY <3>1, OneInSeq, EmptyInSeq
    <2>4. Bounded(patched, n + 1)
      BY <1>3, <2>1
    <2> HIDE DEF patched, ended, before
    <2>5. outbox' \in Seq(Frames) /\ EndIn(outbox)'
      BY <2>1, <2>2, <2>3, OneMore DEF EndIn
    <2>6. Told'
      BY <2>1, <2>5 DEF Told, ClientLearnsEnd
    <2> QED
      BY <1>1, <2>1, <2>4, <2>5, <2>6 DEF RelayFit
  <1>7. CASE RelayRefuses(e)
    <2>1. Bounded(relay', n + 1)
      BY <1>3, <1>7 DEF RelayRefuses, s
    <2>2. RelayStops
      BY <1>7 DEF RelayRefuses
    <2> QED
      BY <2>1, <2>2, StopTells DEF RelayFit
  <1>8. CASE RelayPanics(e)
    <2>1. Bounded(relay', n + 1)
      BY <1>3, <1>8 DEF RelayPanics, s
    <2>2. relayEnd' = "panic" /\ outbox' = outbox /\ received' = received
      BY <1>8 DEF RelayPanics
    <2>3. Told'
      BY <2>2 DEF Told, ClientLearnsEnd
    <2> QED
      BY <1>1, <2>1, <2>2, <2>3 DEF RelayFit
  <1>9. CASE RelayIsOver
    <2>1. relayEnd # "running" /\ relayEnd' = relayEnd /\ relay' = relay
          /\ outbox' = outbox /\ received' = received
      BY <1>9 DEF RelayIsOver, relayVars
    <2>2. Told'
      BY <2>1 DEF Inv, Told, ClientLearnsEnd
    <2>3. Bounded(relay', n + 1)
      BY <1>1, <2>1 DEF Bounded, StreamStates
    <2> QED
      BY <1>1, <2>1, <2>2, <2>3 DEF RelayFit, Inv, Sized, TypeOK
  <1> QED
    BY <1>5, <1>6, <1>7, <1>8, <1>9

\* The same event is dispatched to BufferSSE.
LEMMA BufferHandles ==
  ASSUME Sized, NEW e \in AllEvents, Len(seen) < MaxEvents,
         BufferCollects(e) \/ BufferRefuses(e) \/ BufferIsOver
  PROVE  /\ Bounded(buffer', Len(seen) + 1)
         /\ bufferEnd' \in {"running", "response", "error", "panic"}
         /\ answer' \in Responses
  <1>1. Len(seen) \in Nat /\ Bounded(buffer, Len(seen))
    BY DEF Sized
  <1>2. Bounded(Remember(buffer, e), Len(seen) + 1)
    BY <1>1, RememberBounded
  <1>3. Bounded(buffer, Len(seen) + 1)
    BY <1>1 DEF Bounded, StreamStates
  <1> QED
    BY <1>2, <1>3
    DEF Sized, TypeOK, BufferCollects, BufferRefuses, BufferIsOver, bufferVars

LEMMA DispatchKeeps == ASSUME Inv, Dispatch PROVE Inv'
  <1> USE DEF Inv
  <1>1. /\ pending # NoEvent /\ outbox = <<>> /\ pending' = NoEvent
        /\ seen' = Append(seen, pending) /\ gone' = gone /\ upstream' = upstream
    BY DEF Dispatch
  <1>2. /\ pending \in EventsAt(Len(seen) + 1) /\ Len(seen) < MaxEvents
        /\ Len(seen) \in Nat
    BY <1>1 DEF Sized, TypeOK
  <1>3. pending \in AllEvents /\ pending.type \in EventTypes
    BY <1>2, EventTyped, MaxEventsAssumption
  <1>4. RelayFit(Len(seen) + 1)
    BY <1>1, <1>2, <1>3, RelayHandles DEF Dispatch
  <1>5. /\ Bounded(buffer', Len(seen) + 1)
        /\ bufferEnd' \in {"running", "response", "error", "panic"}
        /\ answer' \in Responses
    BY <1>2, <1>3, BufferHandles DEF Dispatch
  <1>6. /\ seen' \in Seq(AllEvents) /\ Len(seen') = Len(seen) + 1
        /\ Len(seen') <= MaxEvents
        /\ \A n \in DOMAIN seen' : seen'[n] \in EventsAt(n)
    <2>1. seen \in Seq(AllEvents) /\ \A n \in DOMAIN seen : seen[n] \in EventsAt(n)
      BY DEF Sized, TypeOK
    <2>2. /\ seen' \in Seq(AllEvents) /\ Len(seen') = Len(seen) + 1
          /\ seen'[Len(seen) + 1] = pending
          /\ \A n \in 1 .. Len(seen) : seen'[n] = seen[n]
      BY <1>1, <1>3, <2>1
    <2>3. DOMAIN seen' = 1 .. (Len(seen) + 1) /\ DOMAIN seen = 1 .. Len(seen)
      BY <2>1, <2>2
    <2> QED
      BY <1>2, <2>1, <2>2, <2>3, MaxEventsAssumption
  <1>7. TypeOK'
    <2>1. relay' \in StreamStates /\ buffer' \in StreamStates
      BY <1>4, <1>5 DEF RelayFit, Bounded
    <2> QED
      BY <1>1, <1>4, <1>5, <1>6, <2>1 DEF RelayFit, Sized, TypeOK
  <1>8. Sized'
    BY <1>1, <1>4, <1>5, <1>6, <1>7 DEF RelayFit, Sized
  <1> QED
    BY <1>4, <1>8 DEF RelayFit

-----------------------------------------------------------------------------
\* A step that leaves the events and both states of the stream alone.
LEMMA StatesKept ==
  ASSUME Inv, UNCHANGED <<seen, relay, buffer>>, TypeOK', Told',
         pending' = NoEvent \/ pending' = pending \/ Len(seen) < MaxEvents
  PROVE  Inv'
  BY DEF Inv, Sized

LEMMA WriteKeeps == ASSUME Inv, WriteFrame PROVE Inv'
  <1> USE DEF Inv
  <1>1. /\ outbox # <<>> /\ outbox \in Seq(Frames) /\ received \in Seq(Frames)
        /\ relayEnd = "running"
    BY DEF WriteFrame, Sized, TypeOK, Told
  <1> DEFINE frame == Head(outbox)
             rest == Tail(outbox)
  <1>2. /\ frame \in Frames /\ rest \in Seq(Frames)
        /\ EndIn(outbox) => frame.type \in Ends \/ EndIn(rest)
    <2>1. /\ frame = outbox[1] /\ frame \in Frames /\ rest \in Seq(Frames)
          /\ Len(rest) = Len(outbox) - 1
          /\ \A i \in 1 .. Len(rest) : rest[i] = outbox[i + 1]
      BY <1>1
    <2>2. DOMAIN outbox = 1 .. Len(outbox) /\ DOMAIN rest = 1 .. Len(rest)
          /\ Len(outbox) \in Nat
      BY <1>1, <2>1
    <2> HIDE DEF frame, rest
    <2>3. ASSUME NEW i \in DOMAIN outbox, outbox[i].type \in Ends
          PROVE  frame.type \in Ends \/ EndIn(rest)
      <3>1. CASE i = 1
        BY <2>1, <2>3, <3>1
      <3>2. CASE i # 1
        <4>1. i - 1 \in 1 .. Len(rest) /\ rest[i - 1] = outbox[i]
          BY <2>1, <2>2, <3>2
        <4> QED
          BY <2>2, <2>3, <4>1 DEF EndIn
      <3> QED
        BY <3>1, <3>2
    <2> QED
      BY <2>1, <2>3 DEF EndIn
  <1>3. /\ received' = IF gone THEN received ELSE received \o <<frame>>
        /\ outbox' = rest
        /\ UNCHANGED <<upstream, pending, seen, relay, relayEnd, gone, bufferVars>>
    BY DEF WriteFrame, Reaches
  <1> HIDE DEF frame, rest
  <1>4. received' \in Seq(Frames)
        /\ ~gone => (EndIn(received)' <=> EndIn(received) \/ frame.type \in Ends)
    <2>1. /\ received \o <<frame>> \in Seq(Frames)
          /\ EndIn(received \o <<frame>>)
               <=> EndIn(received) \/ frame.type \in Ends
      BY <1>1, <1>2, OneMore
    <2>2. CASE gone
      BY <1>1, <1>3, <2>2
    <2>3. CASE ~gone
      <3>1. received' = received \o <<frame>>
        BY <1>3, <2>3
      <3>2. EndIn(received') <=> EndIn(received) \/ frame.type \in Ends
        BY <2>1, <3>1
      <3> QED
        BY <2>1, <3>1, <3>2 DEF EndIn
    <2> QED
      BY <2>2, <2>3
  <1>5. Told'
    BY <1>1, <1>2, <1>3, <1>4 DEF Told, ClientLearnsEnd, EndIn
  <1>6. TypeOK'
    BY <1>2, <1>3, <1>4 DEF Sized, TypeOK, bufferVars
  <1> QED
    BY <1>3, <1>5, <1>6, StatesKept DEF bufferVars

\* The relay returns or gives up, with its client told.
LEMMA StopKeeps ==
  ASSUME Inv, RelayStops,
         UNCHANGED <<upstream, pending, seen, relay, gone, bufferVars>>
  PROVE  Inv'
  <1>1. /\ outbox' \in Seq(Frames) /\ received' \in Seq(Frames)
        /\ relayEnd' = "error" /\ Told'
    BY StopTells
  <1>2. TypeOK'
    BY <1>1 DEF Inv, Sized, TypeOK, bufferVars
  <1> QED
    BY <1>1, <1>2, StatesKept DEF bufferVars

LEMMA ReturnKeeps == ASSUME Inv, RelayReturns PROVE Inv'
  <1> USE DEF Inv
  <1>1. /\ outbox = <<>> /\ relayEnd = "running" /\ relay.terminalType # "none"
        /\ relayEnd' = "ok"
        /\ UNCHANGED <<upstream, pending, seen, relay, outbox, received, gone,
                       buffer, bufferEnd, answer>>
    BY DEF RelayReturns, Drained, bufferVars
  <1>2. ~gone => EndIn(received)
    BY <1>1 DEF Told, EndIn
  <1>3. Told'
    BY <1>1, <1>2 DEF Told, ClientLearnsEnd, EndIn
  <1>4. TypeOK'
    BY <1>1 DEF Sized, TypeOK
  <1> QED
    BY <1>1, <1>3, <1>4, StatesKept

LEMMA BufferReturnKeeps == ASSUME Inv, BufferReturns PROVE Inv'
  <1> USE DEF Inv
  <1>1. UNCHANGED <<upstream, pending, seen, relay, outbox, relayEnd, received,
                    gone, buffer>>
    BY DEF BufferReturns, relayVars
  <1>2. bufferEnd' \in {"response", "panic", "error"}
    BY DEF BufferReturns, Conclusion
  <1>3. answer' \in Responses
    <2>1. WithMessage(buffer).output \in Seq(Items)
      <3>1. Len(seen) \in 0 .. MaxEvents /\ Bounded(buffer, Len(seen))
        BY MaxEventsAssumption DEF Sized
      <3> QED
        BY <3>1, WithMessageBounded DEF StreamStates
    <2>2. Patched(buffer, buffer.terminal) \in Responses
      BY <2>1, ResponsesTyped DEF Patched, Sized, TypeOK, StreamStates
    <2> QED
      BY <2>2, ResponsesTyped DEF BufferReturns
  <1>4. TypeOK' /\ Told'
    BY <1>1, <1>2, <1>3 DEF Sized, TypeOK, Told, ClientLearnsEnd, EndIn
  <1> QED
    BY <1>1, <1>4, StatesKept

LEMMA InitInv == Init => Inv
  <1> SUFFICES ASSUME Init PROVE Inv
    OBVIOUS
  <1> USE MaxEventsAssumption DEF Init
  <1>1. <<>> \in Seq(Items) /\ <<>> \in Seq(Frames) /\ <<>> \in Seq(AllEvents)
        /\ Len(<<>>) = 0 /\ DOMAIN <<>> = {}
    OBVIOUS
  <1>2. NewState \in StreamStates /\ NewState.terminalType = "none"
        /\ Bounded(NewState, 0)
    BY <1>1, ResponsesTyped DEF NewState, StreamStates, Bounded
  <1>3. TypeOK
    BY <1>1, <1>2, ResponsesTyped DEF TypeOK
  <1>4. Sized
    BY <1>1, <1>2, <1>3 DEF Sized
  <1>5. Told
    BY <1>2 DEF Told, ClientLearnsEnd
  <1> QED
    BY <1>4, <1>5 DEF Inv

LEMMA NextInv == Inv /\ [Next]_vars => Inv'
  <1> SUFFICES ASSUME Inv, [Next]_vars PROVE Inv'
    OBVIOUS
  <1> USE DEF Inv, relayVars, bufferVars
  <1>1. ASSUME NEW e \in EventsAt(Len(seen) + 1), ReadLines(e) PROVE Inv'
    <2>1. TypeOK' /\ Told'
      BY <1>1 DEF ReadLines, Sized, TypeOK, Told, ClientLearnsEnd, EndIn
    <2> QED
      BY <1>1, <2>1, StatesKept DEF ReadLines
  <1>2. CASE EndOfBody
    <2>1. TypeOK' /\ Told'
      BY <1>2 DEF EndOfBody, Sized, TypeOK, Told, ClientLearnsEnd, EndIn
    <2> QED
      BY <1>2, <2>1, StatesKept DEF EndOfBody
  <1>3. CASE ReadError
    <2>1. TypeOK' /\ Told'
      BY <1>3 DEF ReadError, Sized, TypeOK, Told, ClientLearnsEnd, EndIn
    <2> QED
      BY <1>3, <2>1, StatesKept DEF ReadError
  <1>4. CASE ClientLeaves
    <2>1. TypeOK' /\ Told'
      BY <1>4 DEF ClientLeaves, Sized, TypeOK, Told, ClientLearnsEnd, EndIn
    <2> QED
      BY <1>4, <2>1, StatesKept DEF ClientLeaves
  <1>5. CASE WriteFails
    BY <1>5, StopKeeps DEF WriteFails
  <1>6. CASE RelayCutShort
    BY <1>6, StopKeeps DEF RelayCutShort
  <1>7. CASE UNCHANGED vars
    <2>1. TypeOK' /\ Told'
      BY <1>7 DEF vars, Sized, TypeOK, Told, ClientLearnsEnd, EndIn
    <2> QED
      BY <1>7, <2>1, StatesKept DEF vars
  <1> QED
    BY <1>1, <1>2, <1>3, <1>4, <1>5, <1>6, <1>7, DispatchKeeps, WriteKeeps,
       ReturnKeeps, BufferReturnKeeps DEF Next

-----------------------------------------------------------------------------
(* That text becomes a message once.                                       *)

Count(events, n) == Cardinality({i \in 1 .. n : events[i].type = "delta"})

LEMMA CountAppend ==
  ASSUME NEW events \in Seq(AllEvents), NEW e \in AllEvents
  PROVE  LET longer == Append(events, e)
             last == Len(events) + 1
         IN /\ \A n \in 0 .. Len(events) : Count(longer, n) = Count(events, n)
            /\ Count(events, Len(events)) \in Nat
            /\ Count(longer, last) = IF e.type = "delta"
                                       THEN Count(events, Len(events)) + 1
                                       ELSE Count(events, Len(events))
  <1> DEFINE longer == Append(events, e)
             last == Len(events) + 1
             D(s, n) == {i \in 1 .. n : s[i].type = "delta"}
  <1>1. /\ longer[last] = e /\ Len(events) \in Nat
        /\ \A i \in 1 .. Len(events) : longer[i] = events[i]
    OBVIOUS
  <1> HIDE DEF longer
  <1>2. ASSUME NEW n \in 0 .. Len(events) PROVE D(longer, n) = D(events, n)
    BY <1>1
  <1>3. D(longer, last) = IF e.type = "delta" THEN D(events, Len(events)) \cup {last}
                                              ELSE D(events, Len(events))
    BY <1>1
  <1>4. IsFiniteSet(D(events, Len(events)))
    <2>1. IsFiniteSet(1 .. Len(events))
      BY <1>1, FS_Interval
    <2>2. D(events, Len(events)) \subseteq 1 .. Len(events)
      OBVIOUS
    <2> QED
      BY <2>1, <2>2, FS_Subset
  <1>5. last \notin D(events, Len(events))
    BY <1>1
  <1> HIDE DEF D
  <1>6. Cardinality(D(events, Len(events))) \in Nat
    BY <1>4, FS_CardinalityType
  <1>7. Cardinality(D(longer, last)) = IF e.type = "delta"
                                       THEN Cardinality(D(events, Len(events))) + 1
                                       ELSE Cardinality(D(events, Len(events)))
    BY <1>3, <1>4, <1>5, FS_AddElement
  <1>8. \A s, n : Count(s, n) = Cardinality(D(s, n))
    BY DEF Count, D
  <1>9. /\ \A n \in 0 .. Len(events) : Count(longer, n) = Count(events, n)
        /\ Count(events, Len(events)) \in Nat
        /\ Count(longer, last) = IF e.type = "delta"
                                   THEN Count(events, Len(events)) + 1
                                   ELSE Count(events, Len(events))
    BY <1>2, <1>6, <1>7, <1>8
  <1> QED
    BY <1>9 DEF longer

LEMMA RememberCounts ==
  ASSUME NEW s \in StreamStates, NEW e \in AllEvents
  PROVE  /\ Remember(s, e).text = IF e.type = "delta" THEN s.text + 1 ELSE s.text
         /\ s.sawMessage => Remember(s, e).sawMessage
         /\ e.type \in Ends => (Remember(s, e).sawMessage <=> s.sawMessage)
  <1> USE DEF Remember, StreamStates, Ends
  <1>1. CASE e.type = "delta"
    <2>1. Remember(s, e) = [s EXCEPT !.text = s.text + 1]
      BY <1>1
    <2> HIDE DEF Remember
    <2> QED
      BY <1>1, <2>1
  <1>2. CASE e.type = "item"
    <2> DEFINE saw == s.sawMessage \/ e.item.kind = "message"
    <2>1. Remember(s, e) = [s EXCEPT !.output = Append(s.output, e.item),
                                     !.sawMessage = saw]
      BY <1>2
    <2> HIDE DEF Remember
    <2>2. Remember(s, e).text = s.text /\ (saw => Remember(s, e).sawMessage)
      BY <2>1
    <2> QED
      BY <1>2, <2>2
  <1>3. CASE e.type \in Ends
    <2> DEFINE terminal == IF e.response = Absent THEN s.terminal ELSE e.response
    <2>1. Remember(s, e) = [s EXCEPT !.terminalType = e.type,
                                     !.terminal = terminal]
      BY <1>3
    <2> HIDE DEF Remember, terminal
    <2>2. Remember(s, e).text = s.text
          /\ Remember(s, e).sawMessage = s.sawMessage
      BY <2>1
    <2> QED
      BY <1>3, <2>2
  <1>4. CASE e.type = "error"
    <2>1. Remember(s, e) = [s EXCEPT !.streamError = TRUE]
      BY <1>4
    <2> HIDE DEF Remember
    <2>2. Remember(s, e).text = s.text
          /\ Remember(s, e).sawMessage = s.sawMessage
      BY <2>1
    <2> QED
      BY <1>4, <2>2
  <1>5. CASE e.type \notin Ends \cup {"delta", "item", "error"}
    BY <1>5
  <1> QED
    BY <1>1, <1>2, <1>3, <1>4, <1>5

LEMMA PatchedMakes ==
  ASSUME NEW s \in StreamStates, NEW response \in Responses
  PROVE  LET patched == PatchedState(s, response) IN
         /\ patched.text = s.text
         /\ s.sawMessage => patched.sawMessage
         /\ patched # s =>
              /\ ~s.sawMessage
              /\ patched.sawMessage
              /\ Patched(s, response).output = patched.output
              /\ Last(patched.output).n = s.text
              /\ patched.output[Index(s, patched) + 1] = Last(patched.output)
  <1> DEFINE patched == PatchedState(s, response)
  <1>1. CASE HasOutput(response) \/ ~NeedsMessage(s)
    BY <1>1 DEF PatchedState, WithMessage
  <1>2. CASE ~HasOutput(response) /\ NeedsMessage(s)
    <2> DEFINE message == [kind |-> "synthetic", n |-> s.text]
               output == Append(s.output, message)
    <2>1. patched = [s EXCEPT !.output = output, !.sawMessage = TRUE]
          /\ Patched(s, response).output = WithMessage(s).output
          /\ WithMessage(s) = patched
      BY <1>2 DEF PatchedState, WithMessage, Patched, Object, StreamStates
    <2>2. /\ output \in Seq(Items \cup {message}) /\ Len(output) = Len(s.output) + 1
          /\ output[Len(output)] = message /\ Len(output) \in Nat
      BY DEF StreamStates
    <2>3. message.n = s.text /\ ~s.sawMessage
      BY <1>2 DEF NeedsMessage
    <2> HIDE DEF message
    <2> HIDE DEF output, patched
    <2>4. patched.output = output /\ patched.text = s.text /\ patched.sawMessage
      BY <2>1 DEF StreamStates
    <2>5. Last(output).n = s.text
      BY <2>2, <2>3 DEF Last
    <2>6. output[Index(s, patched) + 1] = Last(output)
      BY <2>2, <2>4 DEF Last, Index
    <2> QED
      BY <2>1, <2>3, <2>4, <2>5, <2>6 DEF patched
  <1> QED
    BY <1>1, <1>2

\* A message holds the text of the events before it.
Sound(f, events) == f.after <= Len(events) /\ f.item.n = Count(events, f.after)

\* A message that was sent is the only one, and the event that ends the answer
\* came next, or comes next if the client is still there.
Delivered ==
    \A i \in DOMAIN received : Made(received[i]) =>
       /\ Sound(received[i], seen)
       /\ i < Len(received) => Announces(received[i], received[i + 1])
       /\ i = Len(received) =>
            gone \/ (outbox # <<>> /\ Announces(received[i], outbox[1]))
       /\ \A j \in DOMAIN received : Made(received[j]) => i = j
       /\ \A j \in DOMAIN outbox : ~Made(outbox[j])
       /\ relayEnd = "running" => relay.sawMessage

\* A message that waits is the first to go, before that event.
Waiting ==
    \A i \in DOMAIN outbox : Made(outbox[i]) =>
       /\ Sound(outbox[i], seen) /\ i = 1
       /\ Len(outbox) > 1 /\ Announces(outbox[1], outbox[2])
       /\ relay.sawMessage

Counted == relayEnd = "running" => relay.text = Count(seen, Len(seen))

Once == Delivered /\ Waiting /\ Counted

LEMMA InitOnce == Init => Once
  <1> SUFFICES ASSUME Init PROVE Once
    OBVIOUS
  <1>1. seen = <<>> /\ received = <<>> /\ outbox = <<>> /\ relay.text = 0
    BY DEF Init, NewState
  <1>2. Count(seen, Len(seen)) = 0
    <2>1. {i \in 1 .. Len(seen) : seen[i].type = "delta"} = {}
      BY <1>1
    <2> QED
      BY <2>1, FS_EmptySet DEF Count
  <1> QED
    BY <1>1, <1>2 DEF Once, Delivered, Waiting, Counted

\* A step that reads and writes nothing keeps this.
LEMMA OnceKept ==
  ASSUME Inv, Once, UNCHANGED <<seen, relay, outbox, received>>,
         relayEnd' = relayEnd \/ relayEnd' # "running", gone => gone'
  PROVE  Once'
  BY DEF Once, Delivered, Waiting, Counted

\* What is known of a message stays true when an event is dispatched.
LEMMA SoundStays ==
  ASSUME Sized, NEW f \in Frames, Sound(f, seen),
         seen' = seen \/ \E e \in AllEvents : seen' = Append(seen, e)
  PROVE  Sound(f, seen')
  <1>1. CASE seen' = seen
    BY <1>1
  <1>2. CASE \E e \in AllEvents : seen' = Append(seen, e)
    <2>1. PICK e \in AllEvents : seen' = Append(seen, e)
      BY <1>2
    <2>2. f.after \in 0 .. Len(seen) /\ seen \in Seq(AllEvents)
          /\ Len(seen') = Len(seen) + 1 /\ Len(seen) \in Nat
      BY <2>1, MaxEventsAssumption DEF Sized, Sound, Frames
    <2>3. Count(seen', f.after) = Count(seen, f.after)
      BY <2>1, <2>2, CountAppend
    <2> QED
      BY <2>2, <2>3 DEF Sound
  <1> QED
    BY <1>1, <1>2

\* What is known of the frames that were sent, when nothing waits behind them.
LEMMA DeliveredStays ==
  ASSUME Inv, Once, outbox = <<>> \/ gone, NEW i \in DOMAIN received,
         seen' = seen \/ \E e \in AllEvents : seen' = Append(seen, e),
         Made(received[i])
  PROVE  /\ Sound(received[i], seen')
         /\ i < Len(received) => Announces(received[i], received[i + 1])
         /\ i = Len(received) => gone
         /\ \A j \in DOMAIN received : Made(received[j]) => i = j
         /\ relayEnd = "running" => relay.sawMessage
  <1>1. received[i] \in Frames
    BY DEF Inv, Sized, TypeOK
  <1> QED
    BY <1>1, SoundStays DEF Inv, Once, Delivered

\* The relay's own error is no message, and comes when nothing waits.
LEMMA OnceStopped ==
  ASSUME Inv, Once, RelayStops, outbox = <<>> \/ gone,
         gone' = gone, seen' = seen \/ \E e \in AllEvents : seen' = Append(seen, e)
  PROVE  Once'
  <1> DEFINE f == Frame("streamEnded", NoItem, 0, <<>>)
  <1>1. f \in Frames /\ ~Made(f)
    <2>1. <<>> \in Seq(Items) /\ 0 \in 0 .. MaxEvents
      BY MaxEventsAssumption
    <2>2. f \in Frames /\ f.type = "streamEnded"
      BY <2>1, FrameTyped, NoItemTyped DEF Inv
    <2> QED
      BY <2>2 DEF Made
  <1> HIDE DEF f
  <1>2. outbox' = <<>> /\ relayEnd' = "error" /\ received \in Seq(Frames)
        /\ received' = IF gone THEN received ELSE received \o <<f>>
    BY DEF RelayStops, Reaches, f, Inv, Sized, TypeOK
  <1>3. Waiting' /\ Counted'
    BY <1>2 DEF Waiting, Counted
  <1>4. DOMAIN outbox' = {}
    BY <1>2
  <1>5. CASE gone
    <2>1. received' = received /\ gone'
      BY <1>2, <1>5
    <2>2. ASSUME NEW i \in DOMAIN received, Made(received[i])
          PROVE  /\ Sound(received[i], seen')
                 /\ i < Len(received) => Announces(received[i], received[i + 1])
                 /\ \A j \in DOMAIN received : Made(received[j]) => i = j
      BY <1>5, <2>2, DeliveredStays
    <2> QED
      BY <1>2, <1>3, <1>4, <2>1, <2>2 DEF Once, Delivered
  <1>6. CASE ~gone
    <2> DEFINE longer == received \o <<f>>
    <2>1. /\ Len(received) \in Nat /\ DOMAIN received = 1 .. Len(received)
          /\ DOMAIN longer = 1 .. (Len(received) + 1)
          /\ longer[Len(received) + 1] = f
          /\ \A i \in 1 .. Len(received) : longer[i] = received[i]
      BY <1>1, <1>2
    <2>2. received' = longer /\ Len(longer) = Len(received) + 1
      BY <1>1, <1>2, <1>6
    <2> HIDE DEF longer
    <2>3. ASSUME NEW i \in DOMAIN longer, Made(longer[i])
          PROVE  /\ Sound(longer[i], seen')
                 /\ i < Len(longer) /\ Announces(longer[i], longer[i + 1])
                 /\ \A j \in DOMAIN longer : Made(longer[j]) => i = j
      <3>1. i \in DOMAIN received /\ Made(received[i]) /\ longer[i] = received[i]
        BY <1>1, <2>1, <2>3
      <3>2. i < Len(received) /\ longer[i + 1] = received[i + 1]
        BY <1>6, <2>1, <3>1, DeliveredStays
      <3> QED
        BY <1>1, <1>6, <2>1, <2>2, <3>1, <3>2, DeliveredStays
    <2> QED
      BY <1>2, <1>3, <1>4, <2>1, <2>2, <2>3 DEF Once, Delivered
  <1> QED
    BY <1>5, <1>6

\* RelaySSE has handled an event without an error of its own.
LEMMA OnceHandled ==
  ASSUME Inv, Once, NEW e \in AllEvents, e.type \in EventTypes,
         Len(seen) < MaxEvents, outbox = <<>>, gone' = gone,
         seen' = Append(seen, e),
         RelayPasses(e) \/ RelayPatches(e) \/ RelayPanics(e) \/ RelayIsOver
  PROVE  Once'
  <1> DEFINE n == Len(seen)
             s == Remember(relay, e)
  <1>1. /\ n \in Nat /\ n < MaxEvents /\ 0 \in 0 .. MaxEvents /\ Bounded(relay, n)
        /\ seen \in Seq(AllEvents) /\ seen' \in Seq(AllEvents)
        /\ Len(seen') = n + 1
        /\ relay \in StreamStates /\ received \in Seq(Frames)
        /\ e.item \in Items /\ e.response \in Responses /\ <<>> \in Seq(Items)
    BY MaxEventsAssumption DEF Inv, Sized, TypeOK, AllEvents
  <1>2. /\ s \in StreamStates /\ Bounded(s, n + 1)
        /\ s.text = IF e.type = "delta" THEN relay.text + 1 ELSE relay.text
        /\ relay.sawMessage => s.sawMessage
        /\ e.type \in Ends => Bounded(s, n) /\ (s.sawMessage <=> relay.sawMessage)
    BY <1>1, RememberBounded, RememberCounts DEF Bounded
  <1> HIDE DEF s
  <1>3. relayEnd = "running" => s.text = Count(seen', n + 1)
    BY <1>1, <1>2, CountAppend DEF Once, Counted
  <1>4. received' = received
    BY DEF RelayPasses, RelayPatches, RelayPanics, RelayIsOver, relayVars
  <1>5. ASSUME NEW i \in DOMAIN received, Made(received[i])
        PROVE  /\ Sound(received[i], seen')
               /\ i < Len(received) => Announces(received[i], received[i + 1])
               /\ i = Len(received) => gone'
               /\ \A j \in DOMAIN received : Made(received[j]) => i = j
               /\ relayEnd = "running" => relay.sawMessage
    BY <1>5, DeliveredStays
  <1>6. CASE RelayPasses(e)
    <2> DEFINE frame == Frame(e.type, e.item, 0, <<>>)
    <2>1. frame \in Frames /\ frame.type = e.type
      BY <1>1, FrameTyped DEF Inv
    <2>2. /\ relay' = s /\ outbox' = <<frame>> /\ relayEnd = "running"
      BY <1>6 DEF RelayPasses, s
    <2> HIDE DEF frame
    <2>3. ~Made(frame)
      BY <2>1 DEF Made, EventTypes, Ends
    <2>4. DOMAIN outbox' = {1} /\ outbox'[1] = frame
      BY <2>2
    <2>5. Delivered'
      BY <1>2, <1>4, <1>5, <2>2, <2>3, <2>4 DEF Delivered
    <2>6. Waiting'
      BY <2>3, <2>4 DEF Waiting
    <2>7. Counted'
      BY <1>1, <1>3, <2>2 DEF Counted
    <2> QED
      BY <2>5, <2>6, <2>7 DEF Once
  <1>7. CASE RelayPatches(e)
    <2> DEFINE patched == PatchedState(s, e.response)
               output == Patched(s, e.response).output
               made == Frame("synthetic", Last(patched.output),
                             Index(s, patched), <<>>)
               ended == Frame(e.type, NoItem, 0, output)
    <2>1. /\ e.type \in {"completed", "incomplete"} /\ e.type \in Ends
          /\ relayEnd = "running" /\ relay' = patched
          /\ outbox' = (IF patched # s THEN <<made>> ELSE <<>>) \o <<ended>>
      BY <1>7 DEF RelayPatches, s, Ends
    <2>2. /\ patched.text = s.text
          /\ s.sawMessage => patched.sawMessage
          /\ Bounded(patched, n + 1) /\ Patched(s, e.response) \in Responses
          /\ patched # s =>
               /\ ~s.sawMessage /\ patched.sawMessage
               /\ output = patched.output
               /\ Last(patched.output).n = s.text
               /\ output[Index(s, patched) + 1] = Last(patched.output)
               /\ Index(s, patched) \in 0 .. MaxEvents
               /\ Last(patched.output) \in Items
      BY <1>1, <1>2, <2>1, PatchedBounded, PatchedMakes
    <2> HIDE DEF patched
    <2>3. output \in Seq(Items)
      BY <2>2 DEF Responses
    <2> HIDE DEF output
    <2>4. /\ ended \in Frames /\ ended.type = e.type /\ ended.output = output
          /\ ~Made(ended)
      <3>1. ended \in Frames /\ ended.type = e.type
        BY <1>1, <2>1, <2>3, FrameTyped, NoItemTyped DEF Inv, EventTypes
      <3> QED
        BY <2>1, <3>1 DEF Made, Frame
    <2>5. patched # s =>
            /\ made \in Frames
            /\ Announces(made, ended)
            /\ Sound(made, seen')
      <3>1. patched # s => made \in Frames
        BY <1>1, <2>2, FrameTyped DEF Inv
      <3>2. /\ made.index = Index(s, patched) /\ made.item = Last(patched.output)
            /\ made.after = n
        BY DEF Frame
      <3>3. patched # s => Announces(made, ended)
        BY <2>1, <2>2, <2>4, <3>2 DEF Announces
      <3>4. relay.text = Count(seen', n)
        BY <1>1, <2>1, CountAppend DEF Once, Counted
      <3>5. s.text = relay.text
        BY <1>2, <2>1 DEF Ends
      <3>6. patched # s => Sound(made, seen')
        BY <1>1, <2>2, <3>2, <3>4, <3>5 DEF Sound
      <3> QED
        BY <3>1, <3>3, <3>6
    <2> HIDE DEF made, ended
    <2>6. CASE patched = s
      <3>1. DOMAIN outbox' = {1} /\ outbox'[1] = ended
        BY <2>1, <2>6
      <3>2. Delivered'
        BY <1>2, <1>4, <1>5, <2>1, <2>2, <2>4, <3>1 DEF Delivered
      <3>3. Waiting'
        BY <2>4, <3>1 DEF Waiting
      <3>4. Counted'
        BY <1>1, <1>3, <2>1, <2>2 DEF Counted
      <3> QED
        BY <3>2, <3>3, <3>4 DEF Once
    <2>7. CASE patched # s
      <3>1. /\ DOMAIN outbox' = {1, 2} /\ Len(outbox') = 2
            /\ outbox'[1] = made /\ outbox'[2] = ended
        BY <2>1, <2>7
      <3>2. \A i \in DOMAIN received : ~Made(received[i])
        BY <1>2, <1>5, <2>1, <2>2, <2>7
      <3>3. Delivered'
        BY <1>4, <3>2 DEF Delivered
      <3>4. Waiting'
        <4>1. ASSUME NEW i \in DOMAIN outbox', Made(outbox'[i]) PROVE i = 1
          BY <2>4, <3>1, <4>1
        <4>2. Sound(made, seen') /\ Announces(made, ended) /\ relay'.sawMessage
          BY <2>1, <2>2, <2>5, <2>7
        <4> QED
          BY <3>1, <4>1, <4>2 DEF Waiting
      <3>5. Counted'
        BY <1>1, <1>3, <2>1, <2>2 DEF Counted
      <3> QED
        BY <3>3, <3>4, <3>5 DEF Once
    <2> QED
      BY <2>6, <2>7
  <1>8. CASE RelayPanics(e) \/ RelayIsOver
    <2>1. outbox' = <<>> /\ relayEnd' # "running" /\ DOMAIN outbox' = {}
      BY <1>8 DEF RelayPanics, RelayIsOver, relayVars
    <2>2. Delivered'
      BY <1>4, <1>5, <2>1 DEF Delivered
    <2>3. Waiting' /\ Counted'
      BY <2>1 DEF Waiting, Counted
    <2> QED
      BY <2>2, <2>3 DEF Once
  <1> QED
    BY <1>6, <1>7, <1>8

\* A frame moves from the relay to the client, or to nobody.
LEMMA OnceWritten == ASSUME Inv, Once, WriteFrame PROVE Once'
  <1> DEFINE frame == Head(outbox)
             rest == Tail(outbox)
  <1>1. /\ outbox # <<>> /\ outbox \in Seq(Frames) /\ received \in Seq(Frames)
        /\ outbox' = rest
        /\ received' = IF gone THEN received ELSE received \o <<frame>>
        /\ UNCHANGED <<seen, relay, relayEnd, gone>>
    BY DEF WriteFrame, Reaches, Inv, Sized, TypeOK
  <1>2. /\ frame = outbox[1] /\ frame \in Frames /\ rest \in Seq(Frames)
        /\ Len(outbox) \in Nat /\ Len(rest) = Len(outbox) - 1
        /\ DOMAIN outbox = 1 .. Len(outbox) /\ DOMAIN rest = 1 .. Len(rest)
        /\ 1 \in DOMAIN outbox
        /\ \A i \in 1 .. Len(rest) : rest[i] = outbox[i + 1]
    BY <1>1
  <1> HIDE DEF frame, rest
  <1>3. ASSUME NEW i \in DOMAIN rest PROVE ~Made(rest[i])
    <2>1. i + 1 \in DOMAIN outbox /\ i + 1 # 1 /\ rest[i] = outbox[i + 1]
      BY <1>2
    <2> QED
      BY <2>1 DEF Once, Waiting
  <1>4. Made(frame) =>
          /\ Sound(frame, seen) /\ rest # <<>> /\ Announces(frame, rest[1])
          /\ relay.sawMessage
    <2> SUFFICES ASSUME Made(frame)
                 PROVE  /\ Sound(frame, seen) /\ rest # <<>>
                        /\ Announces(frame, rest[1]) /\ relay.sawMessage
      OBVIOUS
    <2>1. /\ Sound(frame, seen) /\ Len(outbox) > 1 /\ relay.sawMessage
          /\ Announces(frame, outbox[2])
      BY <1>2 DEF Once, Waiting
    <2>2. rest[1] = outbox[2] /\ Len(rest) # 0
      BY <1>2, <2>1
    <2> QED
      BY <1>2, <2>1, <2>2
  <1>5. Waiting' /\ Counted'
    BY <1>1, <1>3 DEF Once, Waiting, Counted
  <1>6. CASE gone
    <2>1. received' = received /\ gone'
      BY <1>1, <1>6
    <2>2. Delivered'
      BY <1>1, <1>3, <2>1 DEF Once, Delivered
    <2> QED
      BY <1>5, <2>2 DEF Once
  <1>7. CASE ~gone
    <2> DEFINE longer == received \o <<frame>>
    <2>1. /\ Len(received) \in Nat /\ DOMAIN received = 1 .. Len(received)
          /\ DOMAIN longer = 1 .. (Len(received) + 1)
          /\ longer[Len(received) + 1] = frame
          /\ \A i \in 1 .. Len(received) : longer[i] = received[i]
      BY <1>1, <1>2
    <2>2. received' = longer /\ Len(longer) = Len(received) + 1
      BY <1>1, <1>2, <1>7
    <2> HIDE DEF longer
    <2>3. ASSUME NEW i \in DOMAIN received, Made(received[i])
          PROVE  /\ Sound(received[i], seen)
                 /\ Announces(received[i], longer[i + 1])
                 /\ \A j \in DOMAIN received : Made(received[j]) => i = j
                 /\ ~Made(frame)
                 /\ relayEnd = "running" => relay.sawMessage
      <3>1. CASE i < Len(received)
        BY <1>2, <2>1, <2>3, <3>1 DEF Once, Delivered
      <3>2. CASE i = Len(received)
        BY <1>2, <1>7, <2>1, <2>3, <3>2 DEF Once, Delivered
      <3> QED
        BY <2>1, <3>1, <3>2
    <2>4. ASSUME NEW i \in DOMAIN longer, Made(longer[i])
          PROVE  /\ Sound(longer[i], seen)
                 /\ i < Len(longer) => Announces(longer[i], longer[i + 1])
                 /\ i = Len(longer) => rest # <<>> /\ Announces(longer[i], rest[1])
                 /\ \A j \in DOMAIN longer : Made(longer[j]) => i = j
                 /\ relayEnd = "running" => relay.sawMessage
      <3>1. CASE i \in DOMAIN received
        BY <2>1, <2>2, <2>3, <2>4, <3>1
      <3>2. CASE i = Len(received) + 1
        BY <1>4, <2>1, <2>2, <2>3, <2>4, <3>2
      <3> QED
        BY <2>1, <3>1, <3>2
    <2>5. Delivered'
      BY <1>1, <1>3, <2>2, <2>4 DEF Delivered
    <2> QED
      BY <1>5, <2>5 DEF Once
  <1> QED
    BY <1>6, <1>7

LEMMA NextOnce == Inv /\ Once /\ [Next]_vars => Once'
  <1> SUFFICES ASSUME Inv, Once, [Next]_vars PROVE Once'
    OBVIOUS
  <1> USE DEF relayVars, bufferVars
  <1>1. ASSUME NEW e \in EventsAt(Len(seen) + 1), ReadLines(e) PROVE Once'
    BY <1>1, OnceKept DEF ReadLines
  <1>2. CASE EndOfBody
    BY <1>2, OnceKept DEF EndOfBody
  <1>3. CASE ReadError
    BY <1>3, OnceKept DEF ReadError
  <1>4. CASE Dispatch
    <2>1. /\ pending # NoEvent /\ outbox = <<>> /\ gone' = gone
          /\ seen' = Append(seen, pending)
      BY <1>4 DEF Dispatch
    <2>2. pending \in AllEvents /\ pending.type \in EventTypes
          /\ Len(seen) < MaxEvents
      <3>1. Len(seen) + 1 \in 1 .. MaxEvents /\ pending \in EventsAt(Len(seen) + 1)
        BY <2>1, MaxEventsAssumption DEF Inv, Sized, TypeOK
      <3> QED
        BY <2>1, <3>1, EventTyped DEF Inv, Sized
    <2>3. CASE RelayRefuses(pending)
      BY <2>1, <2>2, <2>3, OnceStopped DEF RelayRefuses
    <2>4. CASE \/ RelayPasses(pending) \/ RelayPatches(pending)
               \/ RelayPanics(pending) \/ RelayIsOver
      BY <2>1, <2>2, <2>4, OnceHandled
    <2> QED
      BY <1>4, <2>3, <2>4 DEF Dispatch
  <1>5. CASE WriteFrame
    BY <1>5, OnceWritten
  <1>6. CASE WriteFails
    BY <1>6, OnceStopped DEF WriteFails
  <1>7. CASE ClientLeaves
    BY <1>7, OnceKept DEF ClientLeaves
  <1>8. CASE RelayReturns
    BY <1>8, OnceKept DEF RelayReturns
  <1>9. CASE RelayCutShort
    BY <1>9, OnceStopped DEF RelayCutShort, Drained
  <1>10. CASE BufferReturns
    BY <1>10, OnceKept DEF BufferReturns
  <1>11. CASE UNCHANGED vars
    BY <1>11, OnceKept DEF vars
  <1> QED
    BY <1>1, <1>2, <1>3, <1>4, <1>5, <1>6, <1>7, <1>8, <1>9, <1>10, <1>11
    DEF Next

-----------------------------------------------------------------------------
(* That both kinds of client get the same answer.                          *)

Breaking == Ends \cup {"malformed", "error"}

\* No event has ended the answer yet, and none was an error.
Calm(events) == \A n \in DOMAIN events : events[n].type \notin Breaking

\* The stream of an Orderly upstream, from the event that ends the answer on.
EndedAt(events, p) ==
    /\ events[p].type \in Ends
    /\ \A n \in DOMAIN events \ {p} :
         /\ events[n].type \notin Breaking
         /\ n > p => events[n].type = "other"

Ended(events) == \E p \in DOMAIN events : EndedAt(events, p)

\* Nothing more will be dispatched.
AllRead == upstream # "open" /\ pending = NoEvent

\* The outputs that the relay has handed over or is about to.
Outputs(frames) == {frames[i].output : i \in DOMAIN frames}
Handed == (Outputs(received) \cup Outputs(outbox)) \ {<<>>}

\* The outputs that BufferSSE returns at the end of the body.
Owed == IF Answers(buffer) THEN {Patched(buffer, buffer.terminal).output} ELSE {}

Fresh(s) == s.terminal = Absent /\ s.terminalType = "none" /\ ~s.streamError

\* While nothing has ended the answer the two readers are in one state and no
\* output was handed over.
InStepBefore ==
    /\ AllRead \/ (relayEnd = "running" /\ bufferEnd = "running")
    /\ relay = buffer /\ Fresh(relay)
    /\ Handed = {}

\* Afterwards the relay, which patched its state, has handed over what the
\* buffer will return.
InStepAfter ==
    /\ AllRead \/ bufferEnd = "running"
    /\ Details(relay) = Details(buffer)
    /\ Handed = Owed
    /\ bufferEnd # "running" /\ upstream = "closed" =>
         /\ bufferEnd = "response" <=> Answers(buffer)
         /\ bufferEnd = "response" => answer = Patched(buffer, buffer.terminal)

InStep ==
    ~gone =>
      /\ Calm(seen) => InStepBefore
      /\ Ended(seen) => InStepAfter

\* What an event adds to the stream.
LEMMA EventsLonger ==
  ASSUME NEW events \in Seq(AllEvents), NEW e \in AllEvents
  PROVE  LET longer == Append(events, e) IN
         /\ Calm(longer) => Calm(events) /\ e.type \notin Breaking
         /\ Ended(longer) => \/ Calm(events) /\ e.type \in Ends
                             \/ Ended(events) /\ e.type = "other"
  <1> DEFINE longer == Append(events, e)
             last == Len(events) + 1
  <1>1. /\ Len(events) \in Nat /\ DOMAIN events = 1 .. Len(events)
        /\ DOMAIN longer = 1 .. last /\ longer[last] = e
        /\ \A n \in 1 .. Len(events) : longer[n] = events[n]
    OBVIOUS
  <1> HIDE DEF longer
  <1>2. Calm(longer) => Calm(events) /\ e.type \notin Breaking
    BY <1>1 DEF Calm
  <1>3. ASSUME NEW p \in DOMAIN longer, EndedAt(longer, p)
        PROVE  \/ Calm(events) /\ e.type \in Ends
               \/ Ended(events) /\ e.type = "other"
    <2>1. CASE p = last
      BY <1>1, <1>3, <2>1 DEF EndedAt, Calm
    <2>2. CASE p # last
      <3>1. p \in DOMAIN events /\ EndedAt(events, p)
        BY <1>1, <1>3, <2>2 DEF EndedAt
      <3>2. last \in DOMAIN longer \ {p} /\ last > p
        BY <1>1, <2>2
      <3> QED
        BY <1>1, <1>3, <3>1, <3>2 DEF EndedAt, Ended
    <2> QED
      BY <2>1, <2>2
  <1> QED
    BY <1>2, <1>3 DEF Ended, longer

\* What it adds to the state of a reader that nothing has ended yet.
LEMMA RememberFresh ==
  ASSUME NEW s \in StreamStates, NEW e \in AllEvents
  PROVE  /\ e.type \notin Breaking /\ Fresh(s) => Fresh(Remember(s, e))
         /\ e.type = "other" => Remember(s, e) = s
         /\ e.type \in Ends /\ Fresh(s) =>
              /\ Remember(s, e).terminalType = e.type
              /\ Remember(s, e).terminal = e.response
              /\ ~Remember(s, e).streamError
  <1> USE DEF Remember, StreamStates, Ends, Breaking, Fresh
  <1>1. CASE e.type = "delta"
    <2>1. Remember(s, e) = [s EXCEPT !.text = s.text + 1]
      BY <1>1
    <2> HIDE DEF Remember
    <2> QED
      BY <1>1, <2>1
  <1>2. CASE e.type = "item"
    <2> DEFINE saw == s.sawMessage \/ e.item.kind = "message"
               output == Append(s.output, e.item)
    <2>1. Remember(s, e) = [s EXCEPT !.output = output, !.sawMessage = saw]
      BY <1>2
    <2> HIDE DEF Remember, saw, output
    <2> QED
      BY <1>2, <2>1
  <1>3. CASE e.type \in Ends
    <2> DEFINE terminal == IF e.response = Absent THEN s.terminal ELSE e.response
    <2>1. Remember(s, e) = [s EXCEPT !.terminalType = e.type,
                                     !.terminal = terminal]
      BY <1>3
    <2> HIDE DEF Remember, terminal
    <2>2. /\ Remember(s, e).terminalType = e.type
          /\ Remember(s, e).terminal = terminal
          /\ Remember(s, e).streamError = s.streamError
      BY <2>1
    <2>3. Fresh(s) => terminal = e.response
      BY DEF terminal
    <2> QED
      BY <1>3, <2>2, <2>3
  <1>4. CASE e.type \notin Ends \cup {"delta", "item"}
    BY <1>4
  <1> QED
    BY <1>1, <1>2, <1>3, <1>4

\* Patching changes nothing that is read of a response later.
LEMMA PatchedKeeps ==
  ASSUME NEW s \in StreamStates, NEW response
  PROVE  Details(PatchedState(s, response)) = Details(s)
  <1>1. CASE ~HasOutput(response) /\ NeedsMessage(s)
    <2> DEFINE output == Append(s.output, [kind |-> "synthetic", n |-> s.text])
    <2>1. PatchedState(s, response)
            = [s EXCEPT !.output = output, !.sawMessage = TRUE]
      BY <1>1 DEF PatchedState, WithMessage, StreamStates
    <2> HIDE DEF output
    <2> QED
      BY <2>1 DEF Details, StreamStates
  <1>2. CASE HasOutput(response) \/ ~NeedsMessage(s)
    BY <1>2 DEF PatchedState, WithMessage
  <1> QED
    BY <1>1, <1>2

\* BufferSSE answers with what patching makes of the response, if that has any
\* output.
LEMMA AnswersWithOutput ==
  ASSUME NEW s \in StreamStates
  PROVE  /\ Failed(s) => ~Answers(s)
         /\ s.terminal \in {Scalar, Null} => ~Answers(s)
         /\ ~Failed(s) /\ s.terminal.kind \notin {"scalar", "null"} =>
              (Answers(s) <=> Patched(s, s.terminal).output # <<>>)
  <1>1. s.terminal \in {Scalar, Null} =>
          ~HasOutput(s.terminal) /\ s.terminal.kind \in {"scalar", "null"}
    BY DEF Scalar, Null, HasOutput
  <1>2. HasOutput(s.terminal) => Patched(s, s.terminal).output # <<>>
    BY DEF Patched, HasOutput
  <1>3. Hollow(s) /\ ~HasOutput(s.terminal) => Patched(s, s.terminal).output = <<>>
    BY DEF Hollow, Patched, Object, WithMessage, NeedsMessage
  <1> QED
    BY <1>1, <1>2, <1>3 DEF Answers, HasOutput

LEMMA OutputsOf ==
  /\ Outputs(<<>>) = {}
  /\ \A f \in Frames : Outputs(<<f>>) = {f.output}
  /\ \A frames \in Seq(Frames), f \in Frames :
       Outputs(frames \o <<f>>) = Outputs(frames) \cup {f.output}
  /\ \A frames \in Seq(Frames) : frames # <<>> =>
       Outputs(frames) = {Head(frames).output} \cup Outputs(Tail(frames))
  <1>1. Outputs(<<>>) = {}
    BY DEF Outputs
  <1>2. ASSUME NEW f \in Frames PROVE Outputs(<<f>>) = {f.output}
    BY DEF Outputs
  <1>3. ASSUME NEW frames \in Seq(Frames), NEW f \in Frames
        PROVE  Outputs(frames \o <<f>>) = Outputs(frames) \cup {f.output}
    <2> DEFINE longer == frames \o <<f>>
    <2>1. /\ Len(frames) \in Nat /\ DOMAIN frames = 1 .. Len(frames)
          /\ DOMAIN longer = 1 .. (Len(frames) + 1)
          /\ longer[Len(frames) + 1] = f
          /\ \A i \in 1 .. Len(frames) : longer[i] = frames[i]
      OBVIOUS
    <2> HIDE DEF longer
    <2>2. DOMAIN longer = DOMAIN frames \cup {Len(frames) + 1}
      BY <2>1
    <2>3. Outputs(longer) = Outputs(frames) \cup {f.output}
      BY <2>1, <2>2 DEF Outputs
    <2> QED
      BY <2>3 DEF longer
  <1>4. ASSUME NEW frames \in Seq(Frames), frames # <<>>
        PROVE  Outputs(frames) = {Head(frames).output} \cup Outputs(Tail(frames))
    <2> DEFINE rest == Tail(frames)
    <2>1. /\ Len(frames) \in Nat /\ Len(frames) > 0
          /\ DOMAIN frames = 1 .. Len(frames)
          /\ Head(frames) = frames[1]
          /\ DOMAIN rest = 1 .. (Len(frames) - 1)
          /\ \A i \in 1 .. (Len(frames) - 1) : rest[i] = frames[i + 1]
      BY <1>4
    <2> HIDE DEF rest
    <2>2. \A i \in DOMAIN frames : i = 1 \/ (i - 1 \in DOMAIN rest
                                              /\ rest[i - 1] = frames[i])
      BY <2>1
    <2>3. \A i \in DOMAIN rest : i + 1 \in DOMAIN frames /\ rest[i] = frames[i + 1]
      BY <2>1
    <2>4. Outputs(frames) \subseteq {frames[1].output} \cup Outputs(rest)
      BY <2>2 DEF Outputs
    <2>5. {frames[1].output} \cup Outputs(rest) \subseteq Outputs(frames)
      BY <2>1, <2>3 DEF Outputs
    <2>6. Outputs(frames) = {Head(frames).output} \cup Outputs(rest)
      BY <2>1, <2>4, <2>5
    <2> QED
      BY <2>6 DEF rest
  <1> QED
    BY <1>1, <1>2, <1>3, <1>4

LEMMA InitInStep == Init => InStep
  <1> SUFFICES ASSUME Init PROVE InStep
    OBVIOUS
  <1>1. seen = <<>> /\ DOMAIN seen = {} /\ received = <<>> /\ outbox = <<>>
        /\ relay = buffer /\ relayEnd = "running" /\ bufferEnd = "running"
    BY DEF Init
  <1>2. Fresh(relay)
    BY DEF Init, NewState, Fresh
  <1>3. Handed = {}
    BY <1>1, OutputsOf DEF Handed
  <1>4. ~Ended(seen)
    BY <1>1 DEF Ended
  <1> QED
    BY <1>1, <1>2, <1>3, <1>4 DEF InStep, InStepBefore

\* A reader that returns or is stopped does so when all is read.
LEMMA InStepEnds ==
  ASSUME InStep, Drained, gone' = gone, Handed' = Handed,
         UNCHANGED <<upstream, pending, seen, relay, buffer>>,
         UNCHANGED <<bufferEnd, answer>> \/ BufferReturns
  PROVE  InStep'
  <1> SUFFICES ASSUME ~gone PROVE InStep'
    BY DEF InStep
  <1>1. AllRead /\ AllRead'
    BY DEF Drained, AllRead
  <1>2. Calm(seen) => InStepBefore'
    BY <1>1 DEF InStep, InStepBefore, Fresh
  <1>3. Owed' = Owed /\ Details(relay)' = Details(relay)
        /\ Details(buffer)' = Details(buffer)
    BY DEF Owed
  <1>4. CASE UNCHANGED <<bufferEnd, answer>>
    BY <1>1, <1>2, <1>3, <1>4 DEF InStep, InStepAfter
  <1>5. CASE BufferReturns
    <2>1. upstream = "closed" =>
            /\ bufferEnd' = "response" <=> Answers(buffer)
            /\ bufferEnd' = "response" => answer' = Patched(buffer, buffer.terminal)
      <3>1. Conclusion(buffer) = "response" <=> Answers(buffer)
        <4>1. CASE Answers(buffer)
          <5>1. ~Panics(buffer)
            BY <4>1 DEF Answers, Panics, HasOutput, Null
          <5> QED
            BY <4>1, <5>1 DEF Conclusion
        <4>2. CASE ~Answers(buffer)
          <5>1. Conclusion(buffer) \in {"panic", "error"}
            BY <4>2 DEF Conclusion
          <5> QED
            BY <4>2, <5>1
        <4> QED
          BY <4>1, <4>2
      <3> QED
        BY <1>5, <3>1 DEF BufferReturns
    <2> QED
      BY <1>1, <1>2, <1>3, <2>1 DEF InStep, InStepAfter
  <1> QED
    BY <1>4, <1>5

LEMMA HandedWritten ==
  ASSUME Inv, WriteFrame, ~gone PROVE Handed' = Handed
  <1>1. /\ outbox # <<>> /\ outbox \in Seq(Frames) /\ received \in Seq(Frames)
        /\ outbox' = Tail(outbox) /\ received' = received \o <<Head(outbox)>>
        /\ Head(outbox) \in Frames
    BY DEF WriteFrame, Reaches, Inv, Sized, TypeOK
  <1>2. /\ Outputs(received') = Outputs(received) \cup {Head(outbox).output}
        /\ Outputs(outbox) = {Head(outbox).output} \cup Outputs(outbox')
    BY <1>1, OutputsOf
  <1> QED
    BY <1>2 DEF Handed, Outputs

LEMMA HandedStopped ==
  ASSUME Inv, RelayStops, outbox = <<>>, gone' = gone PROVE Handed' = Handed
  <1> DEFINE f == Frame("streamEnded", NoItem, 0, <<>>)
  <1>1. f \in Frames /\ f.output = <<>>
    <2>1. <<>> \in Seq(Items) /\ 0 \in 0 .. MaxEvents
      BY MaxEventsAssumption
    <2>2. f \in Frames
      BY <2>1, FrameTyped, NoItemTyped DEF Inv
    <2> QED
      BY <2>2 DEF Frame
  <1> HIDE DEF f
  <1>2. outbox' = <<>> /\ received \in Seq(Frames)
        /\ received' = IF gone THEN received ELSE received \o <<f>>
    BY DEF RelayStops, Reaches, f, Inv, Sized, TypeOK
  <1>3. Outputs(received') \ {<<>>} = Outputs(received) \ {<<>>}
    BY <1>1, <1>2, OutputsOf
  <1> QED
    BY <1>2, <1>3 DEF Handed, Outputs

\* The event that ends the answer reaches both readers.
LEMMA InStepEnding ==
  ASSUME Inv, InStep, Dispatch, ~gone, Calm(seen), pending.type \in Ends
  PROVE  InStepAfter'
  <1> DEFINE e == pending
             s == Remember(relay, e)
  <1>1. /\ e # NoEvent /\ outbox = <<>> /\ gone' = gone
        /\ \/ RelayPasses(e) \/ RelayPatches(e) \/ RelayRefuses(e)
           \/ RelayPanics(e) \/ RelayIsOver
        /\ BufferCollects(e) \/ BufferRefuses(e) \/ BufferIsOver
    BY DEF Dispatch
  <1>2. /\ relayEnd = "running" /\ bufferEnd = "running"
        /\ relay = buffer /\ Fresh(relay) /\ Handed = {}
    BY <1>1 DEF InStep, InStepBefore, AllRead
  <1>3. /\ e \in AllEvents /\ e.type \in EventTypes /\ relay \in StreamStates
        /\ received \in Seq(Frames) /\ Len(seen) \in Nat /\ Len(seen) < MaxEvents
        /\ Bounded(relay, Len(seen)) /\ <<>> \in Seq(Items)
        /\ 0 \in 0 .. MaxEvents /\ e.item \in Items /\ e.response \in Responses
    <2>1. Len(seen) + 1 \in 1 .. MaxEvents /\ e \in EventsAt(Len(seen) + 1)
      BY <1>1, MaxEventsAssumption DEF Inv, Sized, TypeOK
    <2>2. e \in AllEvents /\ e.type \in EventTypes
      BY <2>1, EventTyped
    <2> QED
      BY <1>1, <2>2, MaxEventsAssumption DEF Inv, Sized, TypeOK, AllEvents
  <1>4. /\ s.terminalType = e.type /\ s.terminal = e.response /\ ~s.streamError
        /\ s \in StreamStates /\ Bounded(s, Len(seen))
    BY <1>2, <1>3, RememberFresh, RememberBounded DEF Bounded
  <1>5. buffer' = s /\ bufferEnd' = "running"
    <2>1. e.type # "malformed"
      BY DEF Ends
    <2> QED
      BY <1>1, <1>2, <2>1 DEF BufferCollects, BufferRefuses, BufferIsOver
  <1>6. Outputs(received) \ {<<>>} = {}
    BY <1>2 DEF Handed
  <1>7. SUFFICES Details(relay') = Details(s)
                 /\ Handed' = IF Answers(s) THEN {Patched(s, s.terminal).output}
                                            ELSE {}
    BY <1>5 DEF InStepAfter, Owed, Details
  <1> HIDE DEF s
  <1>8. CASE RelayPasses(e)
    <2> DEFINE frame == Frame(e.type, e.item, 0, <<>>)
    <2>1. frame \in Frames /\ frame.output = <<>>
      <3>1. frame \in Frames
        BY <1>3, FrameTyped DEF Inv
      <3> QED
        BY <3>1 DEF Frame
    <2>2. relay' = s /\ outbox' = <<frame>> /\ received' = received
          /\ e.type \notin {"completed", "incomplete"}
      BY <1>8 DEF RelayPasses, s
    <2> HIDE DEF frame
    <2>3. ~Answers(s)
      <3>1. s.terminalType = "failed"
        BY <1>4, <2>2 DEF Ends
      <3> QED
        BY <1>4, <3>1, AnswersWithOutput DEF Failed
    <2>4. Handed' = {}
      <3>1. Outputs(outbox') = {<<>>}
        BY <2>1, <2>2, OutputsOf
      <3> QED
        BY <1>6, <2>2, <3>1 DEF Handed, Outputs
    <2> QED
      BY <2>2, <2>3, <2>4
  <1>9. CASE RelayPatches(e)
    <2> DEFINE patched == PatchedState(s, e.response)
               output == Patched(s, e.response).output
               made == Frame("synthetic", Last(patched.output),
                             Index(s, patched), <<>>)
               ended == Frame(e.type, NoItem, 0, output)
    <2>1. /\ e.type \in {"completed", "incomplete"}
          /\ e.response.kind \notin {"scalar", "null"}
          /\ relay' = patched /\ received' = received
          /\ outbox' = (IF patched # s THEN <<made>> ELSE <<>>) \o <<ended>>
      BY <1>9 DEF RelayPatches, s
    <2>2. /\ patched # s => made \in Frames /\ made.output = <<>>
          /\ ended \in Frames /\ ended.output = output
      <3>1. /\ Patched(s, e.response) \in Responses
            /\ patched # s => /\ Index(s, patched) \in 0 .. MaxEvents
                              /\ Last(patched.output) \in Items
        BY <1>3, <1>4, PatchedBounded
      <3> HIDE DEF patched
      <3>2. output \in Seq(Items)
        BY <3>1 DEF Responses
      <3> HIDE DEF output
      <3>3. ended \in Frames /\ (patched # s => made \in Frames)
        BY <1>3, <3>1, <3>2, FrameTyped, NoItemTyped DEF Inv
      <3> QED
        BY <3>3 DEF Frame
    <2>3. Details(relay') = Details(s)
      BY <1>4, <2>1, PatchedKeeps
    <2>4. ~Failed(s) /\ (Answers(s) <=> output # <<>>)
      <3>1. ~Failed(s)
        BY <1>4, <2>1 DEF Failed
      <3> QED
        BY <1>4, <2>1, <3>1, AnswersWithOutput
    <2> HIDE DEF made, ended, patched, output
    <2>5. Outputs(outbox') \ {<<>>} = {output} \ {<<>>}
      <3>1. CASE patched = s
        <4>1. outbox' = <<ended>>
          BY <2>1, <2>2, <3>1
        <4> QED
          BY <2>2, <4>1, OutputsOf
      <3>2. CASE patched # s
        <4> DEFINE before == <<made>>
        <4>1. outbox' = before \o <<ended>>
          BY <2>1, <3>2
        <4>2. before \in Seq(Frames) /\ Outputs(before) = {<<>>}
          BY <2>2, <3>2, OneInSeq, OutputsOf
        <4> HIDE DEF before
        <4>3. Outputs(before \o <<ended>>) = Outputs(before) \cup {ended.output}
          BY <2>2, <4>2, OutputsOf
        <4> QED
          BY <2>2, <4>1, <4>2, <4>3
      <3> QED
        BY <3>1, <3>2
    <2>6. Handed' = {output} \ {<<>>}
      BY <1>6, <2>1, <2>5 DEF Handed, Outputs
    <2> QED
      BY <1>4, <2>3, <2>4, <2>6 DEF output
  <1>10. CASE RelayRefuses(e)
    <2>1. /\ RelayStops /\ e.response = Scalar
          /\ relay' = PatchedState(s, e.response)
      BY <1>10 DEF RelayRefuses, s
    <2> QED
      BY <1>1, <1>2, <1>4, <2>1, HandedStopped, PatchedKeeps, AnswersWithOutput
  <1>11. CASE RelayPanics(e)
    <2>1. /\ UNCHANGED <<outbox, received>> /\ e.response = Null
          /\ relay' = PatchedState(s, e.response)
      BY <1>11 DEF RelayPanics, s
    <2>2. Handed' = Handed
      BY <2>1 DEF Handed, Outputs
    <2> QED
      BY <1>2, <1>4, <2>1, <2>2, PatchedKeeps, AnswersWithOutput
  <1> QED
    BY <1>1, <1>2, <1>8, <1>9, <1>10, <1>11 DEF RelayIsOver

LEMMA InStepDispatched == ASSUME Inv, InStep, Dispatch PROVE InStep'
  <1> SUFFICES ASSUME ~gone PROVE InStep'
    BY DEF InStep, Dispatch
  <1> DEFINE e == pending
             frame == Frame(e.type, e.item, 0, <<>>)
  <1>1. /\ e # NoEvent /\ outbox = <<>> /\ gone' = gone /\ seen' = Append(seen, e)
        /\ \/ RelayPasses(e) \/ RelayPatches(e) \/ RelayRefuses(e)
           \/ RelayPanics(e) \/ RelayIsOver
        /\ BufferCollects(e) \/ BufferRefuses(e) \/ BufferIsOver
        /\ upstream' = upstream /\ ~AllRead
    BY DEF Dispatch, AllRead
  <1>2. /\ e \in AllEvents /\ e.type \in EventTypes /\ seen \in Seq(AllEvents)
        /\ relay \in StreamStates /\ buffer \in StreamStates
        /\ 0 \in 0 .. MaxEvents /\ e.item \in Items /\ <<>> \in Seq(Items)
    <2>1. Len(seen) + 1 \in 1 .. MaxEvents /\ e \in EventsAt(Len(seen) + 1)
      BY <1>1, MaxEventsAssumption DEF Inv, Sized, TypeOK
    <2>2. e \in AllEvents /\ e.type \in EventTypes
      BY <2>1, EventTyped
    <2> QED
      BY <2>2, MaxEventsAssumption DEF Inv, Sized, TypeOK, AllEvents
  <1>3. frame \in Frames /\ frame.output = <<>>
    <2>1. frame \in Frames
      BY <1>2, FrameTyped DEF Inv
    <2> QED
      BY <2>1 DEF Frame
  <1>4. /\ Calm(seen') => Calm(seen) /\ e.type \notin Breaking
        /\ Ended(seen') => \/ Calm(seen) /\ e.type \in Ends
                           \/ Ended(seen) /\ e.type = "other"
    BY <1>1, <1>2, EventsLonger
  <1>5. ASSUME RelayPasses(e) PROVE Handed' = Handed
    <2>1. outbox' = <<frame>> /\ received' = received
      BY <1>5 DEF RelayPasses
    <2> QED
      BY <1>1, <1>3, <2>1, OutputsOf DEF Handed, Outputs
  <1> HIDE DEF frame
  <1>6. ASSUME Calm(seen') PROVE InStepBefore'
    <2>1. /\ relayEnd = "running" /\ bufferEnd = "running"
          /\ relay = buffer /\ Fresh(relay) /\ Handed = {}
      BY <1>1, <1>4, <1>6 DEF InStep, InStepBefore
    <2>2. e.type \notin Ends \cup {"malformed"}
      BY <1>4, <1>6 DEF Breaking
    <2>3. RelayPasses(e) /\ BufferCollects(e)
      BY <1>1, <2>1, <2>2
      DEF Ends, RelayPatches, RelayRefuses, RelayPanics, RelayIsOver,
          BufferRefuses, BufferIsOver
    <2>4. relay' = Remember(relay, e) /\ buffer' = Remember(buffer, e)
          /\ relayEnd' = "running" /\ bufferEnd' = "running"
      BY <2>1, <2>3 DEF RelayPasses, BufferCollects
    <2>5. Fresh(Remember(relay, e))
      BY <1>2, <1>4, <1>6, <2>1, RememberFresh
    <2> QED
      BY <1>5, <2>1, <2>3, <2>4, <2>5 DEF InStepBefore, Fresh
  <1>7. ASSUME Ended(seen), e.type = "other" PROVE InStepAfter'
    <2>1. bufferEnd = "running" /\ Details(relay) = Details(buffer)
          /\ Handed = Owed
      BY <1>1, <1>7 DEF InStep, InStepAfter
    <2>2. buffer' = buffer /\ bufferEnd' = "running"
      BY <1>1, <1>2, <1>7, <2>1, RememberFresh
      DEF BufferCollects, BufferRefuses, BufferIsOver
    <2>3. relay' = relay /\ Handed' = Handed
      <3>1. CASE RelayPasses(e)
        BY <1>2, <1>5, <1>7, <3>1, RememberFresh DEF RelayPasses
      <3>2. CASE RelayIsOver
        BY <3>2 DEF RelayIsOver, relayVars, Handed, Outputs
      <3> QED
        BY <1>1, <1>7, <3>1, <3>2 DEF RelayPatches, RelayRefuses, RelayPanics
    <2> QED
      BY <2>1, <2>2, <2>3 DEF InStepAfter, Owed, Details
  <1>8. Calm(seen) /\ e.type \in Ends => InStepAfter'
    BY InStepEnding
  <1> QED
    BY <1>4, <1>6, <1>7, <1>8 DEF InStep, Calm, Ended, EndedAt

LEMMA NextInStep == Inv /\ InStep /\ [Next]_vars => InStep'
  <1> SUFFICES ASSUME Inv, InStep, [Next]_vars PROVE InStep'
    OBVIOUS
  <1>1. ASSUME NEW e \in EventsAt(Len(seen) + 1), ReadLines(e) PROVE InStep'
    BY <1>1 DEF ReadLines, relayVars, bufferVars, InStep, InStepBefore,
                InStepAfter, AllRead, Fresh, Handed, Outputs, Owed, Details
  <1>2. CASE EndOfBody \/ ReadError
    BY <1>2 DEF EndOfBody, ReadError, relayVars, bufferVars, InStep,
                InStepBefore, InStepAfter, AllRead, Fresh, Handed, Outputs, Owed,
                Details
  <1>3. CASE Dispatch
    BY <1>3, InStepDispatched
  <1>4. CASE WriteFrame
    <2>1. ~gone => Handed' = Handed
      BY <1>4, HandedWritten
    <2> QED
      BY <1>4, <2>1 DEF WriteFrame, bufferVars, InStep, InStepBefore,
                        InStepAfter, AllRead, Fresh, Owed, Details
  <1>5. CASE WriteFails \/ ClientLeaves
    BY <1>5 DEF WriteFails, ClientLeaves, InStep
  <1>6. CASE RelayReturns
    <2>1. Handed' = Handed
      BY <1>6 DEF RelayReturns, Handed, Outputs
    <2> QED
      BY <1>6, <2>1, InStepEnds DEF RelayReturns, bufferVars
  <1>7. CASE RelayCutShort
    BY <1>7, HandedStopped, InStepEnds DEF RelayCutShort, Drained, bufferVars
  <1>8. CASE BufferReturns
    <2>1. Handed' = Handed
      BY <1>8 DEF BufferReturns, relayVars, Handed, Outputs
    <2> QED
      BY <1>8, <2>1, InStepEnds DEF BufferReturns, relayVars
  <1>9. CASE UNCHANGED vars
    BY <1>9 DEF vars, relayVars, bufferVars, InStep, InStepBefore, InStepAfter,
                AllRead, Fresh, Handed, Outputs, Owed, Details
  <1> QED
    BY <1>1, <1>2, <1>3, <1>4, <1>5, <1>6, <1>7, <1>8, <1>9 DEF Next

-----------------------------------------------------------------------------
(* That nothing which was streamed is lost.                                *)

ItemsOf(events, n) ==
    {events[i].item : i \in {j \in 1 .. n : events[j].type = "item"}}

Kept(output) == {k \in DOMAIN output : output[k].kind # "synthetic"}

\* output has the items of the first n events, as in HasItems.
Listed(events, output, n) ==
    /\ {output[k] : k \in Kept(output)} = ItemsOf(events, n)
    /\ \A j, k \in Kept(output) : j < k => output[j].n < output[k].n

\* The frame that ends an answer, if it was patched, has all that came before.
Complete(f, events) ==
    f.type \in {"completed", "incomplete"} =>
      /\ f.after < Len(events)
      /\ ~HasOutput(events[f.after + 1].response) =>
           /\ Listed(events, f.output, f.after)
           /\ Count(events, f.after) > 0 => HasMessage(f.output)

\* So has every frame that was made, and the relay's state has it while it
\* runs.
Whole ==
    /\ \A i \in DOMAIN received : Complete(received[i], seen)
    /\ \A i \in DOMAIN outbox : Complete(outbox[i], seen)
    /\ relayEnd = "running" =>
         /\ Listed(seen, relay.output, Len(seen))
         /\ relay.sawMessage => HasMessage(relay.output)

LEMMA ItemsLonger ==
  ASSUME NEW events \in Seq(AllEvents), NEW e \in AllEvents
  PROVE  LET longer == Append(events, e)
             last == Len(events) + 1
         IN /\ \A n \in 0 .. Len(events) : ItemsOf(longer, n) = ItemsOf(events, n)
            /\ ItemsOf(longer, last) = IF e.type = "item"
                                       THEN ItemsOf(events, Len(events)) \cup {e.item}
                                       ELSE ItemsOf(events, Len(events))
  <1> DEFINE longer == Append(events, e)
             last == Len(events) + 1
             At(s, n) == {j \in 1 .. n : s[j].type = "item"}
  <1>1. /\ longer[last] = e /\ Len(events) \in Nat
        /\ \A i \in 1 .. Len(events) : longer[i] = events[i]
    OBVIOUS
  <1> HIDE DEF longer
  <1>2. ASSUME NEW n \in 0 .. Len(events)
        PROVE  ItemsOf(longer, n) = ItemsOf(events, n)
    <2>1. At(longer, n) = At(events, n)
          /\ \A i \in At(events, n) : longer[i] = events[i]
      BY <1>1
    <2> QED
      BY <2>1 DEF ItemsOf
  <1>3. At(longer, last) = IF e.type = "item" THEN At(events, Len(events)) \cup {last}
                                              ELSE At(events, Len(events))
    BY <1>1
  <1>4. \A i \in At(events, Len(events)) : longer[i] = events[i]
    BY <1>1
  <1>5. \A s, n : ItemsOf(s, n) = {s[i].item : i \in At(s, n)}
    BY DEF ItemsOf
  <1> HIDE DEF At, last
  <1>6. ItemsOf(longer, last) = IF e.type = "item"
                                  THEN ItemsOf(events, Len(events)) \cup {e.item}
                                  ELSE ItemsOf(events, Len(events))
    BY <1>1, <1>3, <1>4, <1>5
  <1> QED
    BY <1>2, <1>6 DEF longer, last

\* One item more in an output.
LEMMA OneItemMore ==
  ASSUME NEW output \in Seq(Items), NEW item \in Items
  PROVE  LET longer == Append(output, item)
             last == Len(output) + 1
         IN /\ longer[last] = item
            /\ \A k \in DOMAIN output : longer[k] = output[k] /\ k < last
            /\ Kept(longer) = Kept(output) \cup (IF item.kind = "synthetic" THEN {}
                                                                            ELSE {last})
            /\ Kept(output) \subseteq DOMAIN output
            /\ HasMessage(longer) <=> \/ HasMessage(output)
                                      \/ item.kind \in {"message", "synthetic"}
  <1> DEFINE longer == Append(output, item)
             last == Len(output) + 1
  <1>1. /\ Len(output) \in Nat /\ DOMAIN output = 1 .. Len(output)
        /\ DOMAIN longer = 1 .. last /\ longer[last] = item
        /\ \A k \in 1 .. Len(output) : longer[k] = output[k]
    OBVIOUS
  <1> HIDE DEF longer
  <1>2. Kept(longer) = Kept(output) \cup (IF item.kind = "synthetic" THEN {}
                                                                     ELSE {last})
    BY <1>1 DEF Kept
  <1>3. HasMessage(longer) <=> \/ HasMessage(output)
                               \/ item.kind \in {"message", "synthetic"}
    BY <1>1 DEF HasMessage
  <1>4. Kept(output) \subseteq DOMAIN output
    BY DEF Kept
  <1> QED
    BY <1>1, <1>2, <1>3, <1>4 DEF longer

\* The item of a new event comes after all that are listed.
LEMMA ListedItem ==
  ASSUME Sized, NEW output \in Seq(Items), NEW e \in EventsAt(Len(seen) + 1),
         Len(seen) < MaxEvents, e.type = "item",
         Listed(seen, output, Len(seen))
  PROVE  Listed(Append(seen, e), Append(output, e.item), Len(seen) + 1)
  <1> DEFINE longer == Append(output, e.item)
             last == Len(output) + 1
             n == Len(seen)
  <1>1. e \in AllEvents /\ e.item \in Items /\ n \in Nat /\ seen \in Seq(AllEvents)
    <2>1. n \in Nat /\ n + 1 \in 1 .. MaxEvents
      BY MaxEventsAssumption DEF Sized
    <2> QED
      BY <2>1, EventTyped DEF AllEvents, Sized
  <1>2. ASSUME NEW m \in 1 .. MaxEvents, NEW f \in EventsAt(m), f.type = "item"
        PROVE  f.item.n = m /\ f.item.kind # "synthetic"
    BY <1>2 DEF EventsAt, Event, Ends
  <1>3. \A item \in ItemsOf(seen, n) : item.n < n + 1
    <2> SUFFICES ASSUME NEW i \in 1 .. n, seen[i].type = "item"
                 PROVE  seen[i].item.n < n + 1
      BY DEF ItemsOf
    <2>1. i \in 1 .. MaxEvents /\ seen[i] \in EventsAt(i)
      BY <1>1, MaxEventsAssumption DEF Sized, TypeOK
    <2> QED
      BY <1>1, <1>2, <2>1
  <1>4. e.item.n = n + 1 /\ e.item.kind # "synthetic"
    BY <1>1, <1>2, MaxEventsAssumption
  <1>5. /\ longer[last] = e.item
        /\ \A k \in DOMAIN output : longer[k] = output[k] /\ k < last
        /\ Kept(longer) = Kept(output) \cup {last}
        /\ Kept(output) \subseteq DOMAIN output
    BY <1>1, <1>4, OneItemMore
  <1>6. ItemsOf(Append(seen, e), n + 1) = ItemsOf(seen, n) \cup {e.item}
    BY <1>1, ItemsLonger
  <1>7. last \in Nat /\ DOMAIN output \subseteq Nat
    OBVIOUS
  <1> HIDE DEF longer, last
  <1>8. {longer[k] : k \in Kept(longer)} = {output[k] : k \in Kept(output)} \cup {e.item}
    BY <1>5
  <1>9. ASSUME NEW j \in Kept(longer), NEW k \in Kept(longer), j < k
        PROVE  longer[j].n < longer[k].n
    <2>1. j \in Kept(output)
      BY <1>5, <1>7, <1>9
    <2>2. CASE k \in Kept(output)
      BY <1>5, <1>9, <2>1, <2>2 DEF Listed
    <2>3. CASE k = last
      <3>1. output[j] \in ItemsOf(seen, n)
        BY <2>1 DEF Listed
      <3> QED
        BY <1>3, <1>4, <1>5, <2>1, <2>3, <3>1
    <2> QED
      BY <1>5, <2>2, <2>3
  <1> QED
    BY <1>6, <1>8, <1>9 DEF Listed, longer

\* A message made from text is none of the items.
LEMMA ListedMessage ==
  ASSUME NEW events, NEW n, NEW s \in StreamStates
  PROVE  /\ Listed(events, s.output, n) => Listed(events, WithMessage(s).output, n)
         /\ (s.sawMessage => HasMessage(s.output)) =>
              /\ WithMessage(s).sawMessage => HasMessage(WithMessage(s).output)
              /\ s.text > 0 => HasMessage(WithMessage(s).output)
  <1> DEFINE message == [kind |-> "synthetic", n |-> s.text]
             longer == Append(s.output, message)
  <1>1. s.output \in Seq(Items) /\ message \in Items /\ message.kind = "synthetic"
    BY DEF StreamStates, Items
  <1>2. CASE ~NeedsMessage(s)
    BY <1>2 DEF WithMessage, NeedsMessage
  <1>3. CASE NeedsMessage(s)
    <2>1. WithMessage(s) = [s EXCEPT !.output = longer, !.sawMessage = TRUE]
      BY <1>3 DEF WithMessage, StreamStates
    <2> HIDE DEF message
    <2>2. /\ \A k \in DOMAIN s.output : longer[k] = s.output[k]
          /\ Kept(longer) = Kept(s.output)
          /\ Kept(s.output) \subseteq DOMAIN s.output
          /\ HasMessage(longer)
      <3>1. /\ \A k \in DOMAIN s.output : longer[k] = s.output[k]
            /\ Kept(longer) = Kept(s.output) \cup
                 (IF message.kind = "synthetic" THEN {} ELSE {Len(s.output) + 1})
            /\ Kept(s.output) \subseteq DOMAIN s.output
            /\ HasMessage(longer) <=> \/ HasMessage(s.output)
                                      \/ message.kind \in {"message", "synthetic"}
        BY <1>1, OneItemMore
      <3> HIDE DEF longer
      <3> QED
        BY <1>1, <3>1
    <2> HIDE DEF longer
    <2>3. WithMessage(s).output = longer
      BY <2>1 DEF StreamStates
    <2>4. {longer[k] : k \in Kept(longer)} = {s.output[k] : k \in Kept(s.output)}
      BY <2>2
    <2>5. Listed(events, s.output, n) => Listed(events, longer, n)
      BY <2>2, <2>4 DEF Listed
    <2> QED
      BY <2>2, <2>3, <2>5
  <1> QED
    BY <1>2, <1>3

LEMMA RememberListed ==
  ASSUME Sized, NEW s \in StreamStates, NEW e \in EventsAt(Len(seen) + 1),
         Len(seen) < MaxEvents, Listed(seen, s.output, Len(seen)),
         s.sawMessage => HasMessage(s.output)
  PROVE  /\ Listed(Append(seen, e), Remember(s, e).output, Len(seen) + 1)
         /\ Remember(s, e).sawMessage => HasMessage(Remember(s, e).output)
  <1>1. e \in AllEvents /\ e.item \in Items /\ Len(seen) \in Nat
        /\ seen \in Seq(AllEvents) /\ s.output \in Seq(Items)
    <2>1. Len(seen) \in Nat /\ Len(seen) + 1 \in 1 .. MaxEvents
      BY MaxEventsAssumption DEF Sized
    <2> QED
      BY <2>1, EventTyped DEF AllEvents, Sized, StreamStates
  <1>2. CASE e.type = "item"
    <2> DEFINE output == Append(s.output, e.item)
               saw == s.sawMessage \/ e.item.kind = "message"
    <2>1. Remember(s, e) = [s EXCEPT !.output = output, !.sawMessage = saw]
      BY <1>2 DEF Remember, StreamStates, Ends
    <2>2. Listed(Append(seen, e), output, Len(seen) + 1)
      BY <1>1, <1>2, ListedItem
    <2>3. saw => HasMessage(output)
      <3>1. HasMessage(output) <=> \/ HasMessage(s.output)
                                  \/ e.item.kind \in {"message", "synthetic"}
        BY <1>1, OneItemMore
      <3> HIDE DEF output
      <3> QED
        BY <3>1
    <2> HIDE DEF saw, output
    <2>4. Remember(s, e).output = output /\ Remember(s, e).sawMessage = saw
      BY <2>1 DEF StreamStates
    <2> QED
      BY <2>2, <2>3, <2>4
  <1>3. CASE e.type # "item"
    <2>1. ItemsOf(Append(seen, e), Len(seen) + 1) = ItemsOf(seen, Len(seen))
      BY <1>1, <1>3, ItemsLonger
    <2>2. Remember(s, e).output = s.output /\ Remember(s, e).sawMessage = s.sawMessage
      BY <1>3 DEF Remember, StreamStates, Ends
    <2> QED
      BY <2>1, <2>2 DEF Listed
  <1> QED
    BY <1>2, <1>3

\* A frame stays complete when an event is dispatched.
LEMMA CompleteStays ==
  ASSUME Sized, NEW f \in Frames, Complete(f, seen), NEW e \in AllEvents
  PROVE  Complete(f, Append(seen, e))
  <1> SUFFICES ASSUME f.type \in {"completed", "incomplete"}
               PROVE  Complete(f, Append(seen, e))
    BY DEF Complete
  <1>1. /\ f.after \in Nat /\ f.after < Len(seen) /\ seen \in Seq(AllEvents)
        /\ f.after \in 0 .. Len(seen) /\ Len(Append(seen, e)) = Len(seen) + 1
        /\ Append(seen, e)[f.after + 1] = seen[f.after + 1]
    BY MaxEventsAssumption DEF Sized, Complete, Frames
  <1>2. /\ Count(Append(seen, e), f.after) = Count(seen, f.after)
        /\ ItemsOf(Append(seen, e), f.after) = ItemsOf(seen, f.after)
    BY <1>1, CountAppend, ItemsLonger
  <1> QED
    BY <1>1, <1>2 DEF Complete, Listed

LEMMA InitWhole == Init => Whole
  <1> SUFFICES ASSUME Init PROVE Whole
    OBVIOUS
  <1>1. /\ seen = <<>> /\ received = <<>> /\ outbox = <<>> /\ Len(seen) = 0
        /\ relay.output = <<>> /\ ~relay.sawMessage
    BY DEF Init, NewState
  <1>2. Kept(relay.output) = {} /\ ItemsOf(seen, Len(seen)) = {}
    BY <1>1 DEF Kept, ItemsOf
  <1> QED
    BY <1>1, <1>2 DEF Whole, Listed

\* A step that dispatches nothing, in which frames may be written or forgotten.
LEMMA WholeKept ==
  ASSUME Whole, UNCHANGED <<seen, relay>>,
         relayEnd' = relayEnd \/ relayEnd' # "running",
         \A i \in DOMAIN received' : Complete(received'[i], seen),
         \A i \in DOMAIN outbox' : Complete(outbox'[i], seen)
  PROVE  Whole'
  BY DEF Whole

LEMMA WholeStopped ==
  ASSUME Inv, RelayStops,
         \A i \in DOMAIN received : Complete(received[i], seen')
  PROVE  Whole'
  <1> DEFINE f == Frame("streamEnded", NoItem, 0, <<>>)
  <1>1. f \in Frames /\ f.type = "streamEnded"
    <2>1. <<>> \in Seq(Items) /\ 0 \in 0 .. MaxEvents
      BY MaxEventsAssumption
    <2> QED
      BY <2>1, FrameTyped, NoItemTyped DEF Inv
  <1> HIDE DEF f
  <1>2. outbox' = <<>> /\ relayEnd' = "error" /\ received \in Seq(Frames)
        /\ received' = IF gone THEN received ELSE received \o <<f>>
    BY DEF RelayStops, Reaches, f, Inv, Sized, TypeOK
  <1>3. Complete(f, seen')
    BY <1>1 DEF Complete
  <1>4. \A i \in DOMAIN received' : received'[i] = f
                                      \/ (i \in DOMAIN received
                                            /\ received'[i] = received[i])
    BY <1>1, <1>2
  <1>5. \A i \in DOMAIN received' : Complete(received'[i], seen')
    BY <1>3, <1>4
  <1> QED
    BY <1>2, <1>5 DEF Whole

LEMMA WholeWritten == ASSUME Inv, Whole, WriteFrame PROVE Whole'
  <1> DEFINE f == Head(outbox)
  <1>1. /\ outbox # <<>> /\ outbox \in Seq(Frames) /\ received \in Seq(Frames)
        /\ received' = IF gone THEN received ELSE received \o <<f>>
        /\ outbox' = Tail(outbox)
        /\ UNCHANGED <<seen, relay, relayEnd>>
    BY DEF WriteFrame, Reaches, Inv, Sized, TypeOK
  <1>2. f = outbox[1] /\ 1 \in DOMAIN outbox /\ f \in Frames
        /\ \A i \in DOMAIN outbox' : i + 1 \in DOMAIN outbox
                                       /\ outbox'[i] = outbox[i + 1]
    BY <1>1
  <1> HIDE DEF f
  <1>3. \A i \in DOMAIN received' : received'[i] = f
                                      \/ (i \in DOMAIN received
                                            /\ received'[i] = received[i])
    BY <1>1, <1>2
  <1>4. \A i \in DOMAIN received' : Complete(received'[i], seen)
    BY <1>2, <1>3 DEF Whole
  <1>5. \A i \in DOMAIN outbox' : Complete(outbox'[i], seen)
    BY <1>2 DEF Whole
  <1> QED
    BY <1>1, <1>4, <1>5, WholeKept

LEMMA WholeDispatched == ASSUME Inv, Once, Whole, Dispatch PROVE Whole'
  <1> DEFINE e == pending
             n == Len(seen)
             s == Remember(relay, e)
  <1>1. /\ e # NoEvent /\ outbox = <<>> /\ gone' = gone /\ seen' = Append(seen, e)
        /\ \/ RelayPasses(e) \/ RelayPatches(e) \/ RelayRefuses(e)
           \/ RelayPanics(e) \/ RelayIsOver
    BY DEF Dispatch
  <1>2. /\ e \in EventsAt(n + 1) /\ e \in AllEvents /\ e.type \in EventTypes
        /\ seen \in Seq(AllEvents) /\ n \in Nat /\ n < MaxEvents
        /\ Bounded(relay, n) /\ relay \in StreamStates
        /\ received \in Seq(Frames) /\ 0 \in 0 .. MaxEvents
        /\ e.item \in Items /\ e.response \in Responses /\ <<>> \in Seq(Items)
        /\ Sized /\ Len(seen') = n + 1 /\ seen'[n + 1] = e
    <2>1. n + 1 \in 1 .. MaxEvents /\ e \in EventsAt(n + 1)
      BY <1>1, MaxEventsAssumption DEF Inv, Sized, TypeOK
    <2>2. e \in AllEvents /\ e.type \in EventTypes
      BY <2>1, EventTyped
    <2> QED
      BY <1>1, <2>1, <2>2, MaxEventsAssumption DEF Inv, Sized, TypeOK, AllEvents
  <1>3. \A i \in DOMAIN received : Complete(received[i], seen')
    <2>1. \A i \in DOMAIN received : received[i] \in Frames
      BY <1>2
    <2> QED
      BY <1>1, <1>2, <2>1, CompleteStays DEF Whole
  <1>4. relayEnd = "running" =>
          /\ Listed(seen', s.output, n + 1)
          /\ s.sawMessage => HasMessage(s.output)
    BY <1>1, <1>2, RememberListed DEF Whole
  <1>5. /\ s \in StreamStates /\ Bounded(s, n + 1)
        /\ e.type \in Ends => Bounded(s, n)
    BY <1>2, RememberBounded DEF Bounded
  <1> HIDE DEF s
  <1>6. CASE RelayPasses(e)
    <2> DEFINE frame == Frame(e.type, e.item, 0, <<>>)
    <2>1. frame \in Frames /\ frame.type = e.type
      BY <1>2, FrameTyped DEF Inv
    <2>2. /\ relay' = s /\ outbox' = <<frame>> /\ relayEnd = "running"
          /\ relayEnd' = relayEnd /\ received' = received
          /\ e.type \notin {"completed", "incomplete"}
      BY <1>6 DEF RelayPasses, s
    <2> HIDE DEF frame
    <2>3. \A i \in DOMAIN outbox' : outbox'[i] = frame
      BY <2>2
    <2>4. Complete(frame, seen')
      BY <2>1, <2>2 DEF Complete
    <2> QED
      BY <1>2, <1>3, <1>4, <2>2, <2>3, <2>4 DEF Whole
  <1>7. CASE RelayPatches(e)
    <2> DEFINE patched == PatchedState(s, e.response)
               output == Patched(s, e.response).output
               made == Frame("synthetic", Last(patched.output),
                             Index(s, patched), <<>>)
               ended == Frame(e.type, NoItem, 0, output)
    <2>1. /\ e.type \in {"completed", "incomplete"} /\ e.type \in Ends
          /\ relayEnd = "running" /\ relay' = patched
          /\ relayEnd' = relayEnd /\ received' = received
          /\ outbox' = (IF patched # s THEN <<made>> ELSE <<>>) \o <<ended>>
      BY <1>7 DEF RelayPatches, s, Ends
    <2>2. /\ patched # s => made \in Frames /\ made.type = "synthetic"
          /\ ended \in Frames /\ ended.type = e.type /\ ended.output = output
          /\ ended.after = n
      <3>1. /\ Patched(s, e.response) \in Responses
            /\ patched # s => /\ Index(s, patched) \in 0 .. MaxEvents
                              /\ Last(patched.output) \in Items
        BY <1>2, <1>5, <2>1, PatchedBounded
      <3> HIDE DEF patched
      <3>2. output \in Seq(Items)
        BY <3>1 DEF Responses
      <3> HIDE DEF output
      <3>3. ended \in Frames /\ (patched # s => made \in Frames)
        BY <1>2, <2>1, <3>1, <3>2, FrameTyped, NoItemTyped DEF Inv
      <3> QED
        BY <3>3 DEF Frame
    <2>3. /\ Listed(seen', patched.output, n + 1)
          /\ patched.sawMessage => HasMessage(patched.output)
      BY <1>4, <1>5, <2>1, ListedMessage DEF PatchedState
    <2>4. ItemsOf(seen', n) = ItemsOf(seen', n + 1)
      <3>1. ItemsOf(seen', n) = ItemsOf(seen, n)
        <4>1. n \in 0 .. Len(seen)
          BY <1>2
        <4> HIDE DEF e
        <4> QED
          BY <1>1, <1>2, <4>1, ItemsLonger
      <3>2. e.type # "item"
        BY <2>1
      <3> QED
        BY <1>1, <1>2, <3>1, <3>2, ItemsLonger
    <2>5. Count(seen', n) = s.text /\ s.text \in Nat
      <3>1. Count(seen', n) = relay.text
        BY <1>1, <1>2, <2>1, CountAppend DEF Once, Counted
      <3>2. s.text = relay.text
        BY <1>2, <2>1, RememberCounts DEF s
      <3> QED
        BY <1>5, <3>1, <3>2 DEF StreamStates
    <2>6. ~HasOutput(e.response) =>
            /\ Listed(seen', output, n)
            /\ s.text > 0 => HasMessage(output)
      <3>1. ~HasOutput(e.response) => output = WithMessage(s).output
        BY DEF Patched, Object
      <3>2. Listed(seen', WithMessage(s).output, n + 1)
            /\ (s.text > 0 => HasMessage(WithMessage(s).output))
        BY <1>4, <1>5, <2>1, ListedMessage
      <3> QED
        BY <2>4, <3>1, <3>2 DEF Listed
    <2> HIDE DEF made, ended, patched, output
    <2>7. Complete(ended, seen')
      BY <1>2, <2>2, <2>5, <2>6 DEF Complete
    <2>8. patched # s => Complete(made, seen')
      BY <2>2 DEF Complete
    <2>9. \A i \in DOMAIN outbox' : \/ outbox'[i] = ended
                                    \/ patched # s /\ outbox'[i] = made
      <3>1. CASE patched = s
        BY <2>1, <2>2, <3>1
      <3>2. CASE patched # s
        BY <2>1, <2>2, <3>2
      <3> QED
        BY <3>1, <3>2
    <2> QED
      BY <1>2, <1>3, <2>1, <2>3, <2>7, <2>8, <2>9 DEF Whole
  <1>8. CASE RelayRefuses(e)
    BY <1>3, <1>8, WholeStopped DEF RelayRefuses
  <1>9. CASE RelayPanics(e) \/ RelayIsOver
    <2>1. outbox' = <<>> /\ relayEnd' # "running" /\ received' = received
      BY <1>1, <1>9 DEF RelayPanics, RelayIsOver, relayVars
    <2> QED
      BY <1>3, <2>1 DEF Whole
  <1> QED
    BY <1>1, <1>6, <1>7, <1>8, <1>9

LEMMA NextWhole == Inv /\ Once /\ Whole /\ [Next]_vars => Whole'
  <1> SUFFICES ASSUME Inv, Once, Whole, [Next]_vars PROVE Whole'
    OBVIOUS
  <1> USE DEF relayVars, bufferVars
  <1>1. ASSUME NEW e \in EventsAt(Len(seen) + 1), ReadLines(e) PROVE Whole'
    BY <1>1 DEF ReadLines, Whole
  <1>2. CASE EndOfBody \/ ReadError
    BY <1>2 DEF EndOfBody, ReadError, Whole
  <1>3. CASE Dispatch
    BY <1>3, WholeDispatched
  <1>4. CASE WriteFrame
    BY <1>4, WholeWritten
  <1>5. CASE WriteFails \/ RelayCutShort
    BY <1>5, WholeStopped DEF WriteFails, RelayCutShort, Whole
  <1>6. CASE ClientLeaves \/ RelayReturns \/ BufferReturns
    BY <1>6 DEF ClientLeaves, RelayReturns, BufferReturns, Whole
  <1>7. CASE UNCHANGED vars
    BY <1>7 DEF vars, Whole
  <1> QED
    BY <1>1, <1>2, <1>3, <1>4, <1>5, <1>6, <1>7 DEF Next

-----------------------------------------------------------------------------
THEOREM RelaySafe == Spec => []Inv
  BY InitInv, NextInv, PTL DEF Spec

\* Both readers' states, the frames and the answer keep their types for
\* streams of any length, and no place in the output is out of its range.
THEOREM RelayTyped == Spec => []TypeOK
  <1>1. Inv => TypeOK
    BY DEF Inv, Sized
  <1> QED
    BY RelaySafe, <1>1, PTL

\* A client that stays is never left without the end of its stream: it has the
\* event that ended the answer, or an error as its last frame.
THEOREM EndIsTold == Spec => []ClientLearnsEnd
  <1>1. Inv => ClientLearnsEnd
    BY DEF Inv, Told
  <1> QED
    BY RelaySafe, <1>1, PTL

\* However often upstream ends its stream: the text becomes one message at
\* most, made of all deltas before it, and the response that follows has it
\* where it was announced.
THEOREM MadeOnce == Spec => []MessageMadeOnce
  <1>1. Inv /\ Once => MessageMadeOnce
    BY DEF Once, Delivered, MessageMadeOnce, Sound, Deltas, Count
  <1>2. Init => Inv /\ Once
    BY InitInv, InitOnce
  <1>3. (Inv /\ Once) /\ [Next]_vars => (Inv /\ Once)'
    BY NextInv, NextOnce
  <1> QED
    BY <1>1, <1>2, <1>3, PTL DEF Spec

\* For an orderly stream of any length, the client that streams and the one
\* that waits get the same output, and the same response is charged.
THEOREM AnswersAgree == Spec => []SameAnswer
  <1>1. ASSUME Inv, InStep PROVE SameAnswer
    <2> SUFFICES ASSUME Orderly, ~gone, relayEnd # "running",
                        bufferEnd # "running"
                 PROVE  /\ Outputs(received) \ {<<>>}
                             = IF bufferEnd = "response" THEN {answer.output}
                                                         ELSE {}
                        /\ Details(relay) = Details(buffer)
      BY DEF SameAnswer, Outputs
    <2>1. Ended(seen) /\ upstream = "closed"
      BY DEF Orderly, Ended, EndedAt, Breaking
    <2>2. outbox = <<>>
      BY <1>1 DEF Inv, Told
    <2>3. Handed = Outputs(received) \ {<<>>}
      BY <2>2, OutputsOf DEF Handed
    <2> QED
      BY <1>1, <2>1, <2>3 DEF InStep, InStepAfter, Owed
  <1>2. Init => Inv /\ InStep
    BY InitInv, InitInStep
  <1>3. (Inv /\ InStep) /\ [Next]_vars => (Inv /\ InStep)'
    BY NextInv, NextInStep
  <1> QED
    BY <1>1, <1>2, <1>3, PTL DEF Spec

\* In a stream of any length, a client that is not told by upstream what is in
\* the answer is told by the proxy, with every item in its place and the text.
THEOREM AllIsKept == Spec => []NothingStreamedIsLost
  <1>1. ASSUME Inv, Whole PROVE NothingStreamedIsLost
    <2>1. \A n : Deltas(n) = Count(seen, n) /\ Streamed(n) = ItemsOf(seen, n)
      BY DEF Deltas, Count, Streamed, ItemsOf
    <2>2. \A output, n : Listed(seen, output, n) => HasItems(output, n)
      BY <2>1 DEF Listed, HasItems, Kept
    <2> QED
      BY <1>1, <2>1, <2>2 DEF Whole, Complete, NothingStreamedIsLost
  <1>2. Init => Inv /\ Once /\ Whole
    BY InitInv, InitOnce, InitWhole
  <1>3. (Inv /\ Once /\ Whole) /\ [Next]_vars => (Inv /\ Once /\ Whole)'
    BY NextInv, NextOnce, NextWhole
  <1> QED
    BY <1>1, <1>2, <1>3, PTL DEF Spec

=============================================================================
