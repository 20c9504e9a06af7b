----------------------------- MODULE PatchPayload -----------------------------
(***************************************************************************)
(* PatchPayload of internal/proxy/payload.go: the body that a client sent  *)
(* becomes the body that upstream accepts.  It is a pure function; the one *)
(* step of this module applies it to a body, and the properties compare    *)
(* what comes out with what the client gave.                               *)
(*                                                                         *)
(* A body is a record of the fields that the function looks at; all other  *)
(* fields pass unchanged.  A field that may be absent or of any type is a  *)
(* JSON value: its kind and, of an array, the elements.                    *)
(***************************************************************************)
EXTENDS Sequences, Integers, FiniteSets

CONSTANTS
    Bodies,    \* the bodies that clients send
    Types,     \* of the items of input that clients send; "reasoning" is one,
               \* "additional_tools" and "developer" may be
    Tools,     \* declared tools; "web_search_preview" and "web_search" are two
    Includes   \* elements of include; "encrypted" is reasoning.encrypted_content

Array(elements) == [is |-> "array", of |-> elements]
Absent == [is |-> "absent", of |-> <<>>]

\* The JSON values whose elements, if they are arrays, are of this kind.
Values(elements) ==
    {value \in [is : {"absent", "array", "string", "other"}, of : Seq(elements)] :
        value.is # "array" => value.of = <<>>}

\* An item of input: its type, and the tools or instructions in it.  "own" is
\* whatever the client put there, "default" the proxy's own instructions.
ItemsOf(types) == [type : types, holds : Seq(Tools \cup {"own", "default"})]
Item(type) == [type |-> type, holds |-> <<>>]

\* A body with items, and instructions, of these kinds.
BodiesWith(items, instructions) ==
    [object : BOOLEAN, model : {"none", "plain", "lite"}, stream : BOOLEAN,
     store : BOOLEAN, caps : SUBSET {"max_output_tokens", "max_completion_tokens"},
     instructions : instructions, input : Values(items),
     tools : Values(Tools), include : Values(Includes),
     parallel : {"absent", "true", "false", "other"},
     choice : {"absent", "none", "required", "auto", "other"},
     reasoning : [is : {"absent", "object", "other"},
                  context : {"none", "own", "all_turns"},
                  effort : {"none", "own"}]]

ASSUME NamesAssumption == "web_search" \in Tools /\ "encrypted" \in Includes
ASSUME BodiesAssumption ==
    Bodies \subseteq BodiesWith(ItemsOf(Types), {"none", "own"})

VARIABLES raw, payload, metadata, place

vars == <<raw, payload, metadata, place>>

NoMetadata == [model |-> "none", stream |-> FALSE, lite |-> FALSE]

-----------------------------------------------------------------------------
\* A string becomes the text of one user message.
NormalizeStringInput(body) ==
    IF body.input.is = "string"
      THEN [body EXCEPT !.input = Array(<<Item("text")>>)] ELSE body

NotReasoning(item) == item.type # "reasoning"

\* What is left of items: the loop over them, with filtered[n] after n of them.
Filtered(items) ==
    LET filtered[n \in 0 .. Len(items)] ==
          IF n = 0 THEN <<>>
          ELSE IF NotReasoning(items[n]) THEN Append(filtered[n - 1], items[n])
          ELSE filtered[n - 1]
    IN  filtered[Len(items)]

StripReasoningItems(body) == [body EXCEPT !.input.of = Filtered(@)]

Renamed(tool) == IF tool = "web_search_preview" THEN "web_search" ELSE tool

RenameTools(body) ==
    [body EXCEPT !.tools.of = [i \in DOMAIN @ |-> Renamed(@[i])]]

\* Slips: the kind is not set; what is included already is not looked for.
IncludeAppended(body) ==
    [body EXCEPT !.include.of = Append(@, "encrypted")]
IncludedAgain(body) ==
    [body EXCEPT !.include = Array(Append(@.of, "encrypted"))]

\* An include that is no array is replaced.
IncludeEncryptedReasoning(body) ==
    IF \E i \in DOMAIN body.include.of : body.include.of[i] = "encrypted"
      THEN body
      ELSE [body EXCEPT !.include = Array(Append(@.of, "encrypted"))]

\* Models of the Responses Lite kind take tools and instructions as items of
\* input.
LitePrefix(body) ==
    <<[type |-> "additional_tools", holds |-> body.tools.of]>>
    \o (IF body.instructions = "none" THEN <<>>
        ELSE <<[type |-> "developer", holds |-> <<body.instructions>>]>>)

\* Slips: the fields stay where they were, too; the items come first.
LiteWithFields(body) ==
    [body EXCEPT !.input = Array(LitePrefix(body) \o @.of)]
LiteAtTheEnd(body) ==
    [body EXCEPT !.input = Array(@.of \o LitePrefix(body)),
                 !.tools = Absent, !.instructions = "none"]

\* An input that is no array is dropped, as is a tool choice other than none
\* and required.
ApplyResponsesLite(body) ==
    [body EXCEPT
       !.input = Array(LitePrefix(body) \o @.of),
       !.tools = Absent,
       !.instructions = "none",
       !.parallel = IF @ = "absent" THEN "false" ELSE @,
       !.choice = IF @ \in {"none", "required"} THEN @ ELSE "auto",
       !.reasoning = [is |-> "object", context |-> "all_turns",
                      effort |-> @.effort]]

\* What is forced on every body.
Forced(body) ==
    [body EXCEPT !.stream = TRUE, !.store = FALSE, !.caps = {},
                 !.instructions = IF @ = "none" THEN "default" ELSE @]

\* What is done for every model.
Prepared(body) ==
    IncludeEncryptedReasoning(RenameTools(StripReasoningItems(
        NormalizeStringInput(Forced(body)))))

Patched(body) ==
    IF body.model = "lite" THEN ApplyResponsesLite(Prepared(body))
                           ELSE Prepared(body)

\* What ServeHTTP and send need to know of the body, read before it is patched.
MetadataOf(body) ==
    [model |-> body.model, stream |-> body.stream,
     lite |-> body.model = "lite"]

-----------------------------------------------------------------------------
Init ==
    /\ raw \in Bodies
    /\ payload = raw
    /\ metadata = NoMetadata
    /\ place = "received"

Patch ==
    /\ place = "received"
    /\ raw.object
    /\ payload' = Patched(raw)
    /\ metadata' = MetadataOf(raw)
    /\ place' = "patched"
    /\ UNCHANGED raw

\* No JSON, or not an object: the client gets a 400.
Reject ==
    /\ place = "received"
    /\ ~raw.object
    /\ place' = "rejected"
    /\ UNCHANGED <<raw, payload, metadata>>

Next == Patch \/ Reject

Spec == Init /\ [][Next]_vars

-----------------------------------------------------------------------------
TypeOK ==
    /\ payload \in BodiesWith(
           ItemsOf(Types \cup {"text", "developer", "additional_tools"}),
           {"none", "own", "default"})
    /\ metadata.stream \in BOOLEAN /\ metadata.lite \in BOOLEAN
    /\ place \in {"received", "patched", "rejected"}

IsPatched == place = "patched"

\* The client's input as items, and those of them that upstream is to see.
Given == IF raw.input.is = "string" THEN <<Item("text")>> ELSE raw.input.of
Passed == {i \in DOMAIN Given : NotReasoning(Given[i])}

\* The client's items reach upstream, all but reasoning, in their order and
\* after the two that the proxy puts before them for a Lite model, whatever
\* their types; an array or a string stays no other kind; and although upstream
\* always streams, the client's own wish is remembered.
ClientIsHeard ==
    IsPatched /\ raw.input.is \in {"array", "string"} =>
        LET sent == payload.input.of
            before == IF metadata.lite THEN 2 ELSE 0
        IN  /\ payload.input.is = "array"
            /\ Len(sent) = before + Cardinality(Passed)
            /\ \A i \in Passed :
                 sent[before + Cardinality({j \in Passed : j <= i})] = Given[i]
            /\ metadata.stream = raw.stream /\ payload.stream

\* The proxy gives upstream one set of instructions, the client's if there are
\* any, and one list of tools, the client's with the old name replaced: both at
\* the top for an ordinary model, both as items that come first, and nowhere
\* else, for a Lite one.  It adds nothing more.  A client that put such items
\* into its input itself is not looked at for them: upstream hears those, too.
AddedOnce ==
    IsPatched =>
        LET instructions == IF raw.instructions = "own" THEN "own" ELSE "default"
            tools == [i \in DOMAIN raw.tools.of |-> Renamed(raw.tools.of[i])]
            sent == payload.input.of
        IN  IF metadata.lite
              THEN /\ payload.instructions = "none" /\ payload.tools = Absent
                   /\ Len(sent) = 2 + Cardinality(Passed)
                   /\ sent[1] = [type |-> "additional_tools", holds |-> tools]
                   /\ sent[2] = [type |-> "developer", holds |-> <<instructions>>]
              ELSE /\ payload.instructions = instructions
                   /\ payload.tools = [raw.tools EXCEPT !.of = tools]
                   /\ Len(sent) = Cardinality(Passed)

\* What a second proxy adds to a Lite body that has its tools and instructions
\* in input already.
SecondPrefix == <<Item("additional_tools"),
                  [type |-> "developer", holds |-> <<"default">>]>>

\* A body that was patched for an ordinary model passes a second proxy as it
\* is.  One for a Lite model does not: no tools and the default instructions are
\* put before those that it has, which all stay, and nothing else is changed.
PatchedTwice ==
    IsPatched =>
        Patched(payload) = IF metadata.lite
                             THEN [payload EXCEPT !.input.of = SecondPrefix \o @]
                             ELSE payload

=============================================================================
