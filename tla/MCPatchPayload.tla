---------------------------- MODULE MCPatchPayload ----------------------------
(***************************************************************************)
(* Bodies for PatchPayload: every combination of short inputs, tools and   *)
(* includes, and every combination of the other fields.  Clients also send *)
(* the two kinds of items that the proxy adds, as a Lite client does that  *)
(* knows them, or a proxy before this one.                                 *)
(***************************************************************************)
EXTENDS PatchPayload, SequencesExt

MCTypes    == {"message", "reasoning", "additional_tools", "developer"}
MCTools    == {"web_search_preview", "web_search", "function"}
MCIncludes == {"encrypted", "logprobs"}

MCItems == {Item("message"), Item("reasoning"),
            [type |-> "additional_tools", holds |-> <<"function">>],
            [type |-> "developer", holds |-> <<"own">>]}

Odd == {Absent, [is |-> "other", of |-> <<>>], [is |-> "string", of |-> <<>>]}
Arrays(S, n) == {Array(s) : s \in BoundedSeq(S, n)}
NoReasoning == [is |-> "absent", context |-> "none", effort |-> "none"]

Plain == [object |-> TRUE, model |-> "plain", stream |-> FALSE, store |-> TRUE,
          caps |-> {}, instructions |-> "none", input |-> Absent,
          tools |-> Absent, include |-> Absent, parallel |-> "absent",
          choice |-> "absent", reasoning |-> NoReasoning]

MCBodies ==
    {[Plain EXCEPT !.model = m, !.instructions = i, !.input = in, !.tools = t,
                   !.include = c] :
        m \in {"plain", "lite"}, i \in {"none", "own"},
        in \in Odd \cup Arrays(MCItems, 3),
        t \in Odd \cup Arrays(MCTools, 2), c \in Odd \cup Arrays(MCIncludes, 2)}
    \cup
    {[Plain EXCEPT !.object = o, !.model = m, !.stream = s, !.caps = k,
                   !.parallel = p, !.choice = c, !.reasoning = r] :
        o \in BOOLEAN, m \in {"none", "plain", "lite"}, s \in BOOLEAN,
        k \in SUBSET {"max_output_tokens", "max_completion_tokens"},
        p \in {"absent", "true", "false", "other"},
        c \in {"absent", "none", "required", "auto", "other"},
        r \in {NoReasoning,
               [is |-> "other", context |-> "none", effort |-> "none"],
               [is |-> "object", context |-> "own", effort |-> "own"]}}

=============================================================================
