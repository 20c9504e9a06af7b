------------------------- MODULE PatchPayloadProofs -------------------------
(***************************************************************************)
(* Theorems about PatchPayload, for bodies with inputs, tools and includes *)
(* of any length.                                                          *)
(***************************************************************************)
EXTENDS PatchPayload, FiniteSetTheorems, SequenceTheorems, WellFoundedInduction,
        TLAPS

-----------------------------------------------------------------------------
(* The loop of stripReasoningItems.                                        *)

\* Induction over the numbers, as a fact about a set.
LEMMA Induction ==
  ASSUME NEW S \in SUBSET Nat, 0 \in S, \A n \in S : n + 1 \in S
  PROVE  S = Nat
  <1> SUFFICES ASSUME S # Nat PROVE FALSE
    OBVIOUS
  <1> DEFINE R == OpToRel(<, Nat)
  <1>1. IsWellFoundedOn(R, Nat)
    BY NatLessThanWellFounded
  <1> HIDE DEF R
  <1>2. PICK m \in Nat \ S : \A n \in Nat \ S : <<n, m>> \notin R
    BY <1>1, WFMin
  <1>3. m # 0 /\ m - 1 \in Nat
    BY <1>2
  <1>4. m - 1 \in S
    <2>1. <<m - 1, m>> \in R
      BY <1>3 DEF R, OpToRel
    <2> QED
      BY <1>2, <1>3, <2>1
  <1> QED
    BY <1>2, <1>3, <1>4

\* What the loop makes of item n, given what f has after n - 1 items.
Turn(items, f, n) ==
    IF n = 0 THEN <<>>
    ELSE IF NotReasoning(items[n]) THEN Append(f[n - 1], items[n])
    ELSE f[n - 1]

Loop(items, f, m) == f = [n \in 0 .. m |-> Turn(items, f, n)]

LEMMA LoopExists ==
  ASSUME NEW items, NEW m \in Nat
  PROVE  \E f : Loop(items, f, m)
  <1> DEFINE S == {n \in Nat : \E f : Loop(items, f, n)}
  <1>1. 0 \in S
    <2> DEFINE f == [n \in 0 .. 0 |-> <<>>]
    <2>1. Loop(items, f, 0)
      BY DEF Loop, Turn
    <2> QED
      BY <2>1
  <1>2. ASSUME NEW n \in S PROVE n + 1 \in S
    <2>1. PICK f : Loop(items, f, n)
      OBVIOUS
    <2> DEFINE g == [k \in 0 .. (n + 1) |->
                       IF k = n + 1 THEN Turn(items, f, k) ELSE f[k]]
    <2>2. n \in Nat
      OBVIOUS
    <2>3. ASSUME NEW k \in 0 .. (n + 1) PROVE g[k] = Turn(items, g, k)
      <3>1. k # 0 => k - 1 \in 0 .. n /\ g[k - 1] = f[k - 1]
        BY <2>2
      <3>2. Turn(items, g, k) = Turn(items, f, k)
        BY <3>1 DEF Turn
      <3>3. k # n + 1 => k \in 0 .. n /\ f[k] = Turn(items, f, k)
        BY <2>1, <2>2 DEF Loop
      <3> QED
        BY <3>2, <3>3
    <2>4. Loop(items, g, n + 1)
      <3> HIDE DEF Turn
      <3>1. g = [k \in 0 .. (n + 1) |-> g[k]]
        OBVIOUS
      <3> HIDE DEF g
      <3> QED
        BY <2>3, <3>1 DEF Loop
    <2> QED
      BY <2>2, <2>4
  <1> HIDE DEF S
  <1>3. S = Nat
    BY <1>1, <1>2, Induction DEF S
  <1> QED
    BY <1>3 DEF S

\* The loop is what Filtered is defined by.
LEMMA FilteredLoops ==
  ASSUME NEW S, NEW items \in Seq(S)
  PROVE  \E f : /\ Loop(items, f, Len(items))
                /\ Filtered(items) = f[Len(items)]
                /\ f[0] = <<>>
                /\ \A n \in 1 .. Len(items) : f[n] = Turn(items, f, n)
  <1> DEFINE f == CHOOSE f : Loop(items, f, Len(items))
  <1>1. Filtered(items) = f[Len(items)]
    BY DEF Filtered, Loop, Turn
  <1>2. Loop(items, f, Len(items))
    <2>1. Len(items) \in Nat
      OBVIOUS
    <2> QED
      BY <2>1, LoopExists
  <1> HIDE DEF f
  <1>3. \A n \in 0 .. Len(items) : f[n] = Turn(items, f, n)
    BY <1>2 DEF Loop
  <1>4. f[0] = <<>>
    <2>1. 0 \in 0 .. Len(items)
      OBVIOUS
    <2> QED
      BY <1>3, <2>1 DEF Turn
  <1> QED
    BY <1>1, <1>2, <1>3, <1>4

\* What is left are items of the same kind, none of them reasoning, and all of
\* them if none was.
LEMMA FilteredKeeps ==
  ASSUME NEW S, NEW items \in Seq(S)
  PROVE  /\ Filtered(items) \in Seq(S)
         /\ \A k \in DOMAIN Filtered(items) : NotReasoning(Filtered(items)[k])
         /\ (\A i \in DOMAIN items : NotReasoning(items[i])) =>
              Filtered(items) = items
  <1>1. PICK f : /\ Filtered(items) = f[Len(items)]
                 /\ f[0] = <<>>
                 /\ \A n \in 1 .. Len(items) : f[n] = Turn(items, f, n)
    BY FilteredLoops
  <1> DEFINE all == \A i \in DOMAIN items : NotReasoning(items[i])
             Fine(n) == /\ f[n] \in Seq(S)
                        /\ \A k \in DOMAIN f[n] : NotReasoning(f[n][k])
                        /\ all => /\ Len(f[n]) = n
                                  /\ \A i \in 1 .. n : f[n][i] = items[i]
             T == {n \in Nat : n <= Len(items) => Fine(n)}
  <1>2. 0 \in T
    <2>1. <<>> \in Seq(S) /\ DOMAIN <<>> = {} /\ Len(<<>>) = 0
      OBVIOUS
    <2>2. Fine(0)
      BY <1>1, <2>1
    <2> QED
      BY <2>2
  <1>3. ASSUME NEW n \in T PROVE n + 1 \in T
    <2> SUFFICES ASSUME n + 1 <= Len(items) PROVE Fine(n + 1)
      OBVIOUS
    <2>1. /\ n \in Nat /\ n + 1 \in 1 .. Len(items) /\ n + 1 \in DOMAIN items
          /\ items[n + 1] \in S /\ Fine(n)
      OBVIOUS
    <2>2. f[n + 1] = IF NotReasoning(items[n + 1])
                       THEN Append(f[n], items[n + 1]) ELSE f[n]
      BY <1>1, <2>1 DEF Turn
    <2>3. CASE NotReasoning(items[n + 1])
      <3> DEFINE longer == Append(f[n], items[n + 1])
      <3>1. /\ longer \in Seq(S) /\ Len(longer) = Len(f[n]) + 1
            /\ longer[Len(f[n]) + 1] = items[n + 1]
            /\ \A k \in 1 .. Len(f[n]) : longer[k] = f[n][k]
            /\ DOMAIN longer = 1 .. (Len(f[n]) + 1)
            /\ DOMAIN f[n] = 1 .. Len(f[n]) /\ Len(f[n]) \in Nat
        BY <2>1
      <3>2. f[n + 1] = longer
        BY <2>2, <2>3
      <3> HIDE DEF longer
      <3>3. \A k \in DOMAIN longer : NotReasoning(longer[k])
        BY <2>1, <2>3, <3>1
      <3>4. all => Len(longer) = n + 1
                   /\ \A i \in 1 .. (n + 1) : longer[i] = items[i]
        BY <2>1, <3>1
      <3> QED
        BY <3>1, <3>2, <3>3
    <2>4. CASE ~NotReasoning(items[n + 1])
      BY <2>1, <2>2, <2>4
    <2> QED
      BY <2>3, <2>4
  <1> HIDE DEF T, Fine
  <1>4. T = Nat
    BY <1>2, <1>3, Induction DEF T
  <1>5. Fine(Len(items)) /\ Len(items) \in Nat
    BY <1>4 DEF T
  <1>6. all => Filtered(items) = items
    BY <1>1, <1>5 DEF Fine
  <1> QED
    BY <1>1, <1>5, <1>6 DEF Fine

\* The items that pass, among the first n.
PassedOf(items, n) == {i \in 1 .. n : NotReasoning(items[i])}

LEMMA PassedOfOneMore ==
  ASSUME NEW items, NEW n \in Nat
  PROVE  /\ PassedOf(items, 0) = {} /\ Cardinality(PassedOf(items, 0)) = 0
         /\ Cardinality(PassedOf(items, n)) \in Nat
         /\ PassedOf(items, n + 1) = IF NotReasoning(items[n + 1])
                                       THEN PassedOf(items, n) \cup {n + 1}
                                       ELSE PassedOf(items, n)
         /\ Cardinality(PassedOf(items, n + 1))
              = IF NotReasoning(items[n + 1])
                  THEN Cardinality(PassedOf(items, n)) + 1
                  ELSE Cardinality(PassedOf(items, n))
         /\ \A i \in PassedOf(items, n) :
              Cardinality(PassedOf(items, i)) \in 1 .. Cardinality(PassedOf(items, n))
  <1>1. PassedOf(items, 0) = {} /\ Cardinality(PassedOf(items, 0)) = 0
    BY FS_EmptySet DEF PassedOf
  <1>2. ASSUME NEW m \in Nat
        PROVE  IsFiniteSet(PassedOf(items, m))
               /\ Cardinality(PassedOf(items, m)) \in Nat
    <2>1. PassedOf(items, m) \subseteq 1 .. m /\ IsFiniteSet(1 .. m)
      BY FS_Interval DEF PassedOf
    <2> QED
      BY <2>1, FS_Subset, FS_CardinalityType
  <1>3. /\ PassedOf(items, n + 1) = IF NotReasoning(items[n + 1])
                                      THEN PassedOf(items, n) \cup {n + 1}
                                      ELSE PassedOf(items, n)
        /\ n + 1 \notin PassedOf(items, n)
    <2>1. 1 .. (n + 1) = (1 .. n) \cup {n + 1} /\ n + 1 \notin 1 .. n
      OBVIOUS
    <2>2. CASE NotReasoning(items[n + 1])
      BY <2>1, <2>2 DEF PassedOf
    <2>3. CASE ~NotReasoning(items[n + 1])
      BY <2>1, <2>3 DEF PassedOf
    <2> QED
      BY <2>1, <2>2, <2>3
  <1>4. Cardinality(PassedOf(items, n + 1))
          = IF NotReasoning(items[n + 1])
              THEN Cardinality(PassedOf(items, n)) + 1
              ELSE Cardinality(PassedOf(items, n))
    <2>1. IsFiniteSet(PassedOf(items, n))
      BY <1>2
    <2>2. Cardinality(PassedOf(items, n) \cup {n + 1})
            = Cardinality(PassedOf(items, n)) + 1
      BY <1>3, <2>1, FS_AddElement
    <2> QED
      BY <1>3, <2>2
  <1>5. ASSUME NEW i \in PassedOf(items, n)
        PROVE  Cardinality(PassedOf(items, i)) \in 1 .. Cardinality(PassedOf(items, n))
    <2>1. i \in Nat /\ i \in PassedOf(items, i)
          /\ PassedOf(items, i) \subseteq PassedOf(items, n)
      BY DEF PassedOf
    <2>2. Cardinality(PassedOf(items, i)) <= Cardinality(PassedOf(items, n))
      BY <1>2, <2>1, FS_Subset
    <2>3. Cardinality(PassedOf(items, i)) # 0
      BY <1>2, <2>1, FS_EmptySet
    <2> QED
      BY <1>2, <2>1, <2>2, <2>3
  <1> QED
    BY <1>1, <1>2, <1>3, <1>4, <1>5

\* As many items are left as pass, and each is where its rank among them says.
LEMMA FilteredPlaces ==
  ASSUME NEW S, NEW items \in Seq(S)
  PROVE  /\ Len(Filtered(items)) = Cardinality(PassedOf(items, Len(items)))
         /\ \A i \in PassedOf(items, Len(items)) :
              Filtered(items)[Cardinality(PassedOf(items, i))] = items[i]
  <1>1. PICK f : /\ Filtered(items) = f[Len(items)]
                 /\ f[0] = <<>>
                 /\ \A n \in 1 .. Len(items) : f[n] = Turn(items, f, n)
    BY FilteredLoops
  <1> DEFINE Rank(n) == Cardinality(PassedOf(items, n))
             Fine(n) == /\ f[n] \in Seq(S) /\ Len(f[n]) = Rank(n)
                        /\ \A i \in PassedOf(items, n) : f[n][Rank(i)] = items[i]
             T == {n \in Nat : n <= Len(items) => Fine(n)}
  <1>2. 0 \in T
    <2>1. PassedOf(items, 0) = {} /\ Rank(0) = 0
      BY PassedOfOneMore
    <2>2. f[0] \in Seq(S) /\ Len(f[0]) = 0
      BY <1>1
    <2> QED
      BY <2>1, <2>2
  <1>3. ASSUME NEW n \in T PROVE n + 1 \in T
    <2> SUFFICES ASSUME n + 1 <= Len(items) PROVE Fine(n + 1)
      OBVIOUS
    <2>1. /\ n \in Nat /\ n + 1 \in 1 .. Len(items) /\ n + 1 \in DOMAIN items
          /\ items[n + 1] \in S /\ Fine(n)
      OBVIOUS
    <2>2. f[n + 1] = IF NotReasoning(items[n + 1])
                       THEN Append(f[n], items[n + 1]) ELSE f[n]
      BY <1>1, <2>1 DEF Turn
    <2>3. /\ PassedOf(items, n + 1) = IF NotReasoning(items[n + 1])
                                        THEN PassedOf(items, n) \cup {n + 1}
                                        ELSE PassedOf(items, n)
          /\ Rank(n + 1) = IF NotReasoning(items[n + 1]) THEN Rank(n) + 1
                                                         ELSE Rank(n)
          /\ \A i \in PassedOf(items, n) : Rank(i) \in 1 .. Rank(n)
      BY <2>1, PassedOfOneMore
    <2> HIDE DEF Rank
    <2>4. CASE NotReasoning(items[n + 1])
      <3> DEFINE longer == Append(f[n], items[n + 1])
      <3>1. /\ longer \in Seq(S) /\ Len(longer) = Len(f[n]) + 1
            /\ longer[Len(f[n]) + 1] = items[n + 1]
            /\ \A k \in 1 .. Len(f[n]) : longer[k] = f[n][k]
        BY <2>1
      <3>2. f[n + 1] = longer
        BY <2>2, <2>4
      <3> HIDE DEF longer
      <3>3. ASSUME NEW i \in PassedOf(items, n + 1)
            PROVE  longer[Rank(i)] = items[i]
        <4>1. CASE i = n + 1
          BY <2>1, <2>3, <2>4, <3>1, <4>1
        <4>2. CASE i # n + 1
          BY <2>1, <2>3, <2>4, <3>1, <3>3, <4>2
        <4> QED
          BY <4>1, <4>2
      <3> QED
        BY <2>1, <2>3, <2>4, <3>1, <3>2, <3>3
    <2>5. CASE ~NotReasoning(items[n + 1])
      BY <2>1, <2>2, <2>3, <2>5
    <2> QED
      BY <2>4, <2>5
  <1> HIDE DEF T, Fine
  <1>4. T = Nat
    BY <1>2, <1>3, Induction DEF T
  <1>5. Fine(Len(items)) /\ Len(items) \in Nat
    BY <1>4 DEF T
  <1> QED
    BY <1>1, <1>5 DEF Fine

-----------------------------------------------------------------------------
(* What is done to every body.                                             *)

ValueKinds == {"absent", "array", "string", "other"}

LEMMA ValueFields ==
  ASSUME NEW S
  PROVE  /\ \A value \in Values(S) :
              /\ value.is \in ValueKinds /\ value.of \in Seq(S)
              /\ value.is # "array" => value.of = <<>>
              /\ value = [is |-> value.is, of |-> value.of]
         /\ \A is \in ValueKinds, of \in Seq(S) :
              (is # "array" => of = <<>>) => [is |-> is, of |-> of] \in Values(S)
         /\ \A of \in Seq(S) : Array(of) \in Values(S)
         /\ Absent \in Values(S)
  <1>1. <<>> \in Seq(S)
    OBVIOUS
  <1> QED
    BY <1>1 DEF Values, ValueKinds, Array, Absent

\* The fields that PatchPayload never sets.
SameFields(old, new) ==
    /\ new.object = old.object /\ new.model = old.model
    /\ new.parallel = old.parallel /\ new.choice = old.choice
    /\ new.reasoning = old.reasoning

LEMMA ForcedBody ==
  ASSUME NEW K, NEW I, "default" \in I, NEW body \in BodiesWith(K, I),
         NEW new, new = Forced(body)
  PROVE  /\ new \in BodiesWith(K, I)
         /\ SameFields(body, new)
         /\ new.stream /\ ~new.store /\ new.caps = {}
         /\ new.instructions = IF body.instructions = "none" THEN "default"
                                                        ELSE body.instructions
         /\ new.input = body.input /\ new.tools = body.tools
         /\ new.include = body.include
  <1> DEFINE said == IF body.instructions = "none" THEN "default"
                                                   ELSE body.instructions
  <1>1. Forced(body) = [body EXCEPT !.stream = TRUE, !.store = FALSE,
                                    !.caps = {}, !.instructions = said]
    BY DEF Forced, BodiesWith
  <1>2. said \in I /\ {} \in SUBSET {"max_output_tokens", "max_completion_tokens"}
    BY DEF BodiesWith
  <1> HIDE DEF said
  <1> QED
    BY <1>1, <1>2, ZenonT(60) DEF BodiesWith, SameFields, said

\* A body with an input of its own.
LEMMA InputSet ==
  ASSUME NEW K, NEW I, NEW body \in BodiesWith(K, I), NEW value \in Values(K),
         NEW new, new = [body EXCEPT !.input = value]
  PROVE  /\ new \in BodiesWith(K, I) /\ SameFields(body, new)
         /\ (new.stream <=> body.stream) /\ (new.store <=> body.store)
         /\ new.caps = body.caps /\ new.instructions = body.instructions
         /\ new.input = value /\ new.tools = body.tools
         /\ new.include = body.include
  BY DEF BodiesWith, SameFields

LEMMA ToolsSet ==
  ASSUME NEW K, NEW I, NEW body \in BodiesWith(K, I), NEW value \in Values(Tools),
         NEW new, new = [body EXCEPT !.tools = value]
  PROVE  /\ new \in BodiesWith(K, I) /\ SameFields(body, new)
         /\ (new.stream <=> body.stream) /\ (new.store <=> body.store)
         /\ new.caps = body.caps /\ new.instructions = body.instructions
         /\ new.input = body.input /\ new.tools = value
         /\ new.include = body.include
  BY DEF BodiesWith, SameFields

LEMMA IncludeSet ==
  ASSUME NEW K, NEW I, NEW body \in BodiesWith(K, I),
         NEW value \in Values(Includes),
         NEW new, new = [body EXCEPT !.include = value]
  PROVE  /\ new \in BodiesWith(K, I) /\ SameFields(body, new)
         /\ (new.stream <=> body.stream) /\ (new.store <=> body.store)
         /\ new.caps = body.caps /\ new.instructions = body.instructions
         /\ new.input = body.input /\ new.tools = body.tools
         /\ new.include = value
  BY DEF BodiesWith, SameFields

\* The input as normalizeStringInput and stripReasoningItems leave it, the
\* tools as renameTools, the include as includeEncryptedReasoning does.
AsItems(value) == IF value.is = "string" THEN <<Item("text")>> ELSE value.of
InputOf(value) == [is |-> IF value.is = "string" THEN "array" ELSE value.is,
                   of |-> Filtered(AsItems(value))]
ToolsOf(value) ==
    [is |-> value.is, of |-> [i \in DOMAIN value.of |-> Renamed(value.of[i])]]
Includes1(value) == \E i \in DOMAIN value.of : value.of[i] = "encrypted"
IncludeOf(value) == IF Includes1(value) THEN value
                                        ELSE Array(Append(value.of, "encrypted"))

LEMMA InputOfTyped ==
  ASSUME NEW K, Item("text") \in K, NEW value \in Values(K)
  PROVE  AsItems(value) \in Seq(K) /\ InputOf(value) \in Values(K)
  <1>1. AsItems(value) \in Seq(K)
    BY ValueFields DEF AsItems
  <1>2. Filtered(AsItems(value)) \in Seq(K)
    BY <1>1, FilteredKeeps
  <1>3. value.is \notin {"array", "string"} => Filtered(AsItems(value)) = <<>>
    <2>1. <<>> \in Seq(K) /\ DOMAIN <<>> = {}
      OBVIOUS
    <2>2. Filtered(<<>>) = <<>>
      BY <2>1, FilteredKeeps
    <2> QED
      BY <2>2, ValueFields DEF AsItems
  <1>4. "array" \in ValueKinds
    BY DEF ValueKinds
  <1> HIDE DEF Filtered
  <1> QED
    BY <1>1, <1>2, <1>3, <1>4, ValueFields DEF InputOf

LEMMA ToolsOfTyped ==
  ASSUME NEW value \in Values(Tools)
  PROVE  /\ ToolsOf(value) \in Values(Tools)
         /\ ToolsOf(ToolsOf(value)) = ToolsOf(value)
  <1> DEFINE of == [i \in DOMAIN value.of |-> Renamed(value.of[i])]
  <1>1. \A tool \in Tools : Renamed(tool) \in Tools
                            /\ Renamed(Renamed(tool)) = Renamed(tool)
    BY NamesAssumption DEF Renamed
  <1>2. value.of \in Seq(Tools) /\ value.is \in ValueKinds
        /\ (value.is # "array" => value.of = <<>>)
    BY ValueFields
  <1>3. of \in Seq(Tools)
    BY <1>1, <1>2
  <1>4. value.of = <<>> => of = <<>>
    BY <1>2
  <1>5. [i \in DOMAIN of |-> Renamed(of[i])] = of
    BY <1>1, <1>2
  <1> HIDE DEF of
  <1>6. ToolsOf(value) = [is |-> value.is, of |-> of]
    BY DEF ToolsOf, of
  <1> QED
    BY <1>2, <1>3, <1>4, <1>5, <1>6, ValueFields DEF ToolsOf

LEMMA IncludeOfTyped ==
  ASSUME NEW value \in Values(Includes)
  PROVE  /\ IncludeOf(value) \in Values(Includes)
         /\ Includes1(IncludeOf(value))
  <1>1. value.of \in Seq(Includes)
    BY ValueFields
  <1> DEFINE longer == Append(value.of, "encrypted")
  <1>2. /\ longer \in Seq(Includes) /\ Len(longer) \in DOMAIN longer
        /\ longer[Len(longer)] = "encrypted"
    BY <1>1, NamesAssumption
  <1> HIDE DEF longer
  <1>3. CASE Includes1(value)
    BY <1>3 DEF IncludeOf
  <1>4. CASE ~Includes1(value)
    <2>1. IncludeOf(value) = Array(longer)
      BY <1>4 DEF IncludeOf, longer
    <2> QED
      BY <1>2, <2>1, ValueFields DEF Includes1, Array
  <1> QED
    BY <1>3, <1>4

LEMMA PreparedBody ==
  ASSUME NEW K, Item("text") \in K, NEW I, "default" \in I,
         NEW body \in BodiesWith(K, I)
  PROVE  LET new == Prepared(body) IN
         /\ new \in BodiesWith(K, I)
         /\ SameFields(body, new)
         /\ new.stream /\ ~new.store /\ new.caps = {}
         /\ new.instructions = IF body.instructions = "none" THEN "default"
                                                        ELSE body.instructions
         /\ new.input = InputOf(body.input)
         /\ new.tools = ToolsOf(body.tools)
         /\ new.include = IncludeOf(body.include)
  <1> DEFINE b1 == Forced(body)
             b2 == NormalizeStringInput(b1)
             b3 == StripReasoningItems(b2)
             b4 == RenameTools(b3)
             b5 == IncludeEncryptedReasoning(b4)
  <1>1. /\ b1 \in BodiesWith(K, I) /\ SameFields(body, b1)
        /\ b1.stream /\ ~b1.store /\ b1.caps = {}
        /\ b1.instructions = IF body.instructions = "none" THEN "default"
                                                      ELSE body.instructions
        /\ b1.input = body.input /\ b1.tools = body.tools
        /\ b1.include = body.include
    BY ForcedBody
  <1>2. /\ body.input \in Values(K) /\ body.tools \in Values(Tools)
        /\ body.include \in Values(Includes)
    BY DEF BodiesWith
  <1> DEFINE v2 == IF body.input.is = "string" THEN Array(<<Item("text")>>)
                                               ELSE body.input
  <1>3. v2 \in Values(K) /\ v2.of = AsItems(body.input)
        /\ v2.is = IF body.input.is = "string" THEN "array" ELSE body.input.is
    <2>1. <<Item("text")>> \in Seq(K)
      OBVIOUS
    <2>2. Array(<<Item("text")>>) \in Values(K)
      BY <2>1, ValueFields
    <2>3. Array(<<Item("text")>>).of = <<Item("text")>>
          /\ Array(<<Item("text")>>).is = "array"
      BY DEF Array
    <2> QED
      BY <1>2, <2>2, <2>3 DEF AsItems
  <1>4. b2 = [b1 EXCEPT !.input = v2]
    <2>1. b1 = [b1 EXCEPT !.input = b1.input]
      BY <1>1 DEF BodiesWith
    <2> QED
      BY <1>1, <2>1 DEF NormalizeStringInput
  <1> HIDE DEF b1, v2
  <1>5. /\ b2 \in BodiesWith(K, I) /\ SameFields(b1, b2)
        /\ (b2.stream <=> b1.stream) /\ (b2.store <=> b1.store)
        /\ b2.caps = b1.caps /\ b2.instructions = b1.instructions
        /\ b2.input = v2 /\ b2.tools = b1.tools /\ b2.include = b1.include
    BY <1>1, <1>3, <1>4, InputSet
  <1> DEFINE v3 == InputOf(body.input)
  <1>6. v3 \in Values(K)
    BY <1>2, InputOfTyped
  <1> HIDE DEF b2
  <1>7. b3 = [b2 EXCEPT !.input = v3]
    <2>1. b3 = [b2 EXCEPT !.input = [b2.input EXCEPT !.of = Filtered(b2.input.of)]]
      BY <1>5 DEF StripReasoningItems, BodiesWith
    <2>2. [v2 EXCEPT !.of = Filtered(v2.of)] = [is |-> v2.is, of |-> Filtered(v2.of)]
      <3>1. v2 = [is |-> v2.is, of |-> v2.of]
        BY <1>3, ValueFields
      <3> QED
        BY <3>1
    <2> QED
      BY <1>3, <1>5, <2>1, <2>2 DEF InputOf
  <1> HIDE DEF v3, b3
  <1>8. /\ b3 \in BodiesWith(K, I) /\ SameFields(b2, b3)
        /\ (b3.stream <=> b2.stream) /\ (b3.store <=> b2.store)
        /\ b3.caps = b2.caps /\ b3.instructions = b2.instructions
        /\ b3.input = v3 /\ b3.tools = b2.tools /\ b3.include = b2.include
    BY <1>5, <1>6, <1>7, InputSet
  <1> DEFINE v4 == ToolsOf(body.tools)
  <1>9. v4 \in Values(Tools)
    BY <1>2, ToolsOfTyped
  <1>10. b4 = [b3 EXCEPT !.tools = v4]
    <2> DEFINE of == [i \in DOMAIN b3.tools.of |-> Renamed(b3.tools.of[i])]
    <2>1. b4 = [b3 EXCEPT !.tools = [b3.tools EXCEPT !.of = of]]
      BY <1>8 DEF RenameTools, BodiesWith
    <2>2. b3.tools = body.tools
      BY <1>1, <1>5, <1>8
    <2>3. b3.tools = [is |-> b3.tools.is, of |-> b3.tools.of]
      BY <1>2, <2>2, ValueFields
    <2> HIDE DEF of
    <2>4. [b3.tools EXCEPT !.of = of] = [is |-> b3.tools.is, of |-> of]
      BY <2>3
    <2> QED
      BY <2>1, <2>2, <2>4 DEF ToolsOf, of
  <1> HIDE DEF v4, b4
  <1>11. /\ b4 \in BodiesWith(K, I) /\ SameFields(b3, b4)
         /\ (b4.stream <=> b3.stream) /\ (b4.store <=> b3.store)
         /\ b4.caps = b3.caps /\ b4.instructions = b3.instructions
         /\ b4.input = b3.input /\ b4.tools = v4 /\ b4.include = b3.include
    BY <1>8, <1>9, <1>10, ToolsSet
  <1> DEFINE v5 == IncludeOf(body.include)
  <1>12. v5 \in Values(Includes)
    BY <1>2, IncludeOfTyped
  <1>13. b5 = [b4 EXCEPT !.include = v5]
    <2>1. b4.include = body.include
      BY <1>1, <1>5, <1>8, <1>11
    <2>2. b4 = [b4 EXCEPT !.include = b4.include]
      BY <1>11 DEF BodiesWith
    <2>3. [b4 EXCEPT !.include = Array(Append(@.of, "encrypted"))]
            = [b4 EXCEPT !.include = Array(Append(b4.include.of, "encrypted"))]
      BY <1>11 DEF BodiesWith
    <2> QED
      BY <2>1, <2>2, <2>3
      DEF IncludeEncryptedReasoning, IncludeOf, Includes1
  <1> HIDE DEF v5, b5
  <1>14. /\ b5 \in BodiesWith(K, I) /\ SameFields(b4, b5)
         /\ (b5.stream <=> b4.stream) /\ (b5.store <=> b4.store)
         /\ b5.caps = b4.caps /\ b5.instructions = b4.instructions
         /\ b5.input = b4.input /\ b5.tools = b4.tools /\ b5.include = v5
    BY <1>11, <1>12, <1>13, IncludeSet
  <1>15. Prepared(body) = b5
    BY DEF Prepared, b1, b2, b3, b4, b5
  <1>16. SameFields(body, b5)
    BY <1>1, <1>5, <1>8, <1>11, <1>14 DEF SameFields
  <1> QED
    BY <1>1, <1>5, <1>8, <1>11, <1>14, <1>15, <1>16 DEF v3, v4, v5

-----------------------------------------------------------------------------
(* What PatchPayload makes of a client's body.                             *)

ClientItems == ItemsOf(Types)
SentItems == ItemsOf(Types \cup {"text"})
AnyItems == ItemsOf(Types \cup {"text", "developer", "additional_tools"})

LEMMA KindsGrow ==
  ASSUME NEW K, NEW K2, K \subseteq K2, NEW I, NEW I2, I \subseteq I2
  PROVE  /\ Seq(K) \subseteq Seq(K2) /\ Values(K) \subseteq Values(K2)
         /\ BodiesWith(K, I) \subseteq BodiesWith(K2, I2)
  <1>1. Seq(K) \subseteq Seq(K2)
    OBVIOUS
  <1>2. Values(K) \subseteq Values(K2)
    BY <1>1 DEF Values
  <1> QED
    BY <1>1, <1>2 DEF BodiesWith

LEMMA ItemKinds ==
  /\ ClientItems \subseteq SentItems /\ SentItems \subseteq AnyItems
  /\ Item("text") \in SentItems
  <1>1. <<>> \in Seq(Tools \cup {"own", "default"})
    OBVIOUS
  <1> QED
    BY <1>1 DEF ClientItems, SentItems, AnyItems, ItemsOf, Item

LEMMA ClientBody ==
  ASSUME NEW body \in Bodies
  PROVE  body \in BodiesWith(SentItems, {"none", "own", "default"})
  <1> DEFINE given == {"none", "own"}
             known == {"none", "own", "default"}
  <1>1. given \subseteq known
    OBVIOUS
  <1>2. body \in BodiesWith(ClientItems, given)
    BY BodiesAssumption DEF ClientItems
  <1> HIDE DEF given, known
  <1>3. BodiesWith(ClientItems, given) \subseteq BodiesWith(SentItems, known)
    BY <1>1, KindsGrow, ItemKinds
  <1> USE DEF known
  <1> QED
    BY <1>2, <1>3

\* What is told to a Lite model, before the client's items.
Telling(body) ==
    <<[type |-> "additional_tools", holds |-> ToolsOf(body.tools).of],
      [type |-> "developer",
       holds |-> <<IF body.instructions = "own" THEN "own" ELSE "default">>]>>

LEMMA TellingTyped ==
  ASSUME NEW body \in Bodies
  PROVE  /\ Telling(body) \in Seq(AnyItems) /\ Len(Telling(body)) = 2
         /\ Telling(body)[1] = [type |-> "additional_tools",
                                holds |-> ToolsOf(body.tools).of]
         /\ Telling(body)[2] =
              [type |-> "developer",
               holds |-> <<IF body.instructions = "own" THEN "own" ELSE "default">>]
         /\ Telling(body)[1].type = "additional_tools"
         /\ Telling(body)[2].type = "developer"
  <1> DEFINE tools == ToolsOf(body.tools).of
             said == IF body.instructions = "own" THEN "own" ELSE "default"
             first == [type |-> "additional_tools", holds |-> tools]
             second == [type |-> "developer", holds |-> <<said>>]
  <1>1. tools \in Seq(Tools)
    <2>1. body.tools \in Values(Tools)
      BY ClientBody DEF BodiesWith
    <2> QED
      BY <2>1, ToolsOfTyped, ValueFields
  <1>2. said \in Tools \cup {"own", "default"}
    OBVIOUS
  <1> HIDE DEF tools, said
  <1>3. tools \in Seq(Tools \cup {"own", "default"})
        /\ <<said>> \in Seq(Tools \cup {"own", "default"})
    BY <1>1, <1>2
  <1>4. first \in AnyItems /\ second \in AnyItems
    BY <1>3 DEF AnyItems, ItemsOf
  <1> HIDE DEF first, second
  <1>5. Telling(body) = <<first, second>>
    BY DEF Telling, first, second, tools, said
  <1>6. first.type = "additional_tools" /\ second.type = "developer"
    BY DEF first, second
  <1>7. /\ <<first, second>> \in Seq(AnyItems) /\ Len(<<first, second>>) = 2
        /\ <<first, second>>[1] = first /\ <<first, second>>[2] = second
    BY <1>4
  <1> QED
    BY <1>5, <1>6, <1>7 DEF first, second, tools, said

\* The fields that a second proxy finds as the first one set them.
LiteFields(body) ==
    /\ body.model = "lite" /\ body.parallel # "absent"
    /\ body.choice \in {"none", "required", "auto"}
    /\ body.reasoning.is = "object" /\ body.reasoning.context = "all_turns"

\* An ordinary model gets the body as it is prepared, a Lite one with its tools
\* and instructions in input.
LEMMA PatchedBody ==
  ASSUME NEW body \in Bodies
  PROVE  LET new == Patched(body) IN
         /\ new.stream /\ ~new.store /\ new.caps = {}
         /\ new.include = IncludeOf(body.include)
         /\ body.model # "lite" =>
              /\ new = Prepared(body)
              /\ new \in BodiesWith(SentItems, {"own", "default"})
              /\ new.instructions = IF body.instructions = "own" THEN "own"
                                                                 ELSE "default"
              /\ new.input = InputOf(body.input)
              /\ new.tools = ToolsOf(body.tools)
         /\ body.model = "lite" =>
              /\ new \in BodiesWith(AnyItems, {"none"})
              /\ new.instructions = "none" /\ new.tools = Absent
              /\ new.input = Array(Telling(body) \o Filtered(AsItems(body.input)))
              /\ LiteFields(new)
  <1> DEFINE ready == Prepared(body)
  <1>1. body \in BodiesWith(SentItems, {"none", "own", "default"})
        /\ body.instructions \in {"none", "own"}
    <2>1. body \in BodiesWith(ClientItems, {"none", "own"})
      BY BodiesAssumption DEF ClientItems
    <2> QED
      BY <2>1, ClientBody DEF BodiesWith
  <1>2. /\ ready \in BodiesWith(SentItems, {"none", "own", "default"})
        /\ ready.stream /\ ~ready.store /\ ready.caps = {}
        /\ ready.instructions = IF body.instructions = "own" THEN "own" ELSE "default"
        /\ ready.input = InputOf(body.input)
        /\ ready.tools = ToolsOf(body.tools)
        /\ ready.include = IncludeOf(body.include)
    BY <1>1, PreparedBody, ItemKinds
  <1>3. CASE body.model # "lite"
    <2>1. Patched(body) = ready
      BY <1>3 DEF Patched
    <2>2. ready \in BodiesWith(SentItems, {"own", "default"})
      BY <1>2 DEF BodiesWith
    <2> HIDE DEF ready
    <2> QED
      BY <1>2, <1>3, <2>1, <2>2 DEF ready
  <1>4. CASE body.model = "lite"
    <2> DEFINE input == Telling(body) \o Filtered(AsItems(body.input))
               parallel == IF ready.parallel = "absent" THEN "false" ELSE ready.parallel
               choice == IF ready.choice \in {"none", "required"} THEN ready.choice
                                                                  ELSE "auto"
               reasoning == [is |-> "object", context |-> "all_turns",
                             effort |-> ready.reasoning.effort]
               new == [ready EXCEPT !.input = Array(input), !.tools = Absent,
                                    !.instructions = "none", !.parallel = parallel,
                                    !.choice = choice, !.reasoning = reasoning]
    <2>1. LitePrefix(ready) = Telling(body)
      <3>1. ready.instructions # "none"
        BY <1>2
      <3>2. LitePrefix(ready)
              = <<[type |-> "additional_tools", holds |-> ready.tools.of]>>
                \o <<[type |-> "developer", holds |-> <<ready.instructions>>]>>
        BY <3>1 DEF LitePrefix
      <3> DEFINE first == [type |-> "additional_tools", holds |-> ready.tools.of]
                 second == [type |-> "developer", holds |-> <<ready.instructions>>]
      <3>3. Telling(body) = <<first, second>>
        BY <1>2 DEF Telling
      <3>4. LitePrefix(ready) = <<first>> \o <<second>>
        BY <3>2
      <3> HIDE DEF ready, first, second
      <3>5. <<first>> \o <<second>> = <<first, second>>
        <4> DEFINE both == <<first>> \o <<second>>
        <4>1. Len(<<first>>) = 1 /\ Len(<<second>>) = 1
              /\ <<first>>[1] = first /\ <<second>>[1] = second
              /\ <<first>> \in Seq({first, second})
              /\ <<second>> \in Seq({first, second})
          OBVIOUS
        <4>2. both \in Seq({first, second}) /\ Len(both) = 2
              /\ both[1] = first /\ both[2] = second
          BY <4>1
        <4> HIDE DEF both
        <4>3. both = <<first, second>>
          BY <4>2
        <4> QED
          BY <4>3 DEF both
      <3> QED
        BY <3>3, <3>4, <3>5
    <2>2. ready.input.of = Filtered(AsItems(body.input))
      BY <1>2 DEF InputOf
    <2> HIDE DEF ready
    <2>3. Patched(body) = new
      BY <1>2, <1>4, <2>1, <2>2 DEF Patched, ready, ApplyResponsesLite, BodiesWith
    <2>4. Filtered(AsItems(body.input)) \in Seq(AnyItems)
      <3>1. body.input \in Values(SentItems)
        BY <1>1 DEF BodiesWith
      <3>2. Filtered(AsItems(body.input)) \in Seq(SentItems)
        BY <3>1, InputOfTyped, ItemKinds, FilteredKeeps
      <3> QED
        BY <3>2, KindsGrow, ItemKinds
    <2>5. input \in Seq(AnyItems)
      <3> DEFINE told == Telling(body)
                 kept == Filtered(AsItems(body.input))
      <3>1. told \in Seq(AnyItems) /\ kept \in Seq(AnyItems)
        BY <2>4, TellingTyped
      <3> HIDE DEF told, kept
      <3>2. told \o kept \in Seq(AnyItems)
        BY <3>1
      <3> QED
        BY <3>2 DEF told, kept
    <2>6. Array(input) \in Values(AnyItems) /\ Absent \in Values(Tools)
      BY <2>5, ValueFields
    <2>7. /\ parallel \in {"absent", "true", "false", "other"}
          /\ choice \in {"absent", "none", "required", "auto", "other"}
          /\ reasoning \in [is : {"absent", "object", "other"},
                            context : {"none", "own", "all_turns"},
                            effort : {"none", "own"}]
          /\ parallel # "absent" /\ choice \in {"none", "required", "auto"}
          /\ reasoning.is = "object" /\ reasoning.context = "all_turns"
      <3>1. /\ ready.parallel \in {"absent", "true", "false", "other"}
            /\ ready.choice \in {"absent", "none", "required", "auto", "other"}
            /\ ready.reasoning.effort \in {"none", "own"}
        BY <1>2 DEF BodiesWith
      <3> HIDE DEF ready
      <3> QED
        BY <3>1
    <2>8. "none" \in {"none"}
      OBVIOUS
    <2> HIDE DEF input, parallel, choice, reasoning
    <2>9. new \in BodiesWith(AnyItems, {"none"})
      BY <1>2, <2>6, <2>7, ZenonT(60) DEF BodiesWith
    <2>10. /\ (new.stream <=> ready.stream) /\ (new.store <=> ready.store)
           /\ new.caps = ready.caps /\ new.include = ready.include
           /\ new.instructions = "none" /\ new.tools = Absent
           /\ new.input = Array(input)
      BY <1>2 DEF BodiesWith
    <2>11. LiteFields(new)
      <3>1. SameFields(body, ready)
        BY <1>1, PreparedBody, ItemKinds DEF ready
      <3>2. new.model = "lite" /\ new.parallel = parallel
            /\ new.choice = choice /\ new.reasoning = reasoning
        BY <1>2, <1>4, <3>1 DEF BodiesWith, SameFields
      <3> QED
        BY <2>7, <3>2 DEF LiteFields
    <2> HIDE DEF new
    <2> QED
      BY <1>2, <1>4, <2>3, <2>9, <2>10, <2>11 DEF input
  <1> QED
    BY <1>3, <1>4

-----------------------------------------------------------------------------
\* The payload is the client's until it is patched, and what PatchPayload makes
\* of it then.
Inv ==
    /\ raw \in Bodies
    /\ place \in {"received", "patched", "rejected"}
    /\ IF place = "patched" THEN payload = Patched(raw) /\ metadata = MetadataOf(raw)
                            ELSE payload = raw /\ metadata = NoMetadata

LEMMA AlwaysInv == Spec => []Inv
  <1>1. Init => Inv
    BY DEF Init, Inv
  <1>2. Inv /\ [Next]_vars => Inv'
    BY DEF Inv, Next, Patch, Reject, vars
  <1> QED
    BY <1>1, <1>2, PTL DEF Spec

\* What is sent has the types of a body, for inputs and lists of any length.
THEOREM PayloadTyped == Spec => []TypeOK
  <1>1. ASSUME Inv PROVE TypeOK
    <2>1. raw \in BodiesWith(SentItems, {"none", "own", "default"})
      BY <1>1, ClientBody DEF Inv
    <2>2. payload \in BodiesWith(AnyItems, {"none", "own", "default"})
      <3>1. BodiesWith(SentItems, {"none", "own", "default"})
              \subseteq BodiesWith(AnyItems, {"none", "own", "default"})
        BY KindsGrow, ItemKinds
      <3>2. /\ BodiesWith(SentItems, {"own", "default"})
                 \subseteq BodiesWith(AnyItems, {"none", "own", "default"})
            /\ BodiesWith(AnyItems, {"none"})
                 \subseteq BodiesWith(AnyItems, {"none", "own", "default"})
        <4> DEFINE full == {"own", "default"}
                   none == {"none"}
                   known == {"none", "own", "default"}
        <4>1. full \subseteq known /\ none \subseteq known
          OBVIOUS
        <4> HIDE DEF full, none, known
        <4>2. /\ BodiesWith(SentItems, full) \subseteq BodiesWith(AnyItems, known)
              /\ BodiesWith(AnyItems, none) \subseteq BodiesWith(AnyItems, known)
          BY <4>1, KindsGrow, ItemKinds
        <4> QED
          BY <4>2 DEF full, none, known
      <3>3. \/ payload \in BodiesWith(SentItems, {"none", "own", "default"})
            \/ payload \in BodiesWith(SentItems, {"own", "default"})
            \/ payload \in BodiesWith(AnyItems, {"none"})
        BY <1>1, <2>1, PatchedBody DEF Inv
      <3> QED
        BY <3>1, <3>2, <3>3
    <2>3. metadata.stream \in BOOLEAN /\ metadata.lite \in BOOLEAN
      <3>1. raw.stream \in BOOLEAN
        BY <2>1 DEF BodiesWith
      <3>2. CASE place = "patched"
        <4>1. metadata = [model |-> raw.model, stream |-> raw.stream,
                          lite |-> raw.model = "lite"]
          BY <1>1, <3>2 DEF Inv, MetadataOf
        <4> QED
          BY <3>1, <4>1, Zenon
      <3>3. CASE place # "patched"
        <4>1. metadata = [model |-> "none", stream |-> FALSE, lite |-> FALSE]
          BY <1>1, <3>3 DEF Inv, NoMetadata
        <4>2. metadata.stream = FALSE /\ metadata.lite = FALSE
          BY <4>1, Zenon
        <4> QED
          BY <4>2, Zenon
      <3> QED
        BY <3>2, <3>3
    <2> QED
      BY <1>1, <2>2, <2>3, Zenon DEF TypeOK, Inv, AnyItems
  <1> QED
    BY <1>1, AlwaysInv, PTL

-----------------------------------------------------------------------------
(* The input that is sent.                                                 *)

Told(body) == IF body.model = "lite" THEN 2 ELSE 0
Kept(body) == Filtered(AsItems(body.input))

LEMMA KeptItems ==
  ASSUME NEW body \in Bodies
  PROVE  /\ AsItems(body.input) \in Seq(SentItems)
         /\ Kept(body) \in Seq(SentItems) /\ Kept(body) \in Seq(AnyItems)
         /\ \A k \in 1 .. Len(Kept(body)) : NotReasoning(Kept(body)[k])
  <1>1. body.input \in Values(SentItems)
    BY ClientBody DEF BodiesWith
  <1>2. AsItems(body.input) \in Seq(SentItems)
    BY <1>1, InputOfTyped, ItemKinds
  <1>3. /\ Kept(body) \in Seq(SentItems)
        /\ \A k \in DOMAIN Kept(body) : NotReasoning(Kept(body)[k])
    BY <1>2, FilteredKeeps DEF Kept
  <1>4. Seq(SentItems) \subseteq Seq(AnyItems)
    BY KindsGrow, ItemKinds
  <1> HIDE DEF Kept
  <1>5. DOMAIN Kept(body) = 1 .. Len(Kept(body))
    BY <1>3
  <1> QED
    BY <1>2, <1>3, <1>4, <1>5

\* What the proxy tells a Lite model comes first, then what is kept.
LEMMA SentInput ==
  ASSUME NEW body \in Bodies, NEW sent, sent = Patched(body).input.of
  PROVE  /\ sent \in Seq(AnyItems) /\ Len(sent) = Told(body) + Len(Kept(body))
         /\ \A k \in 1 .. Len(Kept(body)) : sent[Told(body) + k] = Kept(body)[k]
         /\ body.model = "lite" =>
              /\ sent[1] = Telling(body)[1] /\ sent[2] = Telling(body)[2]
  <1>1. Kept(body) \in Seq(AnyItems)
    BY KeptItems
  <1>2. CASE body.model # "lite"
    <2>1. sent = Kept(body)
      <3>1. Patched(body).input = InputOf(body.input)
        BY <1>2, PatchedBody
      <3> HIDE DEF Kept
      <3>2. InputOf(body.input).of = Kept(body)
        BY DEF InputOf, Kept
      <3> QED
        BY <3>1, <3>2
    <2> HIDE DEF Kept
    <2> QED
      BY <1>1, <1>2, <2>1 DEF Told
  <1>3. CASE body.model = "lite"
    <2> DEFINE told == Telling(body)
               kept == Kept(body)
    <2>1. sent = told \o kept
      <3>1. Patched(body).input = Array(told \o kept)
        BY <1>3, PatchedBody DEF Kept
      <3> HIDE DEF told, kept
      <3>2. Array(told \o kept).of = told \o kept
        BY DEF Array
      <3> QED
        BY <3>1, <3>2
    <2>2. told \in Seq(AnyItems) /\ Len(told) = 2 /\ kept \in Seq(AnyItems)
      BY <1>1, TellingTyped
    <2> HIDE DEF told, kept
    <2>3. /\ told \o kept \in Seq(AnyItems) /\ Len(told \o kept) = 2 + Len(kept)
          /\ \A k \in 1 .. Len(kept) : (told \o kept)[2 + k] = kept[k]
          /\ (told \o kept)[1] = told[1] /\ (told \o kept)[2] = told[2]
      <3>1. /\ told \o kept \in Seq(AnyItems)
            /\ Len(told \o kept) = 2 + Len(kept)
            /\ \A i \in 1 .. 2 + Len(kept) :
                 (told \o kept)[i] = IF i <= 2 THEN told[i] ELSE kept[i - 2]
        <4>1. /\ told \o kept \in Seq(AnyItems)
              /\ Len(told \o kept) = Len(told) + Len(kept)
              /\ \A i \in 1 .. Len(told) + Len(kept) :
                   (told \o kept)[i] = IF i <= Len(told) THEN told[i]
                                                       ELSE kept[i - Len(told)]
          BY <2>2, ConcatProperties, Zenon
        <4> DEFINE both == told \o kept
        <4> HIDE DEF both
        <4> QED
          BY <2>2, <4>1 DEF both
      <3>2. Len(kept) \in Nat
        BY <2>2
      <3> DEFINE both == told \o kept
      <3> HIDE DEF both
      <3>3. \A k \in 1 .. Len(kept) : both[2 + k] = kept[k]
        <4> TAKE k \in 1 .. Len(kept)
        <4>1. 2 + k \in 1 .. 2 + Len(kept) /\ ~(2 + k <= 2) /\ (2 + k) - 2 = k
          BY <3>2
        <4> QED
          BY <3>1, <4>1 DEF both
      <3>4. both[1] = told[1] /\ both[2] = told[2]
        <4>1. 1 \in 1 .. 2 + Len(kept) /\ 2 \in 1 .. 2 + Len(kept)
          BY <3>2
        <4> QED
          BY <3>1, <4>1 DEF both
      <3> QED
        BY <3>1, <3>3, <3>4 DEF both
    <2> QED
      BY <1>3, <2>1, <2>3 DEF Told, told, kept
  <1> QED
    BY <1>2, <1>3

\* After it is patched, the payload is what PatchPayload makes of raw.
LEMMA WhenPatched ==
  ASSUME Inv, IsPatched
  PROVE  /\ raw \in Bodies /\ payload = Patched(raw)
         /\ metadata.model = raw.model /\ (metadata.lite <=> raw.model = "lite")
         /\ (metadata.stream <=> raw.stream) /\ metadata.stream = raw.stream
  <1>1. raw \in Bodies /\ payload = Patched(raw) /\ metadata = MetadataOf(raw)
    BY DEF Inv, IsPatched
  <1>2. /\ metadata.model = raw.model /\ metadata.stream = raw.stream
        /\ metadata.lite = (raw.model = "lite")
    BY <1>1, Zenon DEF MetadataOf
  <1> QED
    BY <1>1, <1>2, Zenon

\* As many items are kept as pass, each where its rank says.
LEMMA PassedItems ==
  ASSUME raw \in Bodies
  PROVE  /\ Len(Kept(raw)) = Cardinality(Passed) /\ Len(Kept(raw)) \in Nat
         /\ \A i \in Passed :
              LET rank == Cardinality({j \in Passed : j <= i})
              IN  rank \in 1 .. Len(Kept(raw)) /\ Kept(raw)[rank] = Given[i]
  <1>1. Given = AsItems(raw.input) /\ Given \in Seq(SentItems)
        /\ Kept(raw) = Filtered(Given)
    BY KeptItems DEF Given, AsItems, Kept
  <1>2. Passed = PassedOf(Given, Len(Given))
    BY <1>1 DEF Passed, PassedOf
  <1>3. /\ Len(Kept(raw)) = Cardinality(Passed) /\ Len(Kept(raw)) \in Nat
        /\ \A i \in Passed : Kept(raw)[Cardinality(PassedOf(Given, i))] = Given[i]
    <2>1. Len(Kept(raw)) \in Nat
      BY KeptItems
    <2> QED
      BY <1>1, <1>2, <2>1, FilteredPlaces
  <1>4. ASSUME NEW i \in Passed
        PROVE  /\ {j \in Passed : j <= i} = PassedOf(Given, i)
               /\ Cardinality(PassedOf(Given, i)) \in 1 .. Len(Kept(raw))
    <2>1. Len(Given) \in Nat
      BY <1>1
    <2>2. i \in 1 .. Len(Given) /\ i \in Nat
      BY <1>2, <2>1 DEF PassedOf
    <2>3. {j \in Passed : j <= i} = PassedOf(Given, i)
      BY <1>2, <2>1, <2>2 DEF PassedOf
    <2>4. Cardinality(PassedOf(Given, i))
            \in 1 .. Cardinality(PassedOf(Given, Len(Given)))
      BY <1>2, <2>1, PassedOfOneMore
    <2> QED
      BY <1>2, <1>3, <2>3, <2>4
  <1> QED
    BY <1>3, <1>4

\* The client's items reach upstream in their order, all but reasoning, however
\* many there are and whatever their types.
THEOREM ClientHeard == Spec => []ClientIsHeard
  <1>1. ASSUME Inv PROVE ClientIsHeard
    <2> DEFINE sent == payload.input.of
               before == IF metadata.lite THEN 2 ELSE 0
               kept == Kept(raw)
    <2> SUFFICES ASSUME IsPatched, raw.input.is \in {"array", "string"}
                 PROVE  /\ payload.input.is = "array"
                        /\ Len(sent) = before + Cardinality(Passed)
                        /\ \A i \in Passed :
                             sent[before + Cardinality({j \in Passed : j <= i})]
                               = Given[i]
                        /\ metadata.stream = raw.stream /\ payload.stream
      BY Zenon DEF ClientIsHeard
    <2>1. /\ raw \in Bodies /\ payload = Patched(raw)
          /\ metadata.stream = raw.stream
          /\ metadata.lite <=> raw.model = "lite"
      BY <1>1, WhenPatched, Zenon
    <2>2. /\ Len(kept) = Cardinality(Passed)
          /\ \A i \in Passed :
               LET rank == Cardinality({j \in Passed : j <= i})
               IN  rank \in 1 .. Len(kept) /\ kept[rank] = Given[i]
      BY <2>1, PassedItems
    <2> HIDE DEF kept
    <2>3. /\ Len(sent) = Told(raw) + Len(kept)
          /\ \A k \in 1 .. Len(kept) : sent[Told(raw) + k] = kept[k]
      BY <2>1, SentInput DEF kept
    <2>4. before = Told(raw)
      BY <2>1 DEF Told
    <2>5. payload.input.is = "array"
      <3>1. \/ payload.input = InputOf(raw.input)
            \/ payload.input
                 = Array(Telling(raw) \o Filtered(AsItems(raw.input)))
        BY <2>1, PatchedBody
      <3>2. InputOf(raw.input).is = "array"
        BY DEF InputOf
      <3>3. \A of : Array(of).is = "array"
        BY DEF Array
      <3> QED
        BY <3>1, <3>2, <3>3
    <2>6. payload.stream
      BY <2>1, PatchedBody
    <2> HIDE DEF sent, before
    <2>7. \A i \in Passed :
            sent[before + Cardinality({j \in Passed : j <= i})] = Given[i]
      BY <2>2, <2>3, <2>4
    <2> QED
      BY <2>1, <2>2, <2>3, <2>4, <2>5, <2>6, <2>7, Zenon
  <1> QED
    BY <1>1, AlwaysInv, PTL

\* The proxy tells upstream once what to do and with which tools, and adds
\* nothing else to what the client said, whatever the client's items are.
THEOREM NothingElseAdded == Spec => []AddedOnce
  <1>1. ASSUME Inv PROVE AddedOnce
    <2> DEFINE instructions == IF raw.instructions = "own" THEN "own" ELSE "default"
               tools == [i \in DOMAIN raw.tools.of |-> Renamed(raw.tools.of[i])]
               sent == payload.input.of
    <2> SUFFICES ASSUME IsPatched
                 PROVE  IF metadata.lite
                          THEN /\ payload.instructions = "none"
                               /\ payload.tools = Absent
                               /\ Len(sent) = 2 + Cardinality(Passed)
                               /\ sent[1] = [type |-> "additional_tools",
                                             holds |-> tools]
                               /\ sent[2] = [type |-> "developer",
                                             holds |-> <<instructions>>]
                          ELSE /\ payload.instructions = instructions
                               /\ payload.tools = [raw.tools EXCEPT !.of = tools]
                               /\ Len(sent) = Cardinality(Passed)
      BY Zenon DEF AddedOnce
    <2>1. /\ raw \in Bodies /\ payload = Patched(raw)
          /\ metadata.lite <=> raw.model = "lite"
      BY <1>1, WhenPatched
    <2>2. raw.tools \in Values(Tools)
      BY <2>1, ClientBody DEF BodiesWith
    <2>3. /\ ToolsOf(raw.tools).of = tools
          /\ ToolsOf(raw.tools) = [raw.tools EXCEPT !.of = tools]
      <3>1. raw.tools = [is |-> raw.tools.is, of |-> raw.tools.of]
        BY <2>2, ValueFields
      <3>2. ToolsOf(raw.tools) = [is |-> raw.tools.is, of |-> tools]
        BY DEF ToolsOf
      <3> HIDE DEF tools
      <3> QED
        BY <3>1, <3>2
    <2>4. /\ Len(sent) = Told(raw) + Cardinality(Passed)
          /\ Cardinality(Passed) \in Nat
          /\ raw.model = "lite" =>
               sent[1] = Telling(raw)[1] /\ sent[2] = Telling(raw)[2]
      BY <2>1, SentInput, PassedItems
    <2> HIDE DEF sent, tools, instructions
    <2>5. CASE raw.model = "lite"
      <3>1. payload.instructions = "none" /\ payload.tools = Absent
        BY <2>1, <2>5, PatchedBody
      <3>2. /\ sent[1] = [type |-> "additional_tools", holds |-> tools]
            /\ sent[2] = [type |-> "developer", holds |-> <<instructions>>]
        BY <2>1, <2>3, <2>4, <2>5, TellingTyped DEF instructions
      <3>3. Len(sent) = 2 + Cardinality(Passed)
        BY <2>4, <2>5 DEF Told
      <3> QED
        BY <2>1, <2>5, <3>1, <3>2, <3>3
    <2>6. CASE raw.model # "lite"
      <3>1. payload.instructions = instructions
            /\ payload.tools = ToolsOf(raw.tools)
        BY <2>1, <2>6, PatchedBody DEF instructions
      <3>2. Len(sent) = Cardinality(Passed)
        BY <2>4, <2>6 DEF Told
      <3> QED
        BY <2>1, <2>3, <2>6, <3>1, <3>2
    <2> QED
      BY <2>5, <2>6
  <1> QED
    BY <1>1, AlwaysInv, PTL

-----------------------------------------------------------------------------
(* What is patched again.                                                  *)

\* A body is its fields.
LEMMA BodyIsItsFields ==
  ASSUME NEW K, NEW I, NEW a \in BodiesWith(K, I), NEW b \in BodiesWith(K, I),
         SameFields(a, b), a.stream, b.stream, ~a.store, ~b.store,
         a.caps = b.caps, a.instructions = b.instructions, a.input = b.input,
         a.tools = b.tools, a.include = b.include
  PROVE  a = b
  BY DEF BodiesWith, SameFields

LEMMA InputOfAgain ==
  ASSUME NEW K, Item("text") \in K, NEW value \in Values(K)
  PROVE  InputOf(InputOf(value)) = InputOf(value)
  <1> DEFINE of == Filtered(AsItems(value))
             is == IF value.is = "string" THEN "array" ELSE value.is
  <1>1. of \in Seq(K) /\ \A k \in DOMAIN of : NotReasoning(of[k])
    BY InputOfTyped, FilteredKeeps
  <1>2. Filtered(of) = of
    BY <1>1, FilteredKeeps
  <1> HIDE DEF of
  <1>3. InputOf(value) = [is |-> is, of |-> of]
    BY DEF InputOf, of
  <1>4. is # "string"
    OBVIOUS
  <1> HIDE DEF is
  <1> QED
    BY <1>2, <1>3, <1>4 DEF InputOf, AsItems

LEMMA PatchedAgain ==
  ASSUME NEW body \in Bodies, body.model # "lite"
  PROVE  Patched(Patched(body)) = Patched(body)
  <1> DEFINE K == SentItems
             I == {"own", "default"}
             new == Patched(body)
             again == Prepared(new)
  <1>1. /\ body \in BodiesWith(K, {"none", "own", "default"})
        /\ Item("text") \in K /\ "default" \in I /\ "none" \notin I
    BY ClientBody, ItemKinds
  <1>2. /\ new = Prepared(body) /\ new \in BodiesWith(K, I)
        /\ new.stream /\ ~new.store /\ new.caps = {}
        /\ new.input = InputOf(body.input) /\ new.tools = ToolsOf(body.tools)
        /\ new.include = IncludeOf(body.include)
    BY PatchedBody
  <1>3. SameFields(body, new)
    <2>1. "default" \in {"none", "own", "default"}
      OBVIOUS
    <2>2. SameFields(body, Prepared(body))
      BY <1>1, <2>1, PreparedBody
    <2> QED
      BY <1>2, <2>2
  <1>4. new.model # "lite"
    BY <1>3 DEF SameFields
  <1>5. Patched(new) = again
    BY <1>4 DEF Patched
  <1> HIDE DEF new, K, I
  <1>6. /\ again \in BodiesWith(K, I) /\ SameFields(new, again)
        /\ again.stream /\ ~again.store /\ again.caps = {}
        /\ again.instructions = IF new.instructions = "none" THEN "default"
                                                      ELSE new.instructions
        /\ again.input = InputOf(new.input) /\ again.tools = ToolsOf(new.tools)
        /\ again.include = IncludeOf(new.include)
    BY <1>1, <1>2, PreparedBody
  <1> HIDE DEF again
  <1>7. again.instructions = new.instructions
    <2>1. new.instructions \in I
      BY <1>2 DEF BodiesWith
    <2> QED
      BY <1>1, <1>6, <2>1
  <1>8. /\ body.input \in Values(K) /\ body.tools \in Values(Tools)
        /\ body.include \in Values(Includes)
    BY <1>1 DEF BodiesWith
  <1>9. again.input = new.input
    BY <1>1, <1>2, <1>6, <1>8, InputOfAgain
  <1>10. again.tools = new.tools
    BY <1>2, <1>6, <1>8, ToolsOfTyped
  <1>11. again.include = new.include
    <2>1. Includes1(new.include)
      BY <1>2, <1>8, IncludeOfTyped
    <2> QED
      BY <1>6, <2>1 DEF IncludeOf
  <1>12. new = again
    BY <1>2, <1>6, <1>7, <1>9, <1>10, <1>11, BodyIsItsFields
  <1> QED
    BY <1>5, <1>12 DEF new

\* The items that are sent pass a second time.
LEMMA SentPassAgain ==
  ASSUME NEW body \in Bodies, NEW sent, sent = Patched(body).input.of
  PROVE  Filtered(sent) = sent
  <1>1. /\ sent \in Seq(AnyItems) /\ Len(sent) = Told(body) + Len(Kept(body))
        /\ \A k \in 1 .. Len(Kept(body)) : sent[Told(body) + k] = Kept(body)[k]
        /\ body.model = "lite" =>
             sent[1] = Telling(body)[1] /\ sent[2] = Telling(body)[2]
    BY SentInput
  <1>2. /\ Len(Kept(body)) \in Nat
        /\ \A k \in 1 .. Len(Kept(body)) : NotReasoning(Kept(body)[k])
    BY KeptItems
  <1>3. ASSUME NEW j \in DOMAIN sent PROVE NotReasoning(sent[j])
    <2>1. j \in 1 .. (Told(body) + Len(Kept(body)))
          /\ Told(body) = IF body.model = "lite" THEN 2 ELSE 0
      BY <1>1, <1>2 DEF Told
    <2>2. CASE j > Told(body)
      <3>1. j - Told(body) \in 1 .. Len(Kept(body))
            /\ j = Told(body) + (j - Told(body))
        BY <1>2, <2>1, <2>2
      <3> QED
        BY <1>1, <1>2, <3>1
    <2>3. CASE j <= Told(body)
      <3>1. body.model = "lite" /\ j \in {1, 2}
        BY <1>2, <2>1, <2>3
      <3>2. sent[1].type = "additional_tools" /\ sent[2].type = "developer"
        BY <1>1, <3>1, TellingTyped
      <3> QED
        BY <3>1, <3>2 DEF NotReasoning
    <2> QED
      BY <2>1, <2>2, <2>3
  <1> QED
    BY <1>1, <1>3, FilteredKeeps

\* What a second proxy makes of a Lite body before its tools and instructions
\* are put into input: it is given instructions, and that is all.
LEMMA LitePreparedAgain ==
  ASSUME NEW body \in Bodies, body.model = "lite",
         NEW new, new = Patched(body), NEW ready, ready = Prepared(new)
  PROVE  /\ new \in BodiesWith(AnyItems, {"none", "own", "default"})
         /\ ready = [new EXCEPT !.instructions = "default"]
  <1> DEFINE known == {"none", "own", "default"}
             told == [new EXCEPT !.instructions = "default"]
  <1>1. /\ new \in BodiesWith(AnyItems, {"none"})
        /\ new.stream /\ ~new.store /\ new.caps = {}
        /\ new.instructions = "none" /\ new.tools = Absent
        /\ new.input.is = "array" /\ Includes1(new.include)
    <2>1. body.include \in Values(Includes)
      BY ClientBody DEF BodiesWith
    <2>2. Includes1(IncludeOf(body.include))
      BY <2>1, IncludeOfTyped
    <2>3. new.input = Array(Telling(body) \o Filtered(AsItems(body.input)))
      BY PatchedBody
    <2>4. new.input.is = "array"
      <3>1. \A of : Array(of).is = "array"
        BY DEF Array
      <3> QED
        BY <2>3, <3>1
    <2>5. /\ new \in BodiesWith(AnyItems, {"none"})
          /\ new.stream /\ ~new.store /\ new.caps = {}
          /\ new.instructions = "none" /\ new.tools = Absent
          /\ new.include = IncludeOf(body.include)
      BY PatchedBody
    <2> QED
      BY <2>2, <2>4, <2>5
  <1>2. new \in BodiesWith(AnyItems, known)
    <2> DEFINE none == {"none"}
    <2>1. none \subseteq known
      OBVIOUS
    <2> HIDE DEF none, known
    <2>2. BodiesWith(AnyItems, none) \subseteq BodiesWith(AnyItems, known)
      BY <2>1, KindsGrow
    <2> QED
      BY <1>1, <2>2 DEF none
  <1>3. Item("text") \in AnyItems /\ "default" \in known
    BY ItemKinds
  <1> HIDE DEF known
  <1>4. /\ ready \in BodiesWith(AnyItems, known) /\ SameFields(new, ready)
        /\ ready.stream /\ ~ready.store /\ ready.caps = {}
        /\ ready.instructions = "default"
        /\ ready.input = InputOf(new.input) /\ ready.tools = ToolsOf(new.tools)
        /\ ready.include = IncludeOf(new.include)
    BY <1>1, <1>2, <1>3, PreparedBody
  <1>5. InputOf(new.input) = new.input
    <2>1. new.input = [is |-> new.input.is, of |-> new.input.of]
      BY <1>1, ValueFields DEF BodiesWith
    <2>2. Filtered(new.input.of) = new.input.of
      BY SentPassAgain
    <2> QED
      BY <1>1, <2>1, <2>2 DEF InputOf, AsItems
  <1>6. ToolsOf(new.tools) = new.tools
    <2>1. [i \in DOMAIN Absent.of |-> Renamed(Absent.of[i])] = <<>>
      BY DEF Absent
    <2> QED
      BY <1>1, <2>1 DEF ToolsOf, Absent
  <1>7. IncludeOf(new.include) = new.include
    BY <1>1 DEF IncludeOf
  <1>8. /\ told \in BodiesWith(AnyItems, known) /\ SameFields(told, new)
        /\ (told.stream <=> new.stream) /\ (told.store <=> new.store)
        /\ told.caps = new.caps /\ told.instructions = "default"
        /\ told.input = new.input /\ told.tools = new.tools
        /\ told.include = new.include
    BY <1>2, <1>3 DEF BodiesWith, SameFields
  <1>9. SameFields(told, ready)
    BY <1>4, <1>8 DEF SameFields
  <1> HIDE DEF told
  <1>10. told = ready
    BY <1>1, <1>4, <1>5, <1>6, <1>7, <1>8, <1>9, BodyIsItsFields, ZenonT(60)
  <1> QED
    BY <1>2, <1>10 DEF told, known

\* A body that is given instructions, and then all its fields again but the
\* input.
LEMMA OnlyInputSet ==
  ASSUME NEW K, NEW I, NEW body \in BodiesWith(K, I), NEW value
  PROVE  [[body EXCEPT !.instructions = "default"]
            EXCEPT !.input = value, !.tools = body.tools,
                   !.instructions = body.instructions,
                   !.parallel = body.parallel, !.choice = body.choice,
                   !.reasoning = body.reasoning]
           = [body EXCEPT !.input = value]
  <1> DEFINE Fields == {"object", "model", "stream", "store", "caps",
                        "instructions", "input", "tools", "include", "parallel",
                        "choice", "reasoning"}
  <1>1. body = [field \in Fields |-> body[field]]
    BY DEF BodiesWith
  <1> HIDE DEF Fields
  <1> QED
    BY <1>1

LEMMA LitePatchedAgain ==
  ASSUME NEW body \in Bodies, body.model = "lite", NEW new, new = Patched(body)
  PROVE  Patched(new) = [new EXCEPT !.input.of = SecondPrefix \o @]
  <1> DEFINE known == {"none", "own", "default"}
             ready == Prepared(new)
             input == SecondPrefix \o new.input.of
             parallel == IF ready.parallel = "absent" THEN "false" ELSE ready.parallel
             choice == IF ready.choice \in {"none", "required"} THEN ready.choice
                                                                ELSE "auto"
             reasoning == [is |-> "object", context |-> "all_turns",
                           effort |-> ready.reasoning.effort]
  <1>1. /\ new \in BodiesWith(AnyItems, known)
        /\ ready = [new EXCEPT !.instructions = "default"]
    BY LitePreparedAgain
  <1>2. /\ new.instructions = "none" /\ new.tools = Absent
        /\ new.input.is = "array" /\ LiteFields(new)
    <2>1. new.input = Array(Telling(body) \o Filtered(AsItems(body.input)))
      BY PatchedBody
    <2>2. new.input.is = "array"
      <3>1. \A of : Array(of).is = "array"
        BY DEF Array
      <3> QED
        BY <2>1, <3>1
    <2> QED
      BY <2>2, PatchedBody
  <1>3. /\ ready.instructions = "default" /\ ready.tools = Absent
        /\ ready.input = new.input /\ ready.parallel = new.parallel
        /\ ready.choice = new.choice /\ ready.reasoning = new.reasoning
    BY <1>1, <1>2 DEF BodiesWith
  <1> HIDE DEF ready
  <1>4. LitePrefix(ready) = SecondPrefix
    <2> DEFINE first == [type |-> "additional_tools", holds |-> <<>>]
               second == [type |-> "developer", holds |-> <<"default">>]
    <2>1. LitePrefix(ready) = <<first>> \o <<second>>
      BY <1>3 DEF LitePrefix, Absent
    <2>2. SecondPrefix = <<first, second>>
      BY DEF SecondPrefix, Item
    <2> HIDE DEF first, second
    <2>3. <<first>> \o <<second>> = <<first, second>>
      <3> DEFINE both == <<first>> \o <<second>>
      <3>1. /\ Len(<<first>>) = 1 /\ Len(<<second>>) = 1
            /\ <<first>>[1] = first /\ <<second>>[1] = second
            /\ <<first>> \in Seq({first, second})
            /\ <<second>> \in Seq({first, second})
        OBVIOUS
      <3>2. both \in Seq({first, second}) /\ Len(both) = 2
            /\ both[1] = first /\ both[2] = second
        BY <3>1
      <3> HIDE DEF both
      <3>3. both = <<first, second>>
        BY <3>2
      <3> QED
        BY <3>3 DEF both
    <2> QED
      BY <2>1, <2>2, <2>3
  <1>5. Patched(new)
          = [ready EXCEPT !.input = Array(input), !.tools = Absent,
                          !.instructions = "none", !.parallel = parallel,
                          !.choice = choice, !.reasoning = reasoning]
    <2>1. Patched(new) = ApplyResponsesLite(ready)
      BY <1>2 DEF Patched, LiteFields, ready
    <2> QED
      BY <1>1, <1>3, <1>4, <2>1 DEF ApplyResponsesLite, BodiesWith
  <1>6. parallel = new.parallel /\ choice = new.choice
    BY <1>2, <1>3 DEF LiteFields
  <1>7. reasoning = new.reasoning
    <2>1. new.reasoning = [is |-> new.reasoning.is,
                           context |-> new.reasoning.context,
                           effort |-> new.reasoning.effort]
      BY <1>1 DEF BodiesWith
    <2> QED
      BY <1>2, <1>3, <2>1 DEF LiteFields
  <1>8. Array(input) = [new.input EXCEPT !.of = input]
    <2>1. new.input = [is |-> new.input.is, of |-> new.input.of]
      BY <1>1, ValueFields DEF BodiesWith
    <2> HIDE DEF input
    <2> QED
      BY <1>2, <2>1 DEF Array
  <1> DEFINE value == [new.input EXCEPT !.of = input]
  <1>9. Patched(new) = [ready EXCEPT !.input = value, !.tools = new.tools,
                          !.instructions = new.instructions,
                          !.parallel = new.parallel, !.choice = new.choice,
                          !.reasoning = new.reasoning]
    <2> HIDE DEF input, parallel, choice, reasoning
    <2> QED
      BY <1>2, <1>5, <1>6, <1>7, <1>8
  <1> HIDE DEF value, parallel, choice, reasoning, known
  <1>10. Patched(new) = [new EXCEPT !.input = value]
    BY <1>1, <1>9, OnlyInputSet, ZenonT(60)
  <1>11. [new EXCEPT !.input.of = SecondPrefix \o @] = [new EXCEPT !.input = value]
    BY <1>1 DEF BodiesWith, value, input
  <1> QED
    BY <1>10, <1>11

\* A second proxy changes nothing of a body that was patched for an ordinary
\* model, and of a Lite one exactly what it puts first.
THEOREM PatchTwice == Spec => []PatchedTwice
  <1>1. ASSUME Inv PROVE PatchedTwice
    <2> SUFFICES ASSUME IsPatched
                 PROVE  Patched(payload)
                          = IF metadata.lite
                              THEN [payload EXCEPT !.input.of = SecondPrefix \o @]
                              ELSE payload
      BY DEF PatchedTwice
    <2>1. /\ raw \in Bodies /\ payload = Patched(raw)
          /\ metadata.lite <=> raw.model = "lite"
      BY <1>1, WhenPatched
    <2>2. CASE raw.model = "lite"
      BY <2>1, <2>2, LitePatchedAgain
    <2>3. CASE raw.model # "lite"
      BY <2>1, <2>3, PatchedAgain
    <2> QED
      BY <2>2, <2>3
  <1> QED
    BY <1>1, AlwaysInv, PTL

=============================================================================
