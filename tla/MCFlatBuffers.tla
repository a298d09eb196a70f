--------------------------- MODULE MCFlatBuffers ----------------------------
(***************************************************************************)
(* Programs that build one root each: every table type of the reflection   *)
(* schema with what it needs, and a Shape, which has the kinds of fields   *)
(* that schema lacks.  Lists stay short, strings have at most two          *)
(* characters, one of them is empty.                                       *)
(*                                                                         *)
(* The same run checks the storage below: programs of the casts of         *)
(* BufferOwnership, which write bytes and pass their buffers on.  A program*)
(* of one kind takes no step of the other.                                 *)
(***************************************************************************)
EXTENDS BufferOwnership, ReflectionSchema

ShapeFields ==
  << [Scal(4, 2, 0) EXCEPT !.kind = "optional"], [Scal(6, 8, 0) EXCEPT !.kind = "struct"], Scal(8, 8, 0),
     [Ref(10, "scalars", "") EXCEPT !.n = 2], [Ref(12, "structs", "") EXCEPT !.n = 8] >>

MCTableType == ReflectionTable \cup {"Shape"}
MCFieldsOf(type) == IF type = "Shape" THEN ShapeFields ELSE ReflectionFieldsOf(type)

FieldSet(type) == {MCFieldsOf(type)[i] : i \in DOMAIN MCFieldsOf(type)}

A == <<97>>
B == <<97, 98>>
E == <<>>
Point == <<1, 0, 0, 0, 2, 0, 0, 0>>

MCScript(root) ==
  CASE root = "Type"       -> << {<<"create", "Type">>}, {<<"create", "Type">>} >>
    [] root = "KeyValue"   -> LET any == {<<"string", A>>, <<"shared", A>>, <<"shared", B>>, <<"string", E>>,
                                          <<"table", "KeyValue">>}
                              IN <<any, any, any \cup {<<"direct", "KeyValue", A>>}>>
    [] root = "EnumVal"    -> << {<<"shared", B>>}, {<<"shared", A>>, <<"shared", B>>}, {<<"create", "KeyValue">>},
                                 {<<"create", "KeyValue">>, <<"create", "EnumVal">>, <<"direct", "EnumVal", A>>, <<"shared", B>>},
                                 {<<"tables", "KeyValue", TRUE>>}, {<<"create", "EnumVal">>} >>
    [] root = "Enum"       -> << {<<"string", A>>}, {<<"create", "EnumVal">>}, {<<"tables", "EnumVal", TRUE>>},
                                 {<<"create", "Type">>}, {<<"create", "Enum">>, <<"direct", "Enum", A>>} >>
    [] root = "Field"      -> << {<<"string", A>>}, {<<"strings", <<A, E>> >>, <<"strings", <<B>> >>},
                                 {<<"create", "Type">>}, {<<"create", "Field">>, <<"direct", "Field", A>>} >>
    [] root = "Object"     -> << {<<"string", A>>}, {<<"string", B>>}, {<<"create", "Type">>},
                                 {<<"create", "Field">>}, {<<"create", "Field">>},
                                 {<<"tables", "Field", TRUE>>, <<"direct", "Object", A>>}, {<<"create", "Object">>} >>
    [] root = "RPCCall"    -> << {<<"string", A>>}, {<<"tables", "Field", TRUE>>}, {<<"create", "Object">>},
                                 {<<"create", "RPCCall">>}, {<<"create", "RPCCall">>, <<"direct", "RPCCall", A>>} >>
    [] root = "Service"    -> << {<<"shared", A>>}, {<<"tables", "RPCCall", TRUE>>, <<"strings", <<B>> >>},
                                 {<<"shared", B>>, <<"shared", A>>}, {<<"strings", <<E>> >>, <<"create", "Service">>},
                                 {<<"create", "Service">>, <<"direct", "Service", A>>} >>
    [] root = "SchemaFile" -> << {<<"string", A>>}, {<<"strings", <<A, B>> >>, <<"strings", E>>},
                                 {<<"create", "SchemaFile">>, <<"direct", "SchemaFile", A>>} >>
    [] root = "Schema"     -> << {<<"string", A>>}, {<<"tables", "Object", TRUE>>}, {<<"tables", "Enum", TRUE>>},
                                 {<<"create", "Object">>, <<"tables", "Service", FALSE>>},
                                 {<<"create", "Schema">>, <<"direct", "Schema", A>>} >>
    [] root = "Shape"      -> << {<<"scalars", <<1, 2, 300>>, 2>>, <<"structs", <<Point, Point>>, 8>>},
                                 {<<"table", "Shape">>} >>

MCNeeds(root, n) == IF n < Len(MCScript(root)) THEN MCScript(root)[n + 1] ELSE {}

\* Schemas and strings are built with every ending.
MCEndings(root) ==
  IF root \in {"KeyValue", "Schema"} THEN BOOLEAN \X {0, 4}
  ELSE IF root = "Object" THEN {<<TRUE, 4>>} ELSE IF root = "Shape" THEN {<<TRUE, 0>>} ELSE {<<FALSE, 0>>}

MCValue(f) ==
  CASE f.kind = "struct" -> {Point}
    [] f.kind = "optional" -> {0, 300}
    [] OTHER -> {f.default, 7}

MCMutable(type) ==
  LET scalars == {f \in FieldSet(type) : f.kind = "scalar"}
  IN {f \in scalars : \A g \in scalars : g.slot >= f.slot} \cup {f \in scalars : \A g \in scalars : g.slot <= f.slot}

Slots(type) == {f.slot : f \in FieldSet(type)}
RequiredSlots(type) == {f.slot : f \in {g \in FieldSet(type) : g.required}}

\* A table on the way is given what is required; the root that and one field
\* more, or every field with a value that is not its default.
MCGiven(root, type) ==
  LET all(slots) == [s \in slots |-> {7}]
      one(s) == [r \in RequiredSlots(type) \cup {s} |-> {0, 7}]
  IN IF type # root THEN {all(RequiredSlots(type))}
     ELSE IF type = "Type" THEN {all({}), all({4, 6}), all({4, 6, 8}), all(Slots(type))}
     ELSE {all(RequiredSlots(type)), all(Slots(type))} \cup {one(s) : s \in Slots(type)}

VARIABLES fbb, objects, open, goal

FB == INSTANCE FlatBuffers WITH
  TableType <- MCTableType, FieldsOf <- MCFieldsOf, Goal <- MCTableType, Needs <- MCNeeds, Given <- MCGiven,
  Value <- MCValue, Mutable <- MCMutable, Endings <- MCEndings, FileId <- SchemaIdentifier,
  MaxFields <- 2, MaxDepth <- 4, MaxTables <- 10, MaxBufferSize <- 1000

MCCasts == {{}, {"b1", "b2", "h1"}, {"b1", "m1", "h1"}, {"m1", "m2", "h1"}, {"b1", "h1", "h2"}, {"m1", "h1", "h2"}}

MCInit ==
  /\ FB!Init /\ Init
  /\ cast # {} => goal = "Type" /\ fbb = FB!New(FALSE, TRUE)

MCNext ==
  \/ cast = {} /\ FB!Next /\ UNCHANGED ovars
  \/ Next /\ UNCHANGED <<fbb, objects, open, goal>>

MCSpec == MCInit /\ [][MCNext]_<<fbb, objects, open, goal, mem, cast>>

\* The state of each part is of its type.
PartsTypeOK == FB!TypeOK /\ Vectors

\* The properties of FlatBuffers.  What the builder returned reads back as it
\* was given, whatever it has written, removed or shared since.
ReadBack == FB!ReadBack

\* The verifier accepts every buffer the builder finishes.
FinishedVerifies == FB!FinishedVerifies

\* A buffer cut short is refused, or all that its root reaches is still there.
AcceptedIsReadable == FB!AcceptedIsReadable

\* Equal vtables are stored once; nothing else is left in the scratch pad.
VTablesShared == FB!VTablesShared

\* The search in a vector of sorted tables finds the keys that are there only.
LookupFinds == FB!LookupFinds
=============================================================================
