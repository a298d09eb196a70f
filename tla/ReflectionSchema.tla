-------------------------- MODULE ReflectionSchema --------------------------
(***************************************************************************)
(* The tables that describe schemas (reflection_generated.h): for each     *)
(* table type its fields in the order its Verify checks them, with slot,   *)
(* size and default as the accessors and the builder have them, required   *)
(* where Verify and the builder's Finish say so, and the key its           *)
(* KeyCompareLessThan compares.  The generated code of a table is these    *)
(* lists put into one scheme each: accessors (GetField, GetPointer of      *)
(* WireFormat), builder (Add, Required), CreateX (CreateOrder),            *)
(* CreateXDirect (WithParts; its vectors of tables are the sorted ones) of *)
(* FlatBufferBuilder, and Verify (FlatBufferVerifier).                     *)
(***************************************************************************)
EXTENDS Integers, Sequences

Scal(slot, n, default) ==
  [slot |-> slot, kind |-> "scalar", n |-> n, default |-> default, required |-> FALSE, key |-> FALSE, of |-> ""]
Ref(slot, kind, of) ==
  [slot |-> slot, kind |-> kind, n |-> 4, default |-> 0, required |-> FALSE, key |-> FALSE, of |-> of]
Req(f) == [f EXCEPT !.required = TRUE]
Key(f) == [f EXCEPT !.key = TRUE]

Name(slot) == Req(Key(Ref(slot, "string", "")))
Attributes(slot) == Ref(slot, "tables", "KeyValue")
Documentation(slot) == Ref(slot, "strings", "")
DeclarationFile(slot) == Ref(slot, "string", "")

TypeFields ==
  << Scal(4, 1, 0), Scal(6, 1, 0), Scal(8, 4, -1), Scal(10, 2, 0), Scal(12, 4, 4), Scal(14, 4, 0) >>

KeyValueFields == << Name(4), Ref(6, "string", "") >>

\* The slot of the former object field, 8, is not used again.
EnumValFields ==
  << Req(Ref(4, "string", "")), Key(Scal(6, 8, 0)), Ref(10, "table", "Type"), Documentation(12), Attributes(14) >>

EnumFields ==
  << Name(4), Req(Ref(6, "tables", "EnumVal")), Scal(8, 1, 0), Req(Ref(10, "table", "Type")),
     Attributes(12), Documentation(14), DeclarationFile(16) >>

FieldFields ==
  << Name(4), Req(Ref(6, "table", "Type")), Scal(8, 2, 0), Scal(10, 2, 0), Scal(12, 8, 0), Scal(14, 8, 0),
     Scal(16, 1, 0), Scal(18, 1, 0), Scal(20, 1, 0), Attributes(22), Documentation(24),
     Scal(26, 1, 0), Scal(28, 2, 0), Scal(30, 1, 0) >>

ObjectFields ==
  << Name(4), Req(Ref(6, "tables", "Field")), Scal(8, 1, 0), Scal(10, 4, 0), Scal(12, 4, 0),
     Attributes(14), Documentation(16), DeclarationFile(18) >>

RPCCallFields ==
  << Name(4), Req(Ref(6, "table", "Object")), Req(Ref(8, "table", "Object")), Attributes(10), Documentation(12) >>

ServiceFields ==
  << Name(4), Ref(6, "tables", "RPCCall"), Attributes(8), Documentation(10), DeclarationFile(12) >>

SchemaFileFields == << Name(4), Ref(6, "strings", "") >>

SchemaFields ==
  << Req(Ref(4, "tables", "Object")), Req(Ref(6, "tables", "Enum")), Ref(8, "string", ""), Ref(10, "string", ""),
     Ref(12, "table", "Object"), Ref(14, "tables", "Service"), Scal(16, 8, 0), Ref(18, "tables", "SchemaFile") >>

ReflectionTable ==
  {"Type", "KeyValue", "EnumVal", "Enum", "Field", "Object", "RPCCall", "Service", "SchemaFile", "Schema"}

ReflectionFieldsOf(type) ==
  CASE type = "Type"       -> TypeFields
    [] type = "KeyValue"   -> KeyValueFields
    [] type = "EnumVal"    -> EnumValFields
    [] type = "Enum"       -> EnumFields
    [] type = "Field"      -> FieldFields
    [] type = "Object"     -> ObjectFields
    [] type = "RPCCall"    -> RPCCallFields
    [] type = "Service"    -> ServiceFields
    [] type = "SchemaFile" -> SchemaFileFields
    [] type = "Schema"     -> SchemaFields

SchemaIdentifier == <<66, 70, 66, 83>>   \* "BFBS"
=============================================================================
