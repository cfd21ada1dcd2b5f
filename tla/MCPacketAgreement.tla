-------------------------- MODULE MCPacketAgreement --------------------------
(***************************************************************************)
(* Schemas, drafts and payloads for PacketAgreement.                       *)
(***************************************************************************)
EXTENDS PacketAgreement, TLC

CONSTANTS f1, f2

MCMinSecond == -6
MCAlphabet == Ascii \cup {"acute", "nbsp", "bom", "half"}
MCGaps == {" ", "0"}

(* A float of 13 bits, rounded to microseconds: of 64 seconds and more     *)
(* there are 64 in a second, of 32 to 64 seconds 128, which are enough.    *)
Nearest(a, b) == (2 * a + b) \div (2 * b)
FloatsPerSecond(n) == IF n \in -639..639 THEN 128 ELSE 64
MCMicroseconds(n) ==
  Nearest(Nearest(n * FloatsPerSecond(n), PerSecond) * PerSecond * PerMilli, FloatsPerSecond(n))
MCNows == {9, 99, 901}

Field(start, end, codec, role) == [start |-> start, end |-> end, codec |-> codec, role |-> role]
Rule(type, source, unit, constant) ==
  [type |-> type, source |-> source, unit |-> unit, constant |-> constant]
FromField(f, type) == Rule(type, f, Null, Null)
FromConstant(type, value) == Rule(type, Null, Null, value)
Schema(length, fields, rules) == [length |-> length, fields |-> fields, rules |-> rules]

OneField ==
  {Schema(3, f1 :> Field(0, 3, "integer", "metric"), <<FromField(f1, "integer")>>),
   Schema(Null, f1 :> Field(1, 3, "integer", "sequence"), <<>>),
   Schema(3, f1 :> Field(0, 3, "integer", "timestamp"),
          <<FromField(f1, "datetime"), Rule("datetime", f1, "milliseconds", Null)>>),
   Schema(3, f1 :> Field(0, 3, "integer", "timestamp"),
          <<Rule("datetime", f1, "milliseconds", Null), Rule("datetime", f1, "seconds", Null)>>),
   Schema(Null, f1 :> Field(0, 3, "integer", "metric"),
          <<FromField(f1, "integer"), Rule("datetime", f1, "milliseconds", Null)>>),
   Schema(Null, f1 :> Field(0, 3, "utf8", "metric"), <<FromField(f1, "string")>>),
   Schema(4, f1 :> Field(1, 4, "utf8", "checksum"), <<FromField(f1, "string")>>),
   Schema(Null, f1 :> Field(1, 2, "boolean", "metric"), <<FromField(f1, "boolean")>>),
   Schema(5, f1 :> Field(0, 5, "boolean", "metric"), <<FromField(f1, "boolean")>>),
   Schema(2, f1 :> Field(0, 2, "integer", "metric"),
          <<FromField(f1, "integer"), FromConstant("datetime", Number(12)),
            FromConstant("string", Text(<<"a">>)), FromConstant("boolean", Truth(FALSE))>>),
   Schema(2, f1 :> Field(0, 2, "utf8", "metric"),
          <<FromField(f1, "string"), FromConstant("integer", Number(1000))>>),
   Schema(9, f1 :> Field(0, 1, "utf8", "metric"), <<FromConstant("integer", Number(-7))>>)}

TwoFields ==
  {Schema(5, f1 :> Field(0, 1, "integer", "metric") @@ f2 :> Field(1, 4, "utf8", "metric"),
          <<FromField(f2, "string"), FromField(f1, "integer")>>),
   Schema(Null, f1 :> Field(2, 4, "boolean", "metric") @@ f2 :> Field(0, 2, "utf8", "metric"),
          <<FromField(f1, "boolean"), FromField(f2, "string")>>)}

MCSchemas == OneField \cup TwoFields

UpTo(alphabet, n) == UNION {[1..k -> alphabet] : k \in 0..n}

Typing(field) ==
  CASE field.codec = "integer" -> UpTo({"0", "1", "9", "_", "-", " ", "fs", "nbsp"}, Width(field))
    [] field.codec = "utf8" -> UpTo({"a", " ", "acute", "bom", "half"}, 3)
    [] OTHER -> UpTo({"0", "1", "e", " ", "fs"}, IF Width(field) < 3 THEN Width(field) ELSE 0)
                  \cup BooleanOptions(field)
MCDraft(schema, f) == Typing(schema.fields[f])

MCPayloads == UpTo({"0", "1", "9", "-", "_", " ", "fs", "acute"}, 3)
              \cup UpTo({"0", " ", "a", "acute", "bom"}, 4)
              \cup {<<"0">> \o t : t \in UpTo({"1", " ", "acute", "bom"}, 3)}
              \cup {<<" ">> \o t : t \in TrueTokens \cup FalseTokens}
              \cup TrueTokens \cup FalseTokens
=============================================================================
