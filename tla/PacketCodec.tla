----------------------------- MODULE PacketCodec -----------------------------
(***************************************************************************)
(* The wire format of payloads, three times: the simulator generates and   *)
(* parses payloads in TypeScript (payloadGenerator.ts, packetProtocol.ts), *)
(* the server parses and projects them in Python (parsing.py,              *)
(* projection.py), and the catalog endpoint carries the schemas from one   *)
(* to the other as JSON (event/api.py, schemaCatalog.ts).                  *)
(*                                                                         *)
(* A text is a sequence of characters, each a string naming it; "bom" is   *)
(* U+FEFF, "nbsp" U+00A0, "fs" U+001C, "acute" a letter of two bytes and   *)
(* "half" a surrogate without its partner.  Encoding a text yields pairs   *)
(* of a character and the number of the byte within it, so that a segment  *)
(* that cuts a character is no encoding of anything.  The limits on        *)
(* numbers are CONSTANTS in the order of the real ones.                    *)
(***************************************************************************)
EXTENDS Integers, FiniteSets, Sequences, SequencesExt

CONSTANTS
  PerSecond,             \* milliseconds in a second
  PerMilli,              \* microseconds in a millisecond
  MaxExact,              \* 2^33 seconds in milliseconds: below it floats lie dense enough
  Microseconds(_),       \* what fromtimestamp(n / 1000) makes of n milliseconds
  MinSecond, MaxSecond,  \* the years 1 to 9999
  MaxSafe,               \* Number.MAX_SAFE_INTEGER
  MaxBigint,             \* 2^63 - 1, the largest BigIntegerField
  MaxPayload,            \* MAX_GENERATED_PAYLOAD_BYTES
  Null

ASSUME LimitsAssumption ==
  /\ {MaxSecond, MaxSafe, MaxBigint, MaxPayload} \subseteq Nat
  /\ PerSecond \in Nat \ {0}
  /\ MinSecond \in Int /\ MinSecond <= 0
  /\ -MaxSafe <= MinSecond * PerSecond /\ (MaxSecond + 1) * PerSecond <= MaxSafe

(* n / 1000 is a float and datetime.fromtimestamp rounds it to a           *)
(* microsecond: a time within the calendar comes out exact up to 2^33      *)
(* seconds, the year 2242, and within half a millisecond beyond.           *)
ASSUME RoundingAssumption ==
  /\ PerMilli \in Nat \ {0} /\ MaxExact \in Nat
  /\ \A n \in (MinSecond * PerSecond)..((MaxSecond + 1) * PerSecond - 1) :
       /\ Microseconds(n) \in Int
       /\ 2 * (Microseconds(n) - n * PerMilli) \in (1 - PerMilli)..(PerMilli - 1)
       /\ n \in -MaxExact..MaxExact => Microseconds(n) = n * PerMilli

Error == [ok |-> FALSE]
Ok(value) == [ok |-> TRUE, value |-> value]

-----------------------------------------------------------------------------
(* Text and bytes.                                                         *)

Bytes(c) == CASE c \in {"acute", "nbsp"} -> 2 [] c = "bom" -> 3 [] OTHER -> 1
DigitNames == <<"0", "1", "2", "3", "4", "5", "6", "7", "8", "9">>
Digits == ToSet(DigitNames)
Ascii == Digits \cup {"+", "-", "_", " ", "fs", "a", "t", "r", "u", "e", "f", "l", "s"}

EncodeChar(c) == [k \in 1..Bytes(c) |-> <<c, k>>]
Encode(text) == FlattenSeq([i \in DOMAIN text |-> EncodeChar(text[i])])

(* The text a sequence of bytes encodes, if any.                           *)
Decode(bytes) ==
  LET text == FlattenSeq([i \in DOMAIN bytes |->
                            IF bytes[i][2] = 1 THEN <<bytes[i][1]>> ELSE <<>>])
  IN IF Encode(text) = bytes THEN Ok(text) ELSE Error

(* TextDecoder('utf-8') consumes a byte order mark at the start.           *)
Utf8Decoder(bytes) ==
  LET mark == EncodeChar("bom")
  IN Decode(IF IsPrefix(mark, bytes) THEN SubSeq(bytes, Len(mark) + 1, Len(bytes)) ELSE bytes)

AsciiDecoder(bytes) ==
  IF \A i \in DOMAIN bytes : bytes[i][1] \in Ascii
  THEN Ok([i \in DOMAIN bytes |-> bytes[i][1]]) ELSE Error

(* String.prototype.trim and str.strip.                                    *)
Strip(text, blanks) ==
  LET kept == {i \in DOMAIN text : text[i] \notin blanks}
  IN IF kept = {} THEN <<>> ELSE SubSeq(text, Min(kept), Max(kept))
Trim(text) == Strip(text, {" ", "nbsp", "bom"})
PythonStrip(text) == Strip(text, {" ", "fs", "nbsp"})

HasUnpairedSurrogate(text) == \E i \in DOMAIN text : text[i] = "half"

-----------------------------------------------------------------------------
(* Numbers and truth values as texts.                                      *)

Digit(c) == CHOOSE d \in 0..9 : DigitNames[d + 1] = c

Unsigned(token) ==
  IF token # <<>> /\ Head(token) \in {"+", "-"} THEN Tail(token) ELSE token

(* INTEGER_PATTERN, which is what int() accepts of a stripped token too.   *)
IsInteger(token) ==
  LET body == Unsigned(token)
  IN /\ body # <<>>
     /\ \A i \in DOMAIN body :
          \/ body[i] \in Digits
          \/ body[i] = "_" /\ i \in 2..(Len(body) - 1) /\ body[i - 1] # "_"

Magnitude(body) ==
  LET m[k \in 0..Len(body)] ==
        IF k = 0 THEN 0 ELSE IF body[k] = "_" THEN m[k - 1] ELSE 10 * m[k - 1] + Digit(body[k])
  IN m[Len(body)]
IntegerOf(token) ==
  IF Head(token) = "-" THEN -Magnitude(Tail(token)) ELSE Magnitude(Unsigned(token))

(* String(n) for the numbers of a catalog, and what /^[+-]?\d+$/ accepts.  *)
Numeral(n) ==
  LET d[k \in Nat] == IF k < 10 THEN <<DigitNames[k + 1]>>
                      ELSE Append(d[k \div 10], DigitNames[(k % 10) + 1])
  IN IF n < 0 THEN <<"-">> \o d[-n] ELSE d[n]
IsDecimal(text) == Unsigned(text) # <<>> /\ ToSet(Unsigned(text)) \subseteq Digits

TrueTokens == {<<"1">>, <<"t", "r", "u", "e">>}
FalseTokens == {<<"0">>, <<"f", "a", "l", "s", "e">>}

-----------------------------------------------------------------------------
(* The parser of the simulator.  A value is a truth value or a text; the   *)
(* value of an integer field is its numeral.                               *)

Truth(b) == [kind |-> "truth", truth |-> b]
Text(t) == [kind |-> "text", text |-> t]

(* Mutant: the text of a field is reported trimmed.                        *)
DecodeTrimmedField(field, bytes) ==
  LET segment == SubSeq(bytes, field.start + 1, field.end)
      raw == IF field.codec = "utf8" THEN Utf8Decoder(segment) ELSE AsciiDecoder(segment)
      token == Trim(raw.value)
      Field(v) == Ok([raw |-> token, value |-> v])
  IN IF ~raw.ok THEN Error
     ELSE CASE field.codec = "utf8" -> Field(Text(raw.value))
            [] field.codec = "integer" /\ IsInteger(token) ->
                 Field(Text(Numeral(IntegerOf(token))))
            [] field.codec = "boolean" /\ token \in TrueTokens \cup FalseTokens ->
                 Field(Truth(token \in TrueTokens))
            [] OTHER -> Error

DecodeField(field, bytes) ==
  LET segment == SubSeq(bytes, field.start + 1, field.end)
      raw == IF field.codec = "utf8" THEN Utf8Decoder(segment) ELSE AsciiDecoder(segment)
      token == Trim(raw.value)
      Field(v) == Ok([raw |-> raw.value, value |-> v])
  IN IF ~raw.ok THEN Error
     ELSE CASE field.codec = "utf8" -> Field(Text(raw.value))
            [] field.codec = "integer" /\ IsInteger(token) ->
                 Field(Text(Numeral(IntegerOf(token))))
            [] field.codec = "boolean" /\ token \in TrueTokens -> Field(Truth(TRUE))
            [] field.codec = "boolean" /\ token \in FalseTokens -> Field(Truth(FALSE))
            [] OTHER -> Error

Instant(n, unit) == IF unit = "milliseconds" THEN n ELSE n * PerSecond
InCalendar(t) == MinSecond * PerSecond <= t /\ t < (MaxSecond + 1) * PerSecond

(* Mutant: the unit is forgotten.                                          *)
DatetimeInSeconds(v, unit) ==
  IF v.kind = "text" /\ IsDecimal(v.text) /\ InCalendar(Instant(IntegerOf(v.text), "seconds"))
  THEN Ok(Instant(IntegerOf(v.text), "seconds")) ELSE Error

(* The reading of the simulator, in milliseconds.                          *)
DatetimeReading(v, unit) ==
  IF v.kind # "text" \/ ~IsDecimal(v.text) THEN Error
  ELSE LET n == IntegerOf(v.text)
       IN IF n \in -MaxSafe..MaxSafe /\ InCalendar(Instant(n, unit))
          THEN Ok(Instant(n, unit)) ELSE Error

(* A rule reads a field, or the constant it holds when source is Null.     *)
ProjectRule(schema, rule, fields) ==
  LET v == IF rule.source = Null THEN rule.constant ELSE fields[rule.source].value.value
      stamp == rule.source # Null /\ schema.fields[rule.source].role = "timestamp"
  IN IF rule.type # "datetime" /\ (stamp \/ rule.unit # Null) THEN Error
     ELSE CASE rule.type = "datetime" -> DatetimeReading(v, rule.unit)
            [] rule.type = "integer" ->
                 IF v.kind = "text" /\ IsDecimal(v.text)
                    /\ IntegerOf(v.text) \in (-MaxBigint - 1)..MaxBigint
                 THEN Ok(IntegerOf(v.text)) ELSE Error
            [] rule.type = "boolean" -> IF v.kind = "truth" THEN Ok(v.truth) ELSE Error
            [] rule.type = "string" -> IF v.kind = "text" THEN Ok(v.text) ELSE Error

LengthFits(schema, bytes) ==
  /\ schema.length # Null => Len(bytes) = schema.length
  /\ \A f \in DOMAIN schema.fields : schema.fields[f].end <= Len(bytes)

ParsePayload(schema, payload) ==
  LET bytes == Encode(payload)
      fields == [f \in DOMAIN schema.fields |-> DecodeField(schema.fields[f], bytes)]
      readings == [q \in DOMAIN schema.rules |-> ProjectRule(schema, schema.rules[q], fields)]
  IN IF /\ LengthFits(schema, bytes)
        /\ \A f \in DOMAIN fields : fields[f].ok
        /\ \A q \in DOMAIN readings : readings[q].ok
     THEN Ok([fields |-> [f \in DOMAIN fields |-> fields[f].value],
              readings |-> [q \in DOMAIN readings |-> readings[q].value]])
     ELSE Error

-----------------------------------------------------------------------------
(* The parser of the server.  A value is a number, a truth value or a text.*)

Number(n) == [kind |-> "number", number |-> n]

PythonDecode(field, segment) ==
  LET raw == IF field.codec = "utf8" THEN Decode(segment) ELSE AsciiDecoder(segment)
      token == PythonStrip(raw.value)
  IN IF ~raw.ok THEN Error
     ELSE CASE field.codec = "utf8" -> Ok(Text(raw.value))
            [] field.codec = "integer" /\ IsInteger(token) -> Ok(Number(IntegerOf(token)))
            [] field.codec = "boolean" /\ token \in TrueTokens -> Ok(Truth(TRUE))
            [] field.codec = "boolean" /\ token \in FalseTokens -> Ok(Truth(FALSE))
            [] OTHER -> Error

(* The reading of the server, in microseconds.  What rounds never leaves   *)
(* the calendar: its ends are whole seconds.                               *)
TimestampToDatetime(v, unit) ==
  IF v.kind = "number" /\ InCalendar(Instant(v.number, unit))
  THEN Ok(IF unit = "milliseconds" THEN Microseconds(v.number)
          ELSE v.number * PerSecond * PerMilli)
  ELSE Error

CoerceParameterValue(rule, v) ==
  IF rule.type # "datetime" /\ rule.unit # Null THEN Error
  ELSE CASE rule.type = "datetime" -> TimestampToDatetime(v, rule.unit)
         [] rule.type = "integer" ->
              IF v.kind = "number" /\ v.number \in (-MaxBigint - 1)..MaxBigint
              THEN Ok(v.number) ELSE Error
         [] rule.type = "boolean" -> IF v.kind = "truth" THEN Ok(v.truth) ELSE Error
         [] rule.type = "string" -> IF v.kind = "text" THEN Ok(v.text) ELSE Error

PythonProject(schema, rule, values) ==
  LET v == IF rule.source = Null THEN rule.constant ELSE values[rule.source].value
      stamp == rule.source # Null /\ schema.fields[rule.source].role = "timestamp"
  IN IF stamp /\ rule.type # "datetime" THEN Error ELSE CoerceParameterValue(rule, v)

PythonParse(schema, payload) ==
  LET bytes == Encode(payload)
      values == [f \in DOMAIN schema.fields |->
                   PythonDecode(schema.fields[f],
                                SubSeq(bytes, schema.fields[f].start + 1, schema.fields[f].end))]
      readings == [q \in DOMAIN schema.rules |-> PythonProject(schema, schema.rules[q], values)]
  IN IF /\ LengthFits(schema, bytes)
        /\ \A f \in DOMAIN values : values[f].ok
        /\ \A q \in DOMAIN readings : readings[q].ok
     THEN Ok([q \in DOMAIN readings |-> readings[q].value])
     ELSE Error

-----------------------------------------------------------------------------
(* The generator of the simulator.                                         *)

Spans(schema) == {schema.fields[f] : f \in DOMAIN schema.fields}
FurthestEnd(schema) == Max({0} \cup {f.end : f \in Spans(schema)})
GeneratedLength(schema) ==
  IF schema.length = Null THEN FurthestEnd(schema) ELSE schema.length

ValidForGeneration(schema) ==
  LET fields == schema.fields
  IN /\ schema.length # Null => schema.length > 0 /\ FurthestEnd(schema) <= schema.length
     /\ \A f \in DOMAIN fields :
          /\ 0 <= fields[f].start /\ fields[f].start < fields[f].end
          /\ fields[f].role = "timestamp" => fields[f].codec = "integer"
     /\ Cardinality({f \in DOMAIN fields : fields[f].role = "timestamp"}) <= 1
     /\ GeneratedLength(schema) <= MaxPayload
     /\ \A f, g \in DOMAIN fields :
          f # g => fields[f].end <= fields[g].start \/ fields[g].end <= fields[f].start

Repeat(c, n) == [i \in 1..n |-> c]
PadStart(text, n, c) == Repeat(c, n - Len(text)) \o text
Width(field) == field.end - field.start

(* Mutant: a boolean starts with its token alone.                          *)
UnpaddedDraft(field) ==
  CASE field.codec = "utf8" -> Repeat(" ", Width(field))
    [] field.codec = "boolean" -> <<"0">>
    [] field.codec = "integer" -> Repeat("0", Width(field))

DefaultDraft(field) ==
  CASE field.codec = "utf8" -> Repeat(" ", Width(field))
    [] field.codec = "boolean" -> PadStart(<<"0">>, Width(field), " ")
    [] field.codec = "integer" -> Repeat("0", Width(field))
CreateFieldDrafts(schema) == [f \in DOMAIN schema.fields |-> DefaultDraft(schema.fields[f])]

(* The options of the select that edits a boolean field.                   *)
BooleanOptions(field) ==
  {PadStart(t, Width(field), " ") : t \in {s \in TrueTokens \cup FalseTokens : Len(s) <= Width(field)}}

DecodeDraftValue(field, draft) ==
  LET token == Trim(draft)
  IN CASE field.codec = "utf8" -> Ok(Text(draft))
       [] field.codec = "integer" /\ IsInteger(token) -> Ok(Text(Numeral(IntegerOf(token))))
       [] field.codec = "boolean" /\ token \in TrueTokens -> Ok(Truth(TRUE))
       [] field.codec = "boolean" /\ token \in FalseTokens -> Ok(Truth(FALSE))
       [] OTHER -> Error

DraftFits(field, draft) ==
  /\ ~HasUnpairedSurrogate(draft)
  /\ Len(Encode(draft)) = Width(field)
  /\ DecodeDraftValue(field, draft).ok

(* Mutant: a draft is written from its end.                                *)
AssembleBackwards(schema, drafts, gap) ==
  [i \in 1..GeneratedLength(schema) |->
     LET here == {f \in DOMAIN schema.fields :
                    schema.fields[f].start < i /\ i <= schema.fields[f].end}
     IN IF here = {} THEN <<gap, 1>>
        ELSE LET f == CHOOSE g \in here : TRUE
             IN Encode(drafts[f])[schema.fields[f].end + 1 - i]]

(* The bytes of the drafts at their offsets, the gap byte elsewhere.       *)
Assemble(schema, drafts, gap) ==
  [i \in 1..GeneratedLength(schema) |->
     LET here == {f \in DOMAIN schema.fields :
                    schema.fields[f].start < i /\ i <= schema.fields[f].end}
     IN IF here = {} THEN <<gap, 1>>
        ELSE LET f == CHOOSE g \in here : TRUE
             IN Encode(drafts[f])[i - schema.fields[f].start]]

GeneratePayload(schema, drafts, gap) ==
  IF /\ ValidForGeneration(schema)
     /\ \A f \in DOMAIN schema.fields : f \in DOMAIN drafts /\ DraftFits(schema.fields[f], drafts[f])
  THEN LET payload == Utf8Decoder(Assemble(schema, drafts, gap))
       IN IF payload.ok /\ ParsePayload(schema, payload.value).ok THEN payload ELSE Error
  ELSE Error

ExtractFieldDrafts(schema, payload) ==
  LET bytes == Encode(payload)
      texts == [f \in DOMAIN schema.fields |->
                  Utf8Decoder(SubSeq(bytes, schema.fields[f].start + 1, schema.fields[f].end))]
  IN IF /\ ValidForGeneration(schema) /\ ~HasUnpairedSurrogate(payload)
        /\ LengthFits(schema, bytes)
        /\ \A f \in DOMAIN texts : texts[f].ok
     THEN Ok([f \in DOMAIN texts |-> texts[f].value]) ELSE Error

(* The draft of the button that fills in the time, now in milliseconds.    *)
CurrentTimestampDraft(schema, f, now) ==
  LET mine == {q \in DOMAIN schema.rules : /\ schema.rules[q].source = f
                                           /\ schema.rules[q].type = "datetime"}
      milli == mine # {} /\ schema.rules[Min(mine)].unit = "milliseconds"
      raw == Numeral(IF milli THEN now ELSE now \div PerSecond)
  IN PadStart(raw, Width(schema.fields[f]), "0")

-----------------------------------------------------------------------------
(* The catalog: what the server sends of a rule and what becomes of it.    *)

Json(kind, v) == [json |-> kind, v |-> v]
JsonNull == Json("null", Null)

SerializeConstant(rule) ==
  IF rule.source # Null THEN JsonNull
  ELSE CASE rule.constant.kind = "truth" -> Json("boolean", rule.constant.truth)
         [] rule.constant.kind = "number" -> Json("string", Numeral(rule.constant.number))
         [] OTHER -> Json("string", rule.constant.text)

SerializeRule(rule) ==
  [valueType |-> rule.type,
   sourceKind |-> IF rule.source = Null THEN "constant" ELSE "field",
   sourceFieldId |-> IF rule.source = Null THEN JsonNull ELSE Json("string", rule.source),
   constantValue |-> SerializeConstant(rule),
   conversionConfig |-> IF rule.unit = Null THEN <<>> ELSE <<"timestampUnit", rule.unit>>]

MapConstantValue(value, type) ==
  CASE type = "boolean" /\ value.json = "boolean" -> Ok(Truth(value.v))
    [] type # "boolean" /\ value.json = "string" -> Ok(Text(value.v))
    [] OTHER -> Error

(* conversionConfig may come with the key of the database, too.            *)
MapConversionConfig(config) ==
  IF config # <<>> /\ config[1] \in {"timestampUnit", "timestamp_unit"} THEN config[2] ELSE Null

MapProjectionRule(source) ==
  LET rule == [type |-> source.valueType, unit |-> MapConversionConfig(source.conversionConfig),
               source |-> source.sourceFieldId.v, constant |-> Null]
      constant == MapConstantValue(source.constantValue, source.valueType)
  IN CASE source.sourceKind = "field" /\ source.constantValue.json = "null"
            /\ source.sourceFieldId.json = "string" -> Ok(rule)
       [] source.sourceKind = "constant" /\ source.sourceFieldId.json = "null" /\ constant.ok ->
            Ok([rule EXCEPT !.constant = constant.value])
       [] OTHER -> Error

(* One row that is refused fails the whole catalog.                        *)
MapSchema(schema) ==
  LET rules == [q \in DOMAIN schema.rules |-> MapProjectionRule(SerializeRule(schema.rules[q]))]
  IN IF \A q \in DOMAIN rules : rules[q].ok
     THEN Ok([schema EXCEPT !.rules = [q \in DOMAIN rules |-> rules[q].value]]) ELSE Error
=============================================================================
