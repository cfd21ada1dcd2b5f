--------------------------- MODULE PacketAgreement ---------------------------
(***************************************************************************)
(* What the three translations of the wire format promise each other.      *)
(* PacketCodec has no state: a behaviour chooses one input, the drafts of  *)
(* the composer or a payload as a gateway sends it, for one of the schemas *)
(* the database may hold.                                                  *)
(***************************************************************************)
EXTENDS PacketCodec

CONSTANTS
  Alphabet,     \* the characters
  Schemas,      \* schemas as the server keeps them, with clean fields and rules
  Draft(_, _),  \* Draft(schema, f): texts typed into the editor of field f
  Payloads,     \* texts a gateway sends
  Gaps,         \* the bytes offered for gaps
  Nows          \* times of the browser, in milliseconds

(* What full_clean lets into the tables (PayloadField.clean and its         *)
(* constraints, ProjectionRule.clean): Configuration proves that it stays  *)
(* true of them.                                                           *)
FieldClean(schema, field) ==
  /\ field.start \in Nat /\ field.end \in Nat /\ field.start < field.end
  /\ schema.length # Null => field.end <= schema.length
  /\ field.codec \in {"integer", "utf8", "boolean"}
  /\ field.role = "timestamp" => field.codec = "integer"

FieldsClean(schema) ==
  LET fields == schema.fields
  IN /\ IsFiniteSet(DOMAIN fields) /\ Null \notin DOMAIN fields
     /\ \A f \in DOMAIN fields : FieldClean(schema, fields[f])
     /\ \A f, g \in DOMAIN fields : f # g =>
          /\ fields[f].end <= fields[g].start \/ fields[g].end <= fields[f].start
          /\ ~(fields[f].role = "timestamp" /\ fields[g].role = "timestamp")

Projects(field) ==  \* the types a field projects to
  IF field.role = "timestamp" THEN {"datetime"}
  ELSE CASE field.codec = "integer" -> {"integer", "datetime"}
         [] field.codec = "utf8" -> {"string"}
         [] field.codec = "boolean" -> {"boolean"}

RuleClean(schema, rule) ==
  /\ rule = [type |-> rule.type, source |-> rule.source,
             unit |-> rule.unit, constant |-> rule.constant]
  /\ rule.type \in {"integer", "datetime", "string", "boolean"}
  /\ rule.unit \in (IF rule.type = "datetime" THEN {Null, "seconds", "milliseconds"} ELSE {Null})
  /\ rule.source # Null =>
       /\ rule.source \in DOMAIN schema.fields /\ rule.constant = Null
       /\ rule.type \in Projects(schema.fields[rule.source])
  /\ rule.source = Null =>
       \/ /\ rule.type \in {"integer", "datetime"}
          /\ rule.constant = Number(rule.constant.number) /\ rule.constant.number \in Int
       \/ /\ rule.type = "string"
          /\ rule.constant = Text(rule.constant.text) /\ rule.constant.text \in Seq(Alphabet)
       \/ /\ rule.type = "boolean"
          /\ rule.constant = Truth(rule.constant.truth) /\ rule.constant.truth \in BOOLEAN

SchemaClean(schema) ==
  /\ schema = [length |-> schema.length, fields |-> schema.fields, rules |-> schema.rules]
  /\ schema.length # Null => schema.length \in Nat \ {0}
  /\ FieldsClean(schema)
  /\ Len(schema.rules) \in Nat /\ DOMAIN schema.rules = 1..Len(schema.rules)
  /\ \A q \in DOMAIN schema.rules : RuleClean(schema, schema.rules[q])

ASSUME InputsAssumption ==
  /\ Ascii \subseteq Alphabet /\ Null \notin {"seconds", "milliseconds"} \cup Nat
  /\ \A schema \in Schemas :
       /\ SchemaClean(schema)
       /\ \A f \in DOMAIN schema.fields : Draft(schema, f) \subseteq Seq(Alphabet)
  /\ Payloads \subseteq Seq(Alphabet)
  /\ \A payload \in Payloads : ~HasUnpairedSurrogate(payload)
  /\ Gaps \subseteq {" ", "0"}
  /\ \A now \in Nows : now \in Nat /\ InCalendar(now)

VARIABLE input

None == [kind |-> "none"]

DraftsFor(schema) ==
  LET fields == DOMAIN schema.fields
  IN {d \in [fields -> UNION {Draft(schema, f) : f \in fields}] :
        \A f \in fields : d[f] \in Draft(schema, f)}

Init == input = None

Compose(schema) ==
  /\ input = None
  /\ \E drafts \in DraftsFor(schema), gap \in Gaps :
       input' = [kind |-> "drafts", schema |-> schema, drafts |-> drafts, gap |-> gap]

Receive(schema) ==
  /\ input = None
  /\ \E payload \in Payloads :
       input' = [kind |-> "payload", schema |-> schema, payload |-> payload]

Open(schema) ==
  /\ input = None
  /\ input' = [kind |-> "schema", schema |-> schema]

Next == \E schema \in Schemas : Compose(schema) \/ Receive(schema) \/ Open(schema)

Spec == Init /\ [][Next]_input

-----------------------------------------------------------------------------
(* The schema as the pages see it, through the catalog.                    *)
Catalog(schema) == MapSchema(schema).value

Drops(text) == text # <<>> /\ Head(text) = "bom"

(* The time read, in milliseconds, and the one stored, in microseconds.    *)
SameTime(unit, read, stored) ==
  IF unit = "milliseconds" /\ read \notin -MaxExact..MaxExact
  THEN 2 * (stored - read * PerMilli) \in (1 - PerMilli)..(PerMilli - 1)
  ELSE stored = read * PerMilli

SameReading(rule, read, stored) ==
  IF rule.type = "datetime" THEN SameTime(rule.unit, read, stored)
  ELSE read = IF rule.source # Null /\ rule.type = "string" /\ Drops(stored)
              THEN Tail(stored) ELSE stored

(* A receipt of the simulator is no empty promise: what its parser         *)
(* processes (parsePayload) the server processes too, into the same        *)
(* readings; and what it fails the server fails.  Three differences of the *)
(* languages are known and stated: str.strip also removes U+001C,          *)
(* TextDecoder drops a byte order mark that a utf8 field starts with, and  *)
(* a time that comes in milliseconds is stored as Python's float of it,    *)
(* which beyond the year 2242 is some microseconds beside it, though still *)
(* the same millisecond when rounded.                                      *)
DecodersAgree ==
  input.kind = "payload" =>
    LET schema == input.schema
        simulator == ParsePayload(Catalog(schema), input.payload)
        server == PythonParse(schema, input.payload)
    IN /\ simulator.ok => server.ok
       /\ server.ok /\ "fs" \notin ToSet(input.payload) => simulator.ok
       /\ simulator.ok =>
            \A q \in DOMAIN schema.rules :
              SameReading(schema.rules[q], simulator.value.readings[q], server.value[q])

(* "builds valid payloads from the same database configuration"            *)
(* (ingest-api.md): a payload the composer shows (generatePayload) has the *)
(* length of the schema and is processed by the server into the values of  *)
(* the drafts, each as it was typed.                                       *)
GeneratedIsAccepted ==
  input.kind = "drafts" =>
    LET schema == input.schema
        generated == GeneratePayload(Catalog(schema), input.drafts, input.gap)
        server == PythonParse(schema, generated.value)
        Typed(f) == PythonDecode(schema.fields[f], Encode(input.drafts[f])).value
    IN generated.ok =>
         /\ Len(Encode(generated.value)) = GeneratedLength(schema)
         /\ server.ok
         /\ \A q \in DOMAIN schema.rules :
              schema.rules[q].source # Null =>
                server.value[q]
                  = CoerceParameterValue(schema.rules[q], Typed(schema.rules[q].source)).value

(* Replaying a receipt: the texts of the fields that parsePayload reports, *)
(* which selectReceipt makes the drafts again, are the drafts the payload  *)
(* was generated from, and so are those of extractFieldDrafts - unless one *)
(* starts with a byte order mark.                                          *)
ReplayRestores ==
  input.kind = "drafts" =>
    LET schema == Catalog(input.schema)
        generated == GeneratePayload(schema, input.drafts, input.gap)
        fields == ParsePayload(schema, generated.value).value.fields
    IN generated.ok /\ (\A f \in DOMAIN input.drafts : ~Drops(input.drafts[f])) =>
         /\ [f \in DOMAIN fields |-> fields[f].raw] = input.drafts
         /\ ExtractFieldDrafts(schema, generated.value) = Ok(input.drafts)

(* Every schema of the database passes the catalog (mapSchema), and the    *)
(* drafts the composer starts with (createFieldDrafts) and offers (the     *)
(* boolean options, the current time if the field is wide enough) generate *)
(* a payload.  Only a schema longer than the generator's limit is refused, *)
(* or one with a constant that cannot be projected, and then the server    *)
(* processes no payload of it either.  The current time is in the unit of  *)
(* the first rule that reads the field: if that one reads milliseconds,    *)
(* and another one seconds, the other one refuses it.                      *)
EditorStartsValid ==
  input.kind = "schema" =>
    LET schema == input.schema
        drafts == CreateFieldDrafts(schema)
        Starts(d) == \A gap \in Gaps : GeneratePayload(Catalog(schema), d, gap).ok
        With(f, text) == [drafts EXCEPT ![f] = text]
        Reads(f) == {q \in DOMAIN schema.rules : schema.rules[q].source = f}
        InMilliseconds(q) == schema.rules[q].unit = "milliseconds"
        Offers(f) ==
          CASE schema.fields[f].codec = "boolean" -> BooleanOptions(schema.fields[f])
            [] /\ schema.fields[f].role = "timestamp"
               /\ Reads(f) # {} /\ InMilliseconds(Min(Reads(f)))
                    => \A q \in Reads(f) : InMilliseconds(q) ->
                 {d \in {CurrentTimestampDraft(Catalog(schema), f, now) : now \in Nows} :
                    Len(d) = Width(schema.fields[f])}
            [] OTHER -> {}
    IN /\ MapSchema(schema).ok
       /\ \/ GeneratedLength(schema) > MaxPayload
          \/ /\ Starts(drafts)
             /\ \A f \in DOMAIN drafts : \A text \in Offers(f) : Starts(With(f, text))
          \/ /\ \E q \in DOMAIN schema.rules : schema.rules[q].source = Null
             /\ \A payload \in Payloads : ~PythonParse(schema, payload).ok
=============================================================================
