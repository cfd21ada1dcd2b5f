----------------------------- MODULE ResourceForm -----------------------------
(***************************************************************************)
(* The form that creates or edits one record of the administration         *)
(* workspace: resourceForms.ts behind RecordFormDialog.tsx, one table of   *)
(* fields for the thirteen resources instead of five switches over them.   *)
(*                                                                         *)
(* A draft holds the text of every input and the state of every checkbox.  *)
(* Trimmed is String.trim, and a number may be typed with zeros before it. *)
(* A constant of a rule is its JSON type and its text.  conversionConfig is its          *)
(* timestamp unit or Null.  The records do not change while the form is    *)
(* open, which is so in the workspace, whose dialogs are modal.            *)
(***************************************************************************)
EXTENDS Integers, FiniteSets, TLC

CONSTANTS
  Snapshot,       \* Snapshot[resource][id]: the records the form was given
  Trimmed(_),
  Emails,         \* texts that match \S+@\S+\.\S+
  LongTexts,      \* texts of at least eight characters
  Typed(_),       \* what is typed into an input of a kind
  Numbers,        \* safe integers
  NumberOf(_),    \* the one of them a text that matches -?\d+ stands for, or Null
  Unsigned,       \* texts that match \d+
  MaxChanges(_),  \* bound
  Null

VARIABLES
  resource, id,   \* id: Null or the record that is edited
  draft,
  touched,        \* the fields that were changed or cleared
  errors,
  saving,
  sent,           \* the payload that is being saved, or Null
  changes

vars == <<resource, id, draft, touched, errors, saving, sent, changes>>

Resources == DOMAIN Snapshot
Editing == id # Null
Record == Snapshot[resource][id]
Rows(table) == DOMAIN Snapshot[table]

-----------------------------------------------------------------------------
(* The fields: kind, initial text of a new record, least number.           *)
Field(kind, initial, least) == [kind |-> kind, initial |-> initial, least |-> least]
Text == Field("text", "", 0)
OptionalText == Field("optionalText", "", 0)
Reference == Field("number", "", 1)
OptionalReference == Field("optionalNumber", "", 1)
Flag == Field("flag", TRUE, 0)
Choice(initial) == Field("choice", initial, 0)

FieldsOf(r) ==
  CASE r = "users" ->
         [username |-> Text, email |-> Field("email", "", 0), firstName |-> Text,
          lastName |-> Text, password |-> Field("password", "", 0), isActive |-> Flag]
    [] r = "companies" -> [name |-> Text, userId |-> Reference]
    [] r = "gateways" ->
         [uid |-> Text, title |-> Text, companyId |-> OptionalReference, isActive |-> Flag]
    [] r = "devices" ->
         [gatewayId |-> Reference, deviceTypeId |-> Reference, localId |-> Text, isActive |-> Flag]
    [] r \in {"deviceTypes", "eventTypes"} -> [code |-> Text, title |-> Text]
    [] r = "parameters" ->
         [code |-> Text, title |-> Text, valueType |-> Choice("integer"), unit |-> OptionalText]
    [] r = "deviceTypeParameters" -> [deviceTypeId |-> Reference, parameterId |-> Reference]
    [] r = "payloadSchemas" ->
         [eventTypeId |-> Reference, deviceTypeId |-> Reference,
          version |-> Field("number", "1", 1), expectedLength |-> Field("optionalNumber", "", 1)]
    [] r = "payloadFields" ->
         [payloadSchemaId |-> Reference, code |-> Text, name |-> Text,
          startByte |-> Field("number", "0", 0), endByte |-> Field("number", "1", 1),
          wireCodec |-> Choice("integer"), role |-> Choice("metric")]
    [] r = "projectionRules" ->
         [payloadSchemaId |-> Reference, parameterId |-> Reference, sourceKind |-> Choice("field"),
          sourceFieldId |-> Reference, constantValue |-> Field("constant", "", 0),
          timestampUnit |-> Choice("")]
    [] r = "visualizationTabs" ->
         [deviceTypeId |-> Reference, code |-> Text, title |-> Text,
          sortOrder |-> Field("number", "0", 0), isActive |-> Flag]
    [] r = "visualizations" ->
         [tabId |-> Reference, title |-> Text, chartType |-> Choice("line"),
          xAxisId |-> OptionalReference, yAxisId |-> Reference,
          sortOrder |-> Field("number", "0", 0), isActive |-> Flag]

Names == DOMAIN FieldsOf(resource)
Kind(n) == FieldsOf(resource)[n].kind

(* draftValue *)
Shown(kind, v) ==
  CASE kind = "flag" -> v
    [] OTHER -> IF v = Null THEN ""
                ELSE IF kind = "constant" THEN v[2]
                ELSE IF kind \in {"number", "optionalNumber"} THEN ToString(v) ELSE v

InitialDraft(r, i) ==
  LET fields == FieldsOf(r)
  IN [n \in DOMAIN fields |->
        IF i = Null \/ n = "password" THEN fields[n].initial
        ELSE Shown(fields[n].kind, Snapshot[r][i][n])]

-----------------------------------------------------------------------------
(* updateFormDraft: the fields whose choices depend on another are cleared *)
(* with it.                                                                *)
Dependent(r, n) ==
  CASE r = "visualizations" /\ n = "tabId" -> {"xAxisId", "yAxisId"}
    [] r = "projectionRules" /\ n = "payloadSchemaId" ->
         {"parameterId", "sourceFieldId", "constantValue", "timestampUnit"}
    [] r = "projectionRules" /\ n = "parameterId" ->
         {"sourceFieldId", "constantValue", "timestampUnit"}
    [] r = "projectionRules" /\ n = "sourceKind" -> {"sourceFieldId", "constantValue"}
    [] OTHER -> {}

(* Mutant: only the field itself is changed.                               *)
UpdatedAlone(n, v) == [draft EXCEPT ![n] = v]

Updated(n, v) ==
  [m \in Names |-> IF m \in Dependent(resource, n) THEN ""
                   ELSE IF m = n THEN v ELSE draft[m]]

-----------------------------------------------------------------------------
(* getFormFields: what is asked for, and the options of the selects.       *)
Value(n) == Trimmed(draft[n])
NumberIn(n) == IF Value(n) \in Unsigned THEN NumberOf(Value(n)) ELSE Null

(* find: the row of a table a field names, or Null.                        *)
Found(table, n) ==
  IF NumberIn(n) \in Rows(table) THEN Snapshot[table][NumberIn(n)] ELSE Null
ParameterType ==
  LET p == Found("parameters", "parameterId") IN IF p = Null THEN Null ELSE p.valueType

Assigned(row) ==
  IF row = Null THEN {}
  ELSE {a.parameterId : a \in {Snapshot["deviceTypeParameters"][d] : d \in
          {e \in Rows("deviceTypeParameters") :
             Snapshot["deviceTypeParameters"][e].deviceTypeId = row.deviceTypeId}}}

(* Mutant: every numeric parameter is offered for an axis.                 *)
AnyChartParameters ==
  {p \in Rows("parameters") : Snapshot["parameters"][p].valueType \in {"integer", "datetime"}}

ChartParameters ==
  {p \in Assigned(Found("visualizationTabs", "tabId")) :
     Snapshot["parameters"][p].valueType \in {"integer", "datetime"}}

FreeUsers ==
  {u \in Rows("users") :
     /\ ~Snapshot["users"][u].isSuperuser
     /\ \A c \in Rows("companies") :
          (Editing => c # id) => Snapshot["companies"][c].userId # u}

Table(n) ==
  CASE n = "companyId" -> "companies" [] n = "gatewayId" -> "gateways"
    [] n = "deviceTypeId" -> "deviceTypes" [] n = "parameterId" -> "parameters"
    [] n = "eventTypeId" -> "eventTypes" [] n = "payloadSchemaId" -> "payloadSchemas"
    [] n = "tabId" -> "visualizationTabs"

OfferedIds(n) ==
  CASE n = "userId" -> FreeUsers
    [] n = "parameterId" /\ resource = "projectionRules" ->
         Assigned(Found("payloadSchemas", "payloadSchemaId"))
    [] n = "sourceFieldId" ->
         {f \in Rows("payloadFields") :
            Snapshot["payloadFields"][f].payloadSchemaId = NumberIn("payloadSchemaId")}
    [] n = "xAxisId" -> ChartParameters \ {NumberIn("yAxisId")}
    [] n = "yAxisId" -> ChartParameters \ {NumberIn("xAxisId")}
    [] OTHER -> Rows(Table(n))

Choices(n) ==
  CASE n = "valueType" -> {"integer", "datetime", "string", "boolean"}
    [] n = "wireCodec" -> {"integer", "utf8", "boolean"}
    [] n = "role" -> {"metric", "timestamp", "sequence", "checksum"}
    [] n = "sourceKind" -> {"field", "constant"}
    [] n = "chartType" -> {"line", "area", "bar"}
    [] n = "timestampUnit" -> {"seconds", "milliseconds"}

References == {"userId", "companyId", "gatewayId", "deviceTypeId", "parameterId", "eventTypeId",
               "payloadSchemaId", "tabId", "sourceFieldId", "xAxisId", "yAxisId"}
Selects == {n \in Names : n \in References \/ Kind(n) = "choice"}
Offered(n) == IF n \in References THEN {ToString(k) : k \in OfferedIds(n)} ELSE Choices(n)

Asked(n) ==
  CASE n = "password" -> ~Editing
    [] n = "sourceFieldId" -> draft.sourceKind # "constant"
    [] n = "constantValue" -> draft.sourceKind = "constant"
    [] n = "timestampUnit" -> ParameterType = "datetime"
    [] OTHER -> TRUE

Disabled(n) ==
  /\ resource = "gateways" /\ Editing
  /\ \/ n = "uid"
     \/ n = "companyId" /\ Record.companyId # Null

-----------------------------------------------------------------------------
(* buildFormPayload *)

(* Mutant: a constant is sent as it was typed.                             *)
Unread == <<"string", Value("constantValue")>>

(* parseConstant: the constant, or Null if it is not of the parameter's    *)
(* type.                                                                   *)
Constant ==
  LET raw == Value("constantValue")
  IN CASE ParameterType \in {Null, "string"} -> <<"string", raw>>
       [] ParameterType = "boolean" -> IF raw \in {"true", "false"} THEN <<"boolean", raw>> ELSE Null
       [] ParameterType \in {"integer", "datetime"} ->
            IF NumberOf(raw) # Null THEN <<"integer", ToString(NumberOf(raw))>> ELSE Null

Submitted(n) ==
  CASE n \in {"uid", "password"} -> ~Editing
    [] n = "timestampUnit" -> ParameterType = "datetime"
    [] OTHER -> Asked(n)

Read(n) ==
  CASE Kind(n) = "flag" -> draft[n]
    [] Kind(n) \in {"number", "optionalNumber"} -> NumberIn(n)
    [] Kind(n) = "constant" -> Constant
    [] Kind(n) = "password" -> draft[n]
    [] Kind(n) = "optionalText" \/ n = "timestampUnit" ->
         IF Value(n) = "" THEN Null ELSE Value(n)
    [] OTHER -> Value(n)

Wrong(n) ==
  CASE Kind(n) = "flag" \/ Kind(n) = "optionalText" \/ n = "timestampUnit" -> FALSE
    [] Kind(n) = "number" -> NumberIn(n) = Null \/ NumberIn(n) < FieldsOf(resource)[n].least
    [] Kind(n) = "optionalNumber" ->
         Value(n) # "" /\ (NumberIn(n) = Null \/ NumberIn(n) < FieldsOf(resource)[n].least)
    [] Kind(n) = "email" -> Value(n) \notin Emails
    [] Kind(n) = "password" -> Value(n) \notin LongTexts
    [] Kind(n) = "constant" -> Value(n) = "" \/ Constant = Null
    [] OTHER -> Value(n) = ""

(* The bounds of a payload field.                                          *)
BadSpan ==
  /\ resource = "payloadFields" /\ NumberIn("endByte") # Null
  /\ \/ NumberIn("startByte") # Null /\ NumberIn("endByte") <= NumberIn("startByte")
     \/ LET s == Found("payloadSchemas", "payloadSchemaId")
        IN s # Null /\ s.expectedLength # Null /\ NumberIn("endByte") > s.expectedLength

Errors ==
  {n \in Names : Submitted(n) /\ Wrong(n)} \cup (IF BadSpan THEN {"endByte"} ELSE {})

(* What is not asked for of a rule is sent as null, {} for its config.     *)
Payload ==
  LET sentNames == {n \in Names : Submitted(n) \/ n \in {"sourceFieldId", "constantValue", "timestampUnit"}}
  IN [n \in sentNames |-> IF Submitted(n) THEN Read(n) ELSE Null]

-----------------------------------------------------------------------------
Init ==
  /\ resource \in Resources
  /\ id \in {Null} \cup Rows(resource)
  /\ draft = InitialDraft(resource, id)
  /\ touched = {} /\ errors = {} /\ saving = FALSE /\ sent = Null /\ changes = 0

Inputs(n) ==
  IF Kind(n) = "flag" THEN BOOLEAN
  ELSE IF n \notin Selects THEN Typed(Kind(n))
  ELSE Offered(n) \cup {""}

Change(n, v) ==
  /\ ~saving /\ Asked(n) /\ ~Disabled(n) /\ changes < MaxChanges(resource)
  /\ v \in Inputs(n) /\ v # draft[n]
  /\ draft' = Updated(n, v)
  /\ touched' = touched \cup {n} \cup Dependent(resource, n)
  /\ changes' = changes + 1
  /\ UNCHANGED <<resource, id, errors, saving, sent>>

Submit ==
  /\ ~saving
  /\ errors' = Errors
  /\ IF Errors = {} THEN saving' = TRUE /\ sent' = Payload ELSE UNCHANGED <<saving, sent>>
  /\ UNCHANGED <<resource, id, draft, touched, changes>>

(* The server refuses the record and the form may be corrected.            *)
Refused ==
  /\ saving /\ saving' = FALSE /\ sent' = Null
  /\ UNCHANGED <<resource, id, draft, touched, errors, changes>>

Next == Submit \/ Refused \/ \E n \in Names : \E v \in Inputs(n) : Change(n, v)

Spec == Init /\ [][Next]_vars

-----------------------------------------------------------------------------
(* No select holds what it does not offer: whatever is chosen in whatever  *)
(* order, a choice that depended on another one is gone with it.  Only a   *)
(* value the record came with may have ceased to be offered.               *)
NoStaleChoice ==
  \A n \in Selects :
    Asked(n) /\ (n \in touched \/ ~Editing) => draft[n] \in Offered(n) \cup {""}

(* An edit sends back what was not edited as it was, but for surrounding   *)
(* blanks, and a blank unit is no unit: opening a record and saving it     *)
(* changes nothing, its ids, numbers, constants and unit survive the way   *)
(* through the draft, and an identity that cannot be changed is not sent.  *)
Kept(n) ==
  CASE Record[n] = Null -> Null
    [] Record[n] # Null /\ Kind(n) \in {"text", "email"} -> Trimmed(Record[n])
    [] Record[n] # Null /\ Kind(n) = "optionalText" ->
         IF Trimmed(Record[n]) = "" THEN Null ELSE Trimmed(Record[n])
    [] Record[n] # Null /\ Kind(n) = "constant" -> <<Record[n][1], Trimmed(Record[n][2])>>
    [] OTHER -> Record[n]
EditKeepsTheRest ==
  saving /\ Editing =>
    /\ \A n \in DOMAIN sent \ touched : sent[n] = Kept(n)
    /\ resource = "gateways" =>
         "uid" \notin DOMAIN sent /\ (Record.companyId # Null => sent.companyId = Record.companyId)

(* A rule, chart or field that the form lets through passes the checks of  *)
(* the server's models that the form can know: a rule has one source,      *)
(* of the schema, a parameter assigned to its device type, a unit only for *)
(* a datetime and a constant of the parameter's type; the axes of a chart  *)
(* are two numeric parameters of the tab's device type; a field lies       *)
(* within the payload.  An axis that was not chosen anew is as good as it  *)
(* was.  (Codec against type, and what must be unique, are left to the     *)
(* server.)                                                                *)
JsonType(valueType) == IF valueType = "datetime" THEN "integer" ELSE valueType
RuleIsClean(r) ==
  LET schema == Snapshot["payloadSchemas"][r.payloadSchemaId]
      type == Snapshot["parameters"][r.parameterId].valueType
  IN /\ r.parameterId \in Assigned(schema)
     /\ r.timestampUnit # Null => type = "datetime"
     /\ (r.sourceFieldId = Null) # (r.constantValue = Null)
     /\ r.sourceFieldId # Null =>
          Snapshot["payloadFields"][r.sourceFieldId].payloadSchemaId = r.payloadSchemaId
     /\ r.constantValue # Null => r.constantValue[1] = JsonType(type)
ChartIsClean(c) ==
  \A p \in {c.xAxisId, c.yAxisId} \ {Null} :
    /\ p \in Assigned(Snapshot["visualizationTabs"][c.tabId])
    /\ Snapshot["parameters"][p].valueType \in {"integer", "datetime"}
    /\ c.xAxisId # c.yAxisId
FieldIsClean(f) ==
  LET length == Snapshot["payloadSchemas"][f.payloadSchemaId].expectedLength
  IN f.startByte < f.endByte /\ (length # Null => f.endByte <= length)
SubmittedIsClean ==
  saving =>
    CASE resource = "projectionRules" -> RuleIsClean(sent)
      [] resource = "visualizations" ->
           ~Editing \/ {"xAxisId", "yAxisId"} \subseteq touched => ChartIsClean(sent)
      [] resource = "payloadFields" -> FieldIsClean(sent)
      [] OTHER -> TRUE

-----------------------------------------------------------------------------
(* The numbers a form shows can be read again, and none of them is blank   *)
(* or has blanks around it.                                                *)
ASSUME NumeralAssumption ==
  /\ Numbers \subseteq Int /\ Null \notin Numbers
  /\ \A k \in Numbers : ToString(k) # "" /\ Trimmed(ToString(k)) = ToString(k)
  /\ \A k \in Numbers : NumberOf(ToString(k)) = k /\ (k >= 0 => ToString(k) \in Unsigned)
  /\ \A t \in Unsigned : NumberOf(t) # Null => NumberOf(t) \in Numbers /\ NumberOf(t) >= 0
  /\ Trimmed("") = "" /\ "" \notin Unsigned

(* The table a reference names.                                            *)
Target(n) ==
  CASE n = "userId" -> "users"
    [] n = "sourceFieldId" -> "payloadFields"
    [] n \in {"xAxisId", "yAxisId"} -> "parameters"
    [] OTHER -> Table(n)

(* What the server stores of a field: numbers that are not negative, one   *)
(* of the choices, a text, or nothing where the field is optional.         *)
Stored(kind, n, v) ==
  /\ v = Null => kind \in {"optionalText", "optionalNumber", "constant", "flag"}
                 \/ n \in {"sourceFieldId", "timestampUnit"}
  /\ v # Null /\ kind \in {"number", "optionalNumber"} => v \in Numbers /\ v >= 0
  /\ v # Null /\ kind = "choice" => v \in Choices(n) /\ v # "" /\ Trimmed(v) = v

(* The records come from the server: their fields are stored as its models *)
(* declare, their foreign keys exist, and their rules are clean, with      *)
(* constants as JSON writes them.                                          *)
ASSUME SnapshotAssumption ==
  /\ Resources = {"users", "companies", "gateways", "devices", "deviceTypes", "eventTypes",
                  "parameters", "deviceTypeParameters", "payloadSchemas", "payloadFields",
                  "projectionRules", "visualizationTabs", "visualizations"}
  /\ \A r \in Resources : \A i \in Rows(r) :
       /\ i \in Numbers /\ i >= 0 /\ Snapshot[r][i] # Null
       /\ \A n \in DOMAIN FieldsOf(r) \ {"password"} :
            LET v == Snapshot[r][i][n]
            IN /\ Stored(FieldsOf(r)[n].kind, n, v)
               /\ n \in References /\ v # Null => v \in Rows(Target(n))
  /\ \A i \in Rows("projectionRules") :
       LET q == Snapshot["projectionRules"][i]
       IN /\ RuleIsClean(q) /\ (q.sourceKind = "constant") = (q.constantValue # Null)
          /\ q.constantValue # Null /\ q.constantValue[1] = "integer" =>
               \E k \in Numbers : q.constantValue[2] = ToString(k)
=============================================================================
