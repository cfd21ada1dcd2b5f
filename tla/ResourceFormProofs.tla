------------------------- MODULE ResourceFormProofs -------------------------
(***************************************************************************)
(* The form keeps its promises for every snapshot the server may hand it,  *)
(* every text that may be typed, and any number of changes.                *)
(***************************************************************************)
EXTENDS ResourceForm, TLAPS

Kinds == {"text", "optionalText", "email", "password", "number", "optionalNumber", "constant",
          "flag", "choice"}
OfRules == {"sourceKind", "sourceFieldId", "constantValue", "timestampUnit"}
OfCharts == {"xAxisId", "yAxisId"}
Special == References \cup OfRules \cup {"password"}

(* What the proofs need to know of field n of resource r.                  *)
FieldOK(r, n, f) ==
  /\ f.kind \in Kinds
  /\ f.kind \in {"number", "optionalNumber"} => f.least >= 0
  /\ n \in References => f.kind \in {"number", "optionalNumber"} /\ f.initial = ""
  /\ f.kind = "choice" => f.initial \in Choices(n) \cup {""}
  /\ f.kind = "constant" <=> n = "constantValue"
  /\ f.kind = "password" <=> n = "password"
  /\ n = "timestampUnit" => f.kind = "choice"
  /\ n \in OfRules => r = "projectionRules"
  /\ n \in OfCharts => r = "visualizations"

FieldsOK(r) == \A n \in DOMAIN FieldsOf(r) : FieldOK(r, n, FieldsOf(r)[n])

(* A field that is neither a reference nor a choice.                       *)
LEMMA PlainOK ==
  ASSUME NEW r, NEW n, n \notin Special,
         NEW kind \in {"text", "optionalText", "email", "number", "optionalNumber", "flag"},
         NEW initial, NEW least \in Nat
  PROVE  FieldOK(r, n, Field(kind, initial, least))
<1> DEFINE f == Field(kind, initial, least)
<1>1. f.kind = kind /\ f.least = least
  BY DEF Field
<1>2. least >= 0
  OBVIOUS
<1>3. kind \in Kinds /\ kind # "choice" /\ kind # "constant" /\ kind # "password"
  BY DEF Kinds
<1>4. n \notin References /\ n \notin OfRules /\ n # "password" /\ n # "constantValue"
  BY DEF Special, OfRules
<1>5. n \notin OfCharts /\ n # "timestampUnit"
  BY <1>4 DEF References, OfCharts, OfRules
<1> HIDE DEF f
<1>6. FieldOK(r, n, f)
  BY <1>1, <1>2, <1>3, <1>4, <1>5 DEF FieldOK
<1> QED  BY <1>6 DEF f

(* A reference.                                                            *)
LEMMA ReferenceOK ==
  ASSUME NEW r, NEW n \in References, NEW kind \in {"number", "optionalNumber"},
         n \in OfRules => r = "projectionRules", n \in OfCharts => r = "visualizations"
  PROVE  FieldOK(r, n, Field(kind, "", 1))
<1> DEFINE f == Field(kind, "", 1)
<1>1. f.kind = kind /\ f.initial = "" /\ f.least = 1
  BY DEF Field
<1>2. 1 >= 0
  OBVIOUS
<1>3. n # "password" /\ n # "constantValue" /\ n # "timestampUnit"
  BY DEF References
<1> HIDE DEF f
<1>4. FieldOK(r, n, f)
  BY <1>1, <1>2, <1>3 DEF FieldOK, Kinds
<1> QED  BY <1>4 DEF f

(* A choice.                                                               *)
LEMMA ChoiceOK ==
  ASSUME NEW r, NEW n, n \notin References \cup OfCharts \cup {"password", "constantValue"},
         n \in OfRules => r = "projectionRules",
         NEW initial, initial \in Choices(n) \/ initial = ""
  PROVE  FieldOK(r, n, Choice(initial))
<1> DEFINE f == Choice(initial)
<1>1. f.kind = "choice" /\ f.initial = initial
  BY DEF Choice, Field
<1>2. n \notin References /\ n \notin OfCharts /\ n # "password" /\ n # "constantValue"
  OBVIOUS
<1> HIDE DEF f
<1>3. FieldOK(r, n, f)
  BY <1>1, <1>2 DEF FieldOK, Kinds
<1> QED  BY <1>3 DEF f

(* The choices of each select.                                             *)
LEMMA ChoicesOf ==
  /\ Choices("valueType") = {"integer", "datetime", "string", "boolean"}
  /\ Choices("wireCodec") = {"integer", "utf8", "boolean"}
  /\ Choices("role") = {"metric", "timestamp", "sequence", "checksum"}
  /\ Choices("sourceKind") = {"field", "constant"}
  /\ Choices("chartType") = {"line", "area", "bar"}
  /\ Choices("timestampUnit") = {"seconds", "milliseconds"}
BY DEF Choices

(* The password and the constant.                                          *)
LEMMA PasswordOK == FieldOK("users", "password", Field("password", "", 0))
<1> DEFINE f == Field("password", "", 0)
<1>1. f.kind = "password"
  BY DEF Field
<1> HIDE DEF f
<1>2. FieldOK("users", "password", f)
  BY <1>1 DEF FieldOK, Kinds, References, OfRules, OfCharts
<1> QED  BY <1>2 DEF f

LEMMA ConstantOK == FieldOK("projectionRules", "constantValue", Field("constant", "", 0))
<1> DEFINE f == Field("constant", "", 0)
<1>1. f.kind = "constant"
  BY DEF Field
<1> HIDE DEF f
<1>2. FieldOK("projectionRules", "constantValue", f)
  BY <1>1 DEF FieldOK, Kinds, References, OfRules, OfCharts
<1> QED  BY <1>2 DEF f

(* The choices of the forms.                                               *)
LEMMA EveryChoiceOK ==
  /\ FieldOK("parameters", "valueType", Choice("integer"))
  /\ FieldOK("payloadFields", "wireCodec", Choice("integer"))
  /\ FieldOK("payloadFields", "role", Choice("metric"))
  /\ FieldOK("projectionRules", "sourceKind", Choice("field"))
  /\ FieldOK("projectionRules", "timestampUnit", Choice(""))
  /\ FieldOK("visualizations", "chartType", Choice("line"))
<1> DEFINE plain == {"valueType", "wireCodec", "role", "sourceKind", "timestampUnit", "chartType"}
<1>1. \A n \in plain : n \notin References \cup OfCharts \cup {"password", "constantValue"}
  BY DEF References, OfCharts
<1>2. \A n \in plain : n \in OfRules => n \in {"sourceKind", "timestampUnit"}
  BY DEF OfRules
<1>3. /\ "integer" \in Choices("valueType") /\ "integer" \in Choices("wireCodec")
      /\ "metric" \in Choices("role") /\ "field" \in Choices("sourceKind")
      /\ "line" \in Choices("chartType")
  BY ChoicesOf
<1> QED  BY <1>1, <1>2, <1>3, ChoiceOK

(* Every field of every resource is as said.                               *)
LEMMA EveryFieldOK == \A r \in Resources : FieldsOK(r)
<1> USE DEF FieldsOK
<1>1. FieldsOK("users")
  <2> DEFINE F == FieldsOf("users")
  <2>1. DOMAIN F = {"username", "email", "firstName", "lastName", "password", "isActive"}
    BY DEF FieldsOf
  <2>2. /\ F.username = Text /\ F.email = Field("email", "", 0) /\ F.firstName = Text
        /\ F.lastName = Text /\ F.password = Field("password", "", 0)
        /\ F.isActive = Flag
    BY DEF FieldsOf
  <2> HIDE DEF F
  <2>3. /\ FieldOK("users", "username", F.username)
        /\ FieldOK("users", "email", F.email)
        /\ FieldOK("users", "firstName", F.firstName)
        /\ FieldOK("users", "lastName", F.lastName)
        /\ FieldOK("users", "password", F.password)
        /\ FieldOK("users", "isActive", F.isActive)
    BY <2>2, PlainOK, PasswordOK
       DEF Text, Flag, Special, References, OfRules, OfCharts
  <2>4. \A n \in DOMAIN F : FieldOK("users", n, F[n])
    BY <2>1, <2>3
  <2> QED  BY <2>4 DEF F
<1>2. FieldsOK("companies")
  <2> DEFINE F == FieldsOf("companies")
  <2>1. DOMAIN F = {"name", "userId"}
    BY DEF FieldsOf
  <2>2. /\ F.name = Text /\ F.userId = Reference
    BY DEF FieldsOf
  <2> HIDE DEF F
  <2>3. /\ FieldOK("companies", "name", F.name)
        /\ FieldOK("companies", "userId", F.userId)
    BY <2>2, PlainOK, ReferenceOK
       DEF Text, Reference, Special, References, OfRules, OfCharts
  <2>4. \A n \in DOMAIN F : FieldOK("companies", n, F[n])
    BY <2>1, <2>3
  <2> QED  BY <2>4 DEF F
<1>3. FieldsOK("gateways")
  <2> DEFINE F == FieldsOf("gateways")
  <2>1. DOMAIN F = {"uid", "title", "companyId", "isActive"}
    BY DEF FieldsOf
  <2>2. /\ F.uid = Text /\ F.title = Text /\ F.companyId = OptionalReference
        /\ F.isActive = Flag
    BY DEF FieldsOf
  <2> HIDE DEF F
  <2>3. /\ FieldOK("gateways", "uid", F.uid) /\ FieldOK("gateways", "title", F.title)
        /\ FieldOK("gateways", "companyId", F.companyId)
        /\ FieldOK("gateways", "isActive", F.isActive)
    BY <2>2, PlainOK, ReferenceOK
       DEF Text, Flag, OptionalReference, Special, References, OfRules, OfCharts
  <2>4. \A n \in DOMAIN F : FieldOK("gateways", n, F[n])
    BY <2>1, <2>3
  <2> QED  BY <2>4 DEF F
<1>4. FieldsOK("devices")
  <2> DEFINE F == FieldsOf("devices")
  <2>1. DOMAIN F = {"gatewayId", "deviceTypeId", "localId", "isActive"}
    BY DEF FieldsOf
  <2>2. /\ F.gatewayId = Reference /\ F.deviceTypeId = Reference /\ F.localId = Text
        /\ F.isActive = Flag
    BY DEF FieldsOf
  <2> HIDE DEF F
  <2>3. /\ FieldOK("devices", "gatewayId", F.gatewayId)
        /\ FieldOK("devices", "deviceTypeId", F.deviceTypeId)
        /\ FieldOK("devices", "localId", F.localId)
        /\ FieldOK("devices", "isActive", F.isActive)
    BY <2>2, PlainOK, ReferenceOK, ZenonT(60)
       DEF Text, Flag, Reference, Special, References, OfRules, OfCharts
  <2>4. \A n \in DOMAIN F : FieldOK("devices", n, F[n])
    BY <2>1, <2>3
  <2> QED  BY <2>4 DEF F
<1>5. FieldsOK("deviceTypes")
  <2> DEFINE F == FieldsOf("deviceTypes")
  <2>1. DOMAIN F = {"code", "title"}
    BY DEF FieldsOf
  <2>2. /\ F.code = Text /\ F.title = Text
    BY DEF FieldsOf
  <2> HIDE DEF F
  <2>3. /\ FieldOK("deviceTypes", "code", F.code)
        /\ FieldOK("deviceTypes", "title", F.title)
    BY <2>2, PlainOK
       DEF Text, Special, References, OfRules, OfCharts
  <2>4. \A n \in DOMAIN F : FieldOK("deviceTypes", n, F[n])
    BY <2>1, <2>3
  <2> QED  BY <2>4 DEF F
<1>6. FieldsOK("eventTypes")
  <2> DEFINE F == FieldsOf("eventTypes")
  <2>1. DOMAIN F = {"code", "title"}
    BY DEF FieldsOf
  <2>2. /\ F.code = Text /\ F.title = Text
    BY DEF FieldsOf
  <2> HIDE DEF F
  <2>3. /\ FieldOK("eventTypes", "code", F.code)
        /\ FieldOK("eventTypes", "title", F.title)
    BY <2>2, PlainOK
       DEF Text, Special, References, OfRules, OfCharts
  <2>4. \A n \in DOMAIN F : FieldOK("eventTypes", n, F[n])
    BY <2>1, <2>3
  <2> QED  BY <2>4 DEF F
<1>7. FieldsOK("parameters")
  <2> DEFINE F == FieldsOf("parameters")
  <2>1. DOMAIN F = {"code", "title", "valueType", "unit"}
    BY DEF FieldsOf
  <2>2. /\ F.code = Text /\ F.title = Text /\ F.valueType = Choice("integer")
        /\ F.unit = OptionalText
    BY DEF FieldsOf
  <2> HIDE DEF F
  <2>3. /\ FieldOK("parameters", "code", F.code)
        /\ FieldOK("parameters", "title", F.title)
        /\ FieldOK("parameters", "valueType", F.valueType)
        /\ FieldOK("parameters", "unit", F.unit)
    BY <2>2, PlainOK, EveryChoiceOK
       DEF Text, OptionalText, Special, References, OfRules, OfCharts
  <2>4. \A n \in DOMAIN F : FieldOK("parameters", n, F[n])
    BY <2>1, <2>3
  <2> QED  BY <2>4 DEF F
<1>8. FieldsOK("deviceTypeParameters")
  <2> DEFINE F == FieldsOf("deviceTypeParameters")
  <2>1. DOMAIN F = {"deviceTypeId", "parameterId"}
    BY DEF FieldsOf
  <2>2. /\ F.deviceTypeId = Reference /\ F.parameterId = Reference
    BY DEF FieldsOf
  <2> HIDE DEF F
  <2>3. /\ FieldOK("deviceTypeParameters", "deviceTypeId", F.deviceTypeId)
        /\ FieldOK("deviceTypeParameters", "parameterId", F.parameterId)
    BY <2>2, ReferenceOK
       DEF Reference, Special, References, OfRules, OfCharts
  <2>4. \A n \in DOMAIN F : FieldOK("deviceTypeParameters", n, F[n])
    BY <2>1, <2>3
  <2> QED  BY <2>4 DEF F
<1>9. FieldsOK("payloadSchemas")
  <2> DEFINE F == FieldsOf("payloadSchemas")
  <2>1. DOMAIN F = {"eventTypeId", "deviceTypeId", "version", "expectedLength"}
    BY DEF FieldsOf
  <2>2. /\ F.eventTypeId = Reference /\ F.deviceTypeId = Reference
        /\ F.version = Field("number", "1", 1)
        /\ F.expectedLength = Field("optionalNumber", "", 1)
    BY DEF FieldsOf
  <2> HIDE DEF F
  <2>3. /\ FieldOK("payloadSchemas", "eventTypeId", F.eventTypeId)
        /\ FieldOK("payloadSchemas", "deviceTypeId", F.deviceTypeId)
        /\ FieldOK("payloadSchemas", "version", F.version)
        /\ FieldOK("payloadSchemas", "expectedLength", F.expectedLength)
    BY <2>2, PlainOK, ReferenceOK
       DEF Reference, Special, References, OfRules, OfCharts
  <2>4. \A n \in DOMAIN F : FieldOK("payloadSchemas", n, F[n])
    BY <2>1, <2>3
  <2> QED  BY <2>4 DEF F
<1>10. FieldsOK("payloadFields")
  <2> DEFINE F == FieldsOf("payloadFields")
  <2>1. DOMAIN F = {"payloadSchemaId", "code", "name", "startByte", "endByte",
                     "wireCodec", "role"}
    BY DEF FieldsOf
  <2>2. /\ F.payloadSchemaId = Reference /\ F.code = Text /\ F.name = Text
        /\ F.startByte = Field("number", "0", 0)
        /\ F.endByte = Field("number", "1", 1) /\ F.wireCodec = Choice("integer")
        /\ F.role = Choice("metric")
    BY DEF FieldsOf
  <2> HIDE DEF F
  <2>3. /\ FieldOK("payloadFields", "payloadSchemaId", F.payloadSchemaId)
        /\ FieldOK("payloadFields", "code", F.code)
        /\ FieldOK("payloadFields", "name", F.name)
        /\ FieldOK("payloadFields", "startByte", F.startByte)
        /\ FieldOK("payloadFields", "endByte", F.endByte)
        /\ FieldOK("payloadFields", "wireCodec", F.wireCodec)
        /\ FieldOK("payloadFields", "role", F.role)
    BY <2>2, PlainOK, ReferenceOK, EveryChoiceOK, ZenonT(60)
       DEF Text, Reference, Special, References, OfRules, OfCharts
  <2>4. \A n \in DOMAIN F : FieldOK("payloadFields", n, F[n])
    BY <2>1, <2>3
  <2> QED  BY <2>4 DEF F
<1>11. FieldsOK("projectionRules")
  <2> DEFINE F == FieldsOf("projectionRules")
  <2>1. DOMAIN F = {"payloadSchemaId", "parameterId", "sourceKind", "sourceFieldId",
                     "constantValue", "timestampUnit"}
    BY DEF FieldsOf
  <2>2. /\ F.payloadSchemaId = Reference /\ F.parameterId = Reference
        /\ F.sourceKind = Choice("field") /\ F.sourceFieldId = Reference
        /\ F.constantValue = Field("constant", "", 0) /\ F.timestampUnit = Choice("")
    BY DEF FieldsOf
  <2> HIDE DEF F
  <2>3. /\ FieldOK("projectionRules", "payloadSchemaId", F.payloadSchemaId)
        /\ FieldOK("projectionRules", "parameterId", F.parameterId)
        /\ FieldOK("projectionRules", "sourceKind", F.sourceKind)
        /\ FieldOK("projectionRules", "sourceFieldId", F.sourceFieldId)
        /\ FieldOK("projectionRules", "constantValue", F.constantValue)
        /\ FieldOK("projectionRules", "timestampUnit", F.timestampUnit)
    BY <2>2, ReferenceOK, EveryChoiceOK, ConstantOK
       DEF Reference, Special, References, OfRules, OfCharts
  <2>4. \A n \in DOMAIN F : FieldOK("projectionRules", n, F[n])
    BY <2>1, <2>3
  <2> QED  BY <2>4 DEF F
<1>12. FieldsOK("visualizationTabs")
  <2> DEFINE F == FieldsOf("visualizationTabs")
  <2>1. DOMAIN F = {"deviceTypeId", "code", "title", "sortOrder", "isActive"}
    BY DEF FieldsOf
  <2>2. /\ F.deviceTypeId = Reference /\ F.code = Text /\ F.title = Text
        /\ F.sortOrder = Field("number", "0", 0) /\ F.isActive = Flag
    BY DEF FieldsOf
  <2> HIDE DEF F
  <2>3. /\ FieldOK("visualizationTabs", "deviceTypeId", F.deviceTypeId)
        /\ FieldOK("visualizationTabs", "code", F.code)
        /\ FieldOK("visualizationTabs", "title", F.title)
        /\ FieldOK("visualizationTabs", "sortOrder", F.sortOrder)
        /\ FieldOK("visualizationTabs", "isActive", F.isActive)
    BY <2>2, PlainOK, ReferenceOK, ZenonT(60)
       DEF Text, Flag, Reference, Special, References, OfRules, OfCharts
  <2>4. \A n \in DOMAIN F : FieldOK("visualizationTabs", n, F[n])
    BY <2>1, <2>3
  <2> QED  BY <2>4 DEF F
<1>13. FieldsOK("visualizations")
  <2> DEFINE F == FieldsOf("visualizations")
  <2>1. DOMAIN F = {"tabId", "title", "chartType", "xAxisId", "yAxisId", "sortOrder",
                     "isActive"}
    BY DEF FieldsOf
  <2>2. /\ F.tabId = Reference /\ F.title = Text /\ F.chartType = Choice("line")
        /\ F.xAxisId = OptionalReference /\ F.yAxisId = Reference
        /\ F.sortOrder = Field("number", "0", 0) /\ F.isActive = Flag
    BY DEF FieldsOf
  <2> HIDE DEF F
  <2>3. /\ FieldOK("visualizations", "tabId", F.tabId)
        /\ FieldOK("visualizations", "title", F.title)
        /\ FieldOK("visualizations", "chartType", F.chartType)
        /\ FieldOK("visualizations", "xAxisId", F.xAxisId)
        /\ FieldOK("visualizations", "yAxisId", F.yAxisId)
        /\ FieldOK("visualizations", "sortOrder", F.sortOrder)
        /\ FieldOK("visualizations", "isActive", F.isActive)
    BY <2>2, PlainOK, ReferenceOK, EveryChoiceOK, ZenonT(60)
       DEF Text, Flag, Reference, OptionalReference, Special, References, OfRules, OfCharts
  <2>4. \A n \in DOMAIN F : FieldOK("visualizations", n, F[n])
    BY <2>1, <2>3
  <2> QED  BY <2>4 DEF F
<1> QED  BY <1>1, <1>2, <1>3, <1>4, <1>5, <1>6, <1>7, <1>8, <1>9, <1>10, <1>11, <1>12, <1>13,
            SnapshotAssumption
-----------------------------------------------------------------------------
(* The number a text stands for, or Null.                                  *)
Numeral(t) == IF Trimmed(t) \in Unsigned THEN NumberOf(Trimmed(t)) ELSE Null

(* A number that is shown is read again; a blank is no number; and what is *)
(* read is not negative.                                                   *)
LEMMA ReadAgain ==
  ASSUME NEW k \in Numbers, k >= 0
  PROVE  Numeral(ToString(k)) = k
BY NumeralAssumption DEF Numeral

LEMMA ReadBlank == Numeral("") = Null
BY NumeralAssumption DEF Numeral

LEMMA ReadNatural ==
  ASSUME NEW t, Numeral(t) # Null
  PROVE  Numeral(t) \in Numbers /\ Numeral(t) >= 0
BY NumeralAssumption DEF Numeral

LEMMA NumberInIs == \A n : NumberIn(n) = Numeral(draft[n])
BY DEF NumberIn, Value, Numeral

LEMMA NumberInNext == \A n : NumberIn(n)' = Numeral(draft'[n])
BY DEF NumberIn, Value, Numeral

(* Every row of the snapshot has a number and is there.                    *)
LEMMA RowIds ==
  ASSUME NEW r \in Resources, NEW i \in Rows(r)
  PROVE  i \in Numbers /\ i >= 0 /\ i # Null /\ Snapshot[r][i] # Null
BY SnapshotAssumption, NumeralAssumption

LEMMA StoredIn ==
  ASSUME NEW r \in Resources, NEW i \in Rows(r), NEW n \in DOMAIN FieldsOf(r), n # "password"
  PROVE  /\ Stored(FieldsOf(r)[n].kind, n, Snapshot[r][i][n])
         /\ n \in References /\ Snapshot[r][i][n] # Null => Snapshot[r][i][n] \in Rows(Target(n))
BY SnapshotAssumption

LEMMA FieldFacts ==
  ASSUME resource \in Resources, NEW n \in Names
  PROVE  FieldOK(resource, n, FieldsOf(resource)[n])
BY EveryFieldOK DEF FieldsOK, Names

(* The tables of the references.                                           *)
LEMMA Targets ==
  /\ Target("userId") = "users" /\ Target("companyId") = "companies"
  /\ Target("gatewayId") = "gateways" /\ Target("deviceTypeId") = "deviceTypes"
  /\ Target("parameterId") = "parameters" /\ Target("eventTypeId") = "eventTypes"
  /\ Target("payloadSchemaId") = "payloadSchemas" /\ Target("tabId") = "visualizationTabs"
  /\ Target("sourceFieldId") = "payloadFields" /\ Target("xAxisId") = "parameters"
  /\ Target("yAxisId") = "parameters"
BY DEF Target, Table

LEMMA TargetIsTable ==
  ASSUME NEW n \in References, n \notin {"userId", "sourceFieldId", "xAxisId", "yAxisId"}
  PROVE  Target(n) = Table(n)
BY DEF Target

LEMMA TargetIsThere == \A n \in References : Target(n) \in Resources
BY Targets, SnapshotAssumption DEF References

(* The kinds of the fields of the rules, the charts, the payload fields    *)
(* and the gateways.                                                       *)
LEMMA KindsOf ==
  /\ Text.kind = "text" /\ Flag.kind = "flag" /\ Reference.kind = "number"
  /\ OptionalReference.kind = "optionalNumber"
  /\ \A v : Choice(v).kind = "choice"
  /\ \A v, k : Field("number", v, k).kind = "number"
  /\ \A v, k : Field("optionalNumber", v, k).kind = "optionalNumber"
  /\ \A v, k : Field("constant", v, k).kind = "constant"
BY DEF Text, Flag, Reference, OptionalReference, Choice, Field

LEMMA RuleFields ==
  /\ DOMAIN FieldsOf("projectionRules") =
       {"payloadSchemaId", "parameterId", "sourceKind", "sourceFieldId", "constantValue",
        "timestampUnit"}
  /\ FieldsOf("projectionRules")["payloadSchemaId"].kind = "number"
  /\ FieldsOf("projectionRules")["parameterId"].kind = "number"
  /\ FieldsOf("projectionRules")["sourceKind"].kind = "choice"
  /\ FieldsOf("projectionRules")["sourceFieldId"].kind = "number"
  /\ FieldsOf("projectionRules")["constantValue"].kind = "constant"
  /\ FieldsOf("projectionRules")["timestampUnit"].kind = "choice"
<1> DEFINE F == FieldsOf("projectionRules")
<1>1. DOMAIN F = {"payloadSchemaId", "parameterId", "sourceKind", "sourceFieldId",
                  "constantValue", "timestampUnit"}
  BY DEF FieldsOf
<1>2. /\ F.payloadSchemaId = Reference /\ F.parameterId = Reference
      /\ F.sourceKind = Choice("field") /\ F.sourceFieldId = Reference
      /\ F.constantValue = Field("constant", "", 0) /\ F.timestampUnit = Choice("")
  BY DEF FieldsOf
<1> HIDE DEF F
<1>3. /\ F.payloadSchemaId.kind = "number" /\ F.parameterId.kind = "number"
      /\ F.sourceKind.kind = "choice" /\ F.sourceFieldId.kind = "number"
      /\ F.constantValue.kind = "constant" /\ F.timestampUnit.kind = "choice"
  BY <1>2, KindsOf
<1> QED  BY <1>1, <1>3 DEF F

LEMMA ChartFields ==
  /\ DOMAIN FieldsOf("visualizations") =
       {"tabId", "title", "chartType", "xAxisId", "yAxisId", "sortOrder", "isActive"}
  /\ FieldsOf("visualizations")["tabId"].kind = "number"
  /\ FieldsOf("visualizations")["xAxisId"].kind = "optionalNumber"
  /\ FieldsOf("visualizations")["yAxisId"].kind = "number"
<1> DEFINE F == FieldsOf("visualizations")
<1>1. DOMAIN F = {"tabId", "title", "chartType", "xAxisId", "yAxisId", "sortOrder", "isActive"}
  BY DEF FieldsOf
<1>2. F.tabId = Reference /\ F.xAxisId = OptionalReference /\ F.yAxisId = Reference
  BY DEF FieldsOf
<1> HIDE DEF F
<1>3. F.tabId.kind = "number" /\ F.xAxisId.kind = "optionalNumber" /\ F.yAxisId.kind = "number"
  BY <1>2, KindsOf
<1> QED  BY <1>1, <1>3 DEF F

LEMMA SpanFields ==
  /\ {"payloadSchemaId", "startByte", "endByte"} \subseteq DOMAIN FieldsOf("payloadFields")
  /\ FieldsOf("payloadFields")["payloadSchemaId"].kind = "number"
  /\ FieldsOf("payloadFields")["startByte"].kind = "number"
  /\ FieldsOf("payloadFields")["endByte"].kind = "number"
<1> DEFINE F == FieldsOf("payloadFields")
<1>1. {"payloadSchemaId", "startByte", "endByte"} \subseteq DOMAIN F
  BY DEF FieldsOf
<1>2. /\ F.payloadSchemaId = Reference /\ F.startByte = Field("number", "0", 0)
      /\ F.endByte = Field("number", "1", 1)
  BY DEF FieldsOf
<1> HIDE DEF F
<1>3. F.payloadSchemaId.kind = "number" /\ F.startByte.kind = "number" /\ F.endByte.kind = "number"
  BY <1>2, KindsOf
<1> QED  BY <1>1, <1>3 DEF F

LEMMA GatewayFields ==
  /\ "companyId" \in DOMAIN FieldsOf("gateways")
  /\ FieldsOf("gateways")["companyId"].kind = "optionalNumber"
<1> DEFINE F == FieldsOf("gateways")
<1>1. "companyId" \in DOMAIN F /\ F.companyId = OptionalReference
  BY DEF FieldsOf
<1> HIDE DEF F
<1> QED  BY <1>1, KindsOf DEF F

(* Only existing parameters are assigned to a device type.                 *)
LEMMA AssignedIds ==
  ASSUME NEW row
  PROVE  Assigned(row) \subseteq Rows("parameters")
<1> SUFFICES ASSUME NEW d \in Rows("deviceTypeParameters")
             PROVE  Snapshot["deviceTypeParameters"][d].parameterId \in Rows("parameters")
  BY DEF Assigned
<1> DEFINE v == Snapshot["deviceTypeParameters"][d].parameterId
<1>1. "deviceTypeParameters" \in Resources /\ "parameterId" \in References
  BY SnapshotAssumption DEF References
<1>2. /\ "parameterId" \in DOMAIN FieldsOf("deviceTypeParameters")
      /\ FieldsOf("deviceTypeParameters")["parameterId"] = Reference
  BY DEF FieldsOf
<1>3. FieldsOf("deviceTypeParameters")["parameterId"].kind = "number"
  BY <1>2, KindsOf
<1>4. Stored("number", "parameterId", v) /\ (v # Null => v \in Rows("parameters"))
  BY <1>1, <1>2, <1>3, StoredIn, Targets
<1>5. v \in Numbers
  BY <1>4 DEF Stored
<1> QED  BY <1>4, <1>5, NumeralAssumption

(* What a select offers are rows of its table.                             *)
LEMMA OfferedIdsAreRows ==
  ASSUME NEW n \in References
  PROVE  OfferedIds(n) \subseteq Rows(Target(n))
<1>1. CASE n = "userId"
  BY <1>1, Targets DEF OfferedIds, FreeUsers
<1>2. CASE n = "parameterId" /\ resource = "projectionRules"
  BY <1>2, Targets, AssignedIds DEF OfferedIds
<1>3. CASE n = "sourceFieldId"
  BY <1>3, Targets DEF OfferedIds
<1>4. ChartParameters \subseteq Rows("parameters")
  BY AssignedIds DEF ChartParameters
<1>5. CASE n = "xAxisId"
  BY <1>4, <1>5, Targets DEF OfferedIds
<1>6. CASE n = "yAxisId"
  BY <1>4, <1>6, Targets DEF OfferedIds
<1>7. CASE /\ n \notin {"userId", "sourceFieldId", "xAxisId", "yAxisId"}
           /\ ~(n = "parameterId" /\ resource = "projectionRules")
  <2>1. OfferedIds(n) = Rows(Table(n))
    BY <1>7 DEF OfferedIds
  <2> QED  BY <1>7, <2>1, TargetIsTable
<1> QED  BY <1>1, <1>2, <1>3, <1>5, <1>6, <1>7

(* A reference that is offered, or blank, is read as what is offered.      *)
LEMMA OfferedIsRead ==
  ASSUME NEW n \in References, draft[n] \in Offered(n) \/ draft[n] = ""
  PROVE  NumberIn(n) \in OfferedIds(n) \/ NumberIn(n) = Null
<1>1. CASE draft[n] = ""
  BY <1>1, NumberInIs, ReadBlank
<1>2. CASE draft[n] \in Offered(n)
  <2>1. PICK k \in OfferedIds(n) : draft[n] = ToString(k)
    BY <1>2 DEF Offered
  <2>2. k \in Numbers /\ k >= 0
    BY <2>1, OfferedIdsAreRows, TargetIsThere, RowIds
  <2>3. NumberIn(n) = k
    BY <2>1, <2>2, NumberInIs, ReadAgain
  <2> QED  BY <2>3
<1> QED  BY <1>1, <1>2

-----------------------------------------------------------------------------
(* What holds in every state.                                              *)
Shape ==
  /\ resource \in Resources
  /\ Editing => id \in Rows(resource)
  /\ touched \subseteq Names
Closed == \A m \in touched : Dependent(resource, m) \subseteq touched
Untouched == \A n \in Names \ touched : draft[n] = InitialDraft(resource, id)[n]
Locked ==
  resource = "gateways" /\ Editing =>
    (Record.companyId # Null => "companyId" \notin touched)
Chosen ==
  \A n \in Selects :
    n \in touched \/ ~Editing => draft[n] \in Offered(n) \/ draft[n] = ""
Ready == saving => sent = Payload /\ Errors = {}

FormInv == Shape /\ Closed /\ Untouched /\ Locked /\ Chosen /\ Ready

-----------------------------------------------------------------------------
(* What is cleared with a field are fields of the form, and what depends   *)
(* on them is cleared too.                                                 *)
LEMMA Dependents ==
  ASSUME resource \in Resources, NEW n
  PROVE  /\ Dependent(resource, n) \subseteq Names
         /\ n \notin Dependent(resource, n)
         /\ \A m \in Dependent(resource, n) :
              Dependent(resource, m) \subseteq Dependent(resource, n)
<1>1. CASE resource = "projectionRules"
  <2>1. Names = {"payloadSchemaId", "parameterId", "sourceKind", "sourceFieldId",
                 "constantValue", "timestampUnit"}
    BY <1>1, RuleFields DEF Names
  <2> QED  BY <1>1, <2>1 DEF Dependent
<1>2. CASE resource = "visualizations"
  <2>1. {"xAxisId", "yAxisId"} \subseteq Names
    BY <1>2, ChartFields DEF Names
  <2> QED  BY <1>2, <2>1 DEF Dependent
<1>3. CASE resource \notin {"projectionRules", "visualizations"}
  <2>1. \A m : Dependent(resource, m) = {}
    BY <1>3 DEF Dependent
  <2> QED  BY <2>1
<1> QED  BY <1>1, <1>2, <1>3

(* The fields that what select m offers depends on.                        *)
Reads(r, m) ==
  CASE m = "sourceFieldId" \/ (m = "parameterId" /\ r = "projectionRules") -> {"payloadSchemaId"}
    [] m = "xAxisId" -> {"tabId", "yAxisId"}
    [] m = "yAxisId" -> {"tabId", "xAxisId"}
    [] OTHER -> {}

(* As long as these are the same, the select offers the same.              *)
LEMMA NumberReads ==
  ASSUME NEW n, draft'[n] = draft[n]
  PROVE  /\ NumberIn(n)' = NumberIn(n)
         /\ \A table : Found(table, n)' = Found(table, n)
<1>1. NumberIn(n)' = NumberIn(n)
  BY NumberInIs DEF NumberIn, Value
<1> QED  BY <1>1 DEF Found

LEMMA ChartParametersRead ==
  ASSUME draft'["tabId"] = draft["tabId"]
  PROVE  ChartParameters' = ChartParameters
<1>1. Found("visualizationTabs", "tabId")' = Found("visualizationTabs", "tabId")
  BY NumberReads
<1> QED  BY <1>1 DEF ChartParameters

LEMMA OfferedReads ==
  ASSUME UNCHANGED <<resource, id>>, NEW m, \A k \in Reads(resource, m) : draft'[k] = draft[k]
  PROVE  Offered(m)' = Offered(m)
<1>1. resource' = resource /\ id' = id
  OBVIOUS
<1>2. FreeUsers' = FreeUsers
  BY <1>1 DEF FreeUsers, Editing
<1>3. CASE m = "sourceFieldId" \/ (m = "parameterId" /\ resource = "projectionRules")
  <2>1. draft'["payloadSchemaId"] = draft["payloadSchemaId"]
    BY <1>3 DEF Reads
  <2>2. /\ NumberIn("payloadSchemaId")' = NumberIn("payloadSchemaId")
        /\ Found("payloadSchemas", "payloadSchemaId")' = Found("payloadSchemas", "payloadSchemaId")
    BY <2>1, NumberReads
  <2>3. OfferedIds(m)' = OfferedIds(m)
    BY <1>1, <1>3, <2>2 DEF OfferedIds
  <2> QED  BY <2>3 DEF Offered
<1>4. CASE m = "xAxisId" \/ m = "yAxisId"
  <2>1. /\ draft'["tabId"] = draft["tabId"]
        /\ m = "xAxisId" => draft'["yAxisId"] = draft["yAxisId"]
        /\ m = "yAxisId" => draft'["xAxisId"] = draft["xAxisId"]
    BY <1>4 DEF Reads
  <2>2. /\ m = "xAxisId" => NumberIn("yAxisId")' = NumberIn("yAxisId")
        /\ m = "yAxisId" => NumberIn("xAxisId")' = NumberIn("xAxisId")
    BY <2>1, NumberReads
  <2>3. ChartParameters' = ChartParameters
    BY <2>1, ChartParametersRead
  <2>4. OfferedIds(m)' = OfferedIds(m)
    BY <1>4, <2>2, <2>3 DEF OfferedIds
  <2> QED  BY <2>4 DEF Offered
<1>5. CASE /\ m # "sourceFieldId" /\ m # "xAxisId" /\ m # "yAxisId"
           /\ ~(m = "parameterId" /\ resource = "projectionRules")
  <2>1. OfferedIds(m)' = OfferedIds(m)
    BY <1>1, <1>2, <1>5 DEF OfferedIds
  <2> QED  BY <2>1 DEF Offered
<1> QED  BY <1>3, <1>4, <1>5

(* A change of n leaves alone what the select m reads, unless it clears m  *)
(* or n and m are the two axes.                                            *)
LEMMA ReadsAreKept ==
  ASSUME resource \in Resources, NEW m \in Selects, NEW n \in Names,
         m \notin Dependent(resource, n), m \notin OfCharts \/ n \notin OfCharts \/ m = n,
         NEW k \in Reads(resource, m)
  PROVE  k \in Names /\ k # n /\ k \notin Dependent(resource, n)
<1>1. m \in Names
  BY DEF Selects
<1>2. CASE m = "sourceFieldId" \/ (m = "parameterId" /\ resource = "projectionRules")
  <2>1. resource = "projectionRules"
    BY <1>1, <1>2, FieldFacts DEF FieldOK, OfRules
  <2>2. k = "payloadSchemaId"
    BY <1>2 DEF Reads
  <2> QED  BY <1>2, <2>1, <2>2, RuleFields DEF Names, Dependent
<1>3. CASE m \in OfCharts
  <2>1. resource = "visualizations"
    BY <1>1, <1>3, FieldFacts DEF FieldOK
  <2>2. k \in {"tabId", "xAxisId", "yAxisId"} /\ k # m
    BY <1>3 DEF Reads, OfCharts
  <2>3. n # "tabId"
    BY <1>3, <2>1 DEF Dependent, OfCharts
  <2>4. Dependent(resource, n) = {}
    BY <2>1, <2>3 DEF Dependent
  <2>5. k # n
    BY <1>3, <2>2, <2>3 DEF OfCharts
  <2> QED  BY <2>1, <2>2, <2>4, <2>5, ChartFields DEF Names
<1> QED  BY <1>2, <1>3 DEF Reads, OfCharts

(* Choosing one axis leaves the other among what is offered.               *)
LEMMA AxisStays ==
  ASSUME UNCHANGED <<resource, id>>, NEW m \in OfCharts, NEW n \in OfCharts, m # n,
         draft[m] \in Offered(m) \/ draft[m] = "",
         draft'["tabId"] = draft["tabId"], draft'[m] = draft[m],
         NEW v, v \in Offered(n) \/ v = "", draft'[n] = v
  PROVE  draft'[m] \in Offered(m)' \/ draft'[m] = ""
<1> SUFFICES ASSUME draft[m] \in Offered(m)
             PROVE  draft'[m] \in Offered(m)'
  OBVIOUS
<1>1. m \in References /\ n \in References
  BY DEF OfCharts, References
<1>2. PICK j \in OfferedIds(m) : draft[m] = ToString(j)
  BY <1>1 DEF Offered
<1>3. j \in Numbers /\ j >= 0 /\ j # Null
  BY <1>1, <1>2, OfferedIdsAreRows, TargetIsThere, RowIds
<1>4. NumberIn(m) = j
  BY <1>2, <1>3, NumberInIs, ReadAgain
<1>5. ChartParameters' = ChartParameters
  BY ChartParametersRead
<1>6. /\ OfferedIds(m) = ChartParameters \ {NumberIn(n)}
      /\ OfferedIds(n) = ChartParameters \ {NumberIn(m)}
      /\ OfferedIds(m)' = ChartParameters' \ {NumberIn(n)'}
  BY DEF OfferedIds, OfCharts
<1>7. NumberIn(n)' = Numeral(v)
  BY NumberInNext
<1>8. Numeral(v) # j
  <2>1. CASE v = ""
    BY <1>3, <2>1, ReadBlank
  <2>2. CASE v \in Offered(n)
    <3>1. PICK k \in OfferedIds(n) : v = ToString(k)
      BY <1>1, <2>2 DEF Offered
    <3>2. k \in Numbers /\ k >= 0 /\ k # j
      BY <1>1, <1>4, <1>6, <3>1, OfferedIdsAreRows, TargetIsThere, RowIds
    <3> QED  BY <3>1, <3>2, ReadAgain
  <2> QED  BY <2>1, <2>2
<1>9. j \in OfferedIds(m)'
  BY <1>2, <1>5, <1>6, <1>7, <1>8
<1> QED  BY <1>1, <1>2, <1>9 DEF Offered

-----------------------------------------------------------------------------
(* What would be sent depends on the record and the draft alone.           *)
LEMMA SentReads ==
  ASSUME UNCHANGED <<resource, id, draft>>
  PROVE  Payload' = Payload /\ Errors' = Errors
<1>1. resource' = resource /\ id' = id /\ draft' = draft
  OBVIOUS
<1>2. /\ \A n : NumberIn(n)' = NumberIn(n)
      /\ \A n : Value(n)' = Value(n)
      /\ \A table, n : Found(table, n)' = Found(table, n)
  BY <1>1, NumberReads DEF Value
<1>3. ParameterType' = ParameterType
  BY <1>2 DEF ParameterType
<1>4. \A n : Asked(n)' = Asked(n) /\ Submitted(n)' = Submitted(n)
  BY <1>1, <1>3 DEF Asked, Submitted, Editing
<1>5. Constant' = Constant
  BY <1>2, <1>3 DEF Constant
<1>6. Names' = Names /\ \A n : Kind(n)' = Kind(n)
  BY <1>1 DEF Names, Kind
<1>7. \A n : Read(n)' = Read(n)
  BY <1>1, <1>2, <1>5, <1>6 DEF Read
<1>8. \A n : Wrong(n)' = Wrong(n)
  BY <1>1, <1>2, <1>5, <1>6 DEF Wrong
<1>9. BadSpan' = BadSpan
  BY <1>1, <1>2 DEF BadSpan
<1>10. Payload' = Payload
  BY <1>4, <1>6, <1>7 DEF Payload
<1>11. Errors' = Errors
  BY <1>4, <1>6, <1>8, <1>9 DEF Errors
<1> QED  BY <1>10, <1>11

(* As long as the draft is the same, the form is as it was.                *)
LEMMA FormKept ==
  ASSUME FormInv, UNCHANGED <<resource, id, draft, touched>>,
         saving' => sent' = Payload /\ Errors = {}
  PROVE  FormInv'
<1>1. resource' = resource /\ id' = id /\ draft' = draft /\ touched' = touched
  OBVIOUS
<1>2. Names' = Names /\ Selects' = Selects
  BY <1>1 DEF Names, Selects, Kind
<1>3. \A n : Offered(n)' = Offered(n)
  BY <1>1, OfferedReads
<1>4. Shape' /\ Closed' /\ Untouched' /\ Locked'
  BY <1>1, <1>2 DEF FormInv, Shape, Closed, Untouched, Locked, Editing, Record
<1>5. Chosen'
  BY <1>1, <1>2, <1>3 DEF FormInv, Chosen, Editing
<1>6. Ready'
  BY SentReads DEF Ready
<1> QED  BY <1>4, <1>5, <1>6 DEF FormInv

LEMMA InitForm == Init => FormInv
<1> SUFFICES ASSUME Init PROVE FormInv
  OBVIOUS
<1>1. Shape
  BY DEF Init, Shape, Editing
<1>2. Closed /\ Locked /\ Ready
  BY DEF Init, Closed, Locked, Ready
<1>3. Untouched
  BY DEF Init, Untouched
<1>4. Chosen
  <2> SUFFICES ASSUME NEW n \in Selects, ~Editing
               PROVE  draft[n] \in Offered(n) \/ draft[n] = ""
    BY DEF Chosen, Init
  <2>1. n \in Names
    BY DEF Selects
  <2>2. draft[n] = FieldsOf(resource)[n].initial
    BY <2>1 DEF Init, Editing, InitialDraft, Names
  <2>3. FieldOK(resource, n, FieldsOf(resource)[n])
    BY <1>1, <2>1, FieldFacts DEF Shape
  <2>4. CASE n \in References
    BY <2>2, <2>3, <2>4 DEF FieldOK
  <2>5. CASE n \notin References
    <3>1. FieldsOf(resource)[n].kind = "choice"
      BY <2>5 DEF Selects, Kind
    <3> QED  BY <2>2, <2>3, <2>5, <3>1 DEF FieldOK, Offered
  <2> QED  BY <2>4, <2>5
<1> QED  BY <1>1, <1>2, <1>3, <1>4 DEF FormInv

(* A change clears what depended on what was changed, so that every choice *)
(* is still offered.                                                       *)
LEMMA ChangeForm ==
  ASSUME FormInv, NEW n \in Names, NEW v, Change(n, v)
  PROVE  FormInv'
<1>1. /\ resource' = resource /\ id' = id
      /\ ~saving /\ saving' = saving
      /\ draft' = Updated(n, v) /\ touched' = touched \cup {n} \cup Dependent(resource, n)
      /\ ~Disabled(n) /\ v \in Inputs(n)
  BY DEF Change
<1>2. /\ Names' = Names /\ Selects' = Selects /\ Editing' = Editing
      /\ resource \in Resources
  BY <1>1 DEF Names, Selects, Kind, Editing, FormInv, Shape
<1>3. \A m \in Names : draft'[m] = IF m \in Dependent(resource, n) THEN ""
                                   ELSE IF m = n THEN v ELSE draft[m]
  BY <1>1 DEF Updated
<1>4. /\ Dependent(resource, n) \subseteq Names
      /\ n \notin Dependent(resource, n)
      /\ \A m \in Dependent(resource, n) : Dependent(resource, m) \subseteq Dependent(resource, n)
  BY <1>2, Dependents
<1>5. Shape'
  BY <1>1, <1>2, <1>4 DEF FormInv, Shape
<1>6. Closed'
  BY <1>1, <1>4 DEF FormInv, Closed
<1>7. Untouched'
  BY <1>1, <1>2, <1>3 DEF FormInv, Untouched
<1>8. Locked'
  <2> SUFFICES ASSUME resource = "gateways", Editing, Record.companyId # Null
               PROVE  "companyId" \notin touched'
    BY <1>1, <1>2 DEF Locked, Record
  <2>1. n # "companyId"
    BY <1>1 DEF Disabled
  <2>2. Dependent(resource, n) = {}
    BY DEF Dependent
  <2> QED  BY <1>1, <2>1, <2>2 DEF FormInv, Locked
<1>9. Chosen'
  <2> SUFFICES ASSUME NEW m \in Selects, m \in touched' \/ ~Editing
               PROVE  draft'[m] \in Offered(m)' \/ draft'[m] = ""
    BY <1>2 DEF Chosen
  <2>1. m \in Names
    BY DEF Selects
  <2>2. CASE m \in Dependent(resource, n)
    BY <1>3, <2>1, <2>2
  <2>3. CASE m \notin Dependent(resource, n) /\ (m \notin OfCharts \/ n \notin OfCharts \/ m = n)
    <3>1. \A k \in Reads(resource, m) : draft'[k] = draft[k]
      BY <1>2, <1>3, <2>3, ReadsAreKept
    <3>2. Offered(m)' = Offered(m)
      BY <1>1, <3>1, OfferedReads
    <3>3. CASE m = n
      <4>1. Kind(n) # "flag"
        BY <1>2, <2>1, <3>3, FieldFacts DEF Selects, Kind, FieldOK
      <4>2. v \in Offered(n) \/ v = ""
        BY <1>1, <3>3, <4>1 DEF Inputs
      <4> QED  BY <1>3, <2>1, <2>3, <3>2, <3>3, <4>2
    <3>4. CASE m # n
      <4>1. m \in touched \/ ~Editing
        BY <1>1, <2>3, <3>4
      <4> QED  BY <1>3, <2>1, <2>3, <3>2, <3>4, <4>1 DEF FormInv, Chosen
    <3> QED  BY <3>3, <3>4
  <2>4. CASE m \notin Dependent(resource, n) /\ m \in OfCharts /\ n \in OfCharts /\ m # n
    <3>1. n \in Selects /\ Kind(n) # "flag"
      <4>1. n \in References
        BY <2>4 DEF OfCharts, References
      <4> QED  BY <1>2, <4>1, FieldFacts DEF Selects, Kind, FieldOK
    <3>2. v \in Offered(n) \/ v = ""
      BY <1>1, <3>1 DEF Inputs
    <3>3. resource = "visualizations"
      BY <1>2, <2>4, FieldFacts DEF FieldOK
    <3>4. draft'["tabId"] = draft["tabId"]
      <4>1. "tabId" \in Names /\ n # "tabId" /\ Dependent(resource, n) = {}
        BY <2>4, <3>3, ChartFields DEF Names, OfCharts, Dependent
      <4> QED  BY <1>3, <4>1
    <3>5. draft'[m] = draft[m] /\ draft'[n] = v
      BY <1>3, <1>4, <2>1, <2>4
    <3>6. draft[m] \in Offered(m) \/ draft[m] = ""
      BY <1>1, <2>4 DEF FormInv, Chosen
    <3> QED  BY <1>1, <2>4, <3>2, <3>4, <3>5, <3>6, AxisStays
  <2> QED  BY <2>2, <2>3, <2>4
<1>10. Ready'
  BY <1>1 DEF Ready
<1> QED  BY <1>5, <1>6, <1>7, <1>8, <1>9, <1>10 DEF FormInv

LEMMA NextForm == FormInv /\ [Next]_vars => FormInv'
<1> SUFFICES ASSUME FormInv, [Next]_vars PROVE FormInv'
  OBVIOUS
<1>1. CASE Submit
  <2>1. /\ UNCHANGED <<resource, id, draft, touched>> /\ ~saving
        /\ Errors = {} => sent' = Payload
        /\ Errors # {} => saving' = saving
    BY <1>1 DEF Submit
  <2> QED  BY <2>1, FormKept
<1>2. CASE Refused
  <2>1. UNCHANGED <<resource, id, draft, touched>> /\ ~saving'
    BY <1>2 DEF Refused
  <2> QED  BY <2>1, FormKept
<1>3. ASSUME NEW n \in Names, NEW v, Change(n, v) PROVE FormInv'
  BY <1>3, ChangeForm
<1>4. CASE UNCHANGED vars
  <2>1. UNCHANGED <<resource, id, draft, touched, saving, sent>>
    BY <1>4 DEF vars
  <2>2. saving => sent = Payload /\ Errors = {}
    BY DEF FormInv, Ready
  <2> QED  BY <2>1, <2>2, FormKept
<1> QED  BY <1>1, <1>2, <1>3, <1>4 DEF Next

(* The inductive invariant holds in every state.                           *)
THEOREM Invariant == Spec => []FormInv
BY InitForm, NextForm, PTL DEF Spec

(* A select never holds what it does not offer, whatever is chosen in      *)
(* whatever order (updateFormDraft), but for what the record came with.    *)
THEOREM ChoicesStayOffered == Spec => []NoStaleChoice
<1>1. FormInv => NoStaleChoice
  BY DEF FormInv, Chosen, NoStaleChoice
<1> QED  BY <1>1, Invariant, PTL

-----------------------------------------------------------------------------
(* What was not touched of an edited record is shown as it is stored, and  *)
(* its numbers are read again.                                             *)
LEMMA ShownAsStored ==
  ASSUME FormInv, Editing, NEW n \in Names \ touched, n # "password"
  PROVE  /\ draft[n] = Shown(Kind(n), Record[n])
         /\ Stored(Kind(n), n, Record[n])
         /\ n \in References /\ Record[n] # Null => Record[n] \in Rows(Target(n))
<1>1. resource \in Resources /\ id \in Rows(resource) /\ id # Null
  BY DEF FormInv, Shape, Editing
<1>2. draft[n] = InitialDraft(resource, id)[n]
  BY DEF FormInv, Untouched
<1>3. InitialDraft(resource, id)[n] = Shown(FieldsOf(resource)[n].kind, Snapshot[resource][id][n])
  BY <1>1 DEF InitialDraft, Names
<1> QED  BY <1>1, <1>2, <1>3, StoredIn DEF Names, Kind, Record

LEMMA NumberKept ==
  ASSUME FormInv, Editing, NEW n \in Names \ touched, Kind(n) \in {"number", "optionalNumber"}
  PROVE  /\ NumberIn(n) = Record[n]
         /\ n \in References /\ Record[n] # Null => Record[n] \in Rows(Target(n))
<1>1. n # "password"
  BY FieldFacts DEF FormInv, Shape, Kind, FieldOK
<1>2. draft[n] = Shown(Kind(n), Record[n]) /\ Stored(Kind(n), n, Record[n])
  BY <1>1, ShownAsStored
<1>3. CASE Record[n] = Null
  <2>1. draft[n] = ""
    BY <1>2, <1>3 DEF Shown
  <2> QED  BY <1>3, <2>1, NumberInIs, ReadBlank
<1>4. CASE Record[n] # Null
  <2>1. draft[n] = ToString(Record[n])
    BY <1>2, <1>4 DEF Shown
  <2>2. Record[n] \in Numbers /\ Record[n] >= 0
    BY <1>2, <1>4 DEF Stored
  <2>3. NumberIn(n) = Record[n]
    BY <2>1, <2>2, NumberInIs, ReadAgain
  <2> QED  BY <1>1, <2>3, ShownAsStored
<1> QED  BY <1>1, <1>3, <1>4, ShownAsStored

(* The type of an existing parameter.                                      *)
LEMMA ParameterTypes ==
  ASSUME NEW p \in Rows("parameters")
  PROVE  /\ Snapshot["parameters"][p].valueType \in {"integer", "datetime", "string", "boolean"}
         /\ Snapshot["parameters"][p].valueType # Null
<1>1. "parameters" \in Resources
  BY SnapshotAssumption
<1>2. /\ "valueType" \in DOMAIN FieldsOf("parameters")
      /\ FieldsOf("parameters")["valueType"] = Choice("integer")
  BY DEF FieldsOf
<1>3. FieldsOf("parameters")["valueType"].kind = "choice"
  BY <1>2, KindsOf
<1>4. Stored("choice", "valueType", Snapshot["parameters"][p]["valueType"])
  BY <1>1, <1>2, <1>3, StoredIn
<1>5. /\ Snapshot["parameters"][p]["valueType"] # Null
      /\ Snapshot["parameters"][p]["valueType"] \in Choices("valueType")
  BY <1>4 DEF Stored
<1> QED  BY <1>5, ChoicesOf

LEMMA TypeOfParameter ==
  ASSUME NumberIn("parameterId") \in Rows("parameters")
  PROVE  ParameterType = Snapshot["parameters"][NumberIn("parameterId")].valueType
<1>1. Snapshot["parameters"][NumberIn("parameterId")] # Null
  BY RowIds, SnapshotAssumption
<1>2. Found("parameters", "parameterId") = Snapshot["parameters"][NumberIn("parameterId")]
  BY DEF Found
<1> QED  BY <1>1, <1>2 DEF ParameterType

(* What a field of a rule depends on is untouched as long as it is.        *)
LEMMA RuleUntouched ==
  ASSUME FormInv, resource = "projectionRules"
  PROVE  /\ "parameterId" \notin touched => "payloadSchemaId" \notin touched
         /\ {"sourceFieldId", "constantValue"} \cap touched # {"sourceFieldId", "constantValue"} =>
              {"sourceKind", "parameterId"} \cap touched = {}
         /\ "timestampUnit" \notin touched => "parameterId" \notin touched
BY DEF FormInv, Closed, Dependent

LEMMA CleanRecord ==
  ASSUME FormInv, Editing, resource = "projectionRules"
  PROVE  /\ RuleIsClean(Record)
         /\ Record.sourceKind = "constant" <=> Record.constantValue # Null
         /\ Record.constantValue # Null /\ Record.constantValue[1] = "integer" =>
              \E k \in Numbers : Record.constantValue[2] = ToString(k)
BY SnapshotAssumption DEF FormInv, Shape, Editing, Record

(* An untouched parameter has the type of the record's.                    *)
LEMMA TypeKept ==
  ASSUME FormInv, Editing, resource = "projectionRules", "parameterId" \notin touched
  PROVE  /\ NumberIn("parameterId") = Record.parameterId
         /\ Record.parameterId \in Rows("parameters")
         /\ ParameterType = Snapshot["parameters"][Record.parameterId].valueType
<1>1. "parameterId" \in Names \ touched /\ Kind("parameterId") = "number"
  BY RuleFields DEF Names, Kind
<1>2. NumberIn("parameterId") = Record["parameterId"]
  BY <1>1, NumberKept
<1>3. Record.parameterId \in Rows("parameters")
  BY CleanRecord, AssignedIds DEF RuleIsClean
<1> QED  BY <1>2, <1>3, TypeOfParameter

(* An untouched kind of source is the record's.                            *)
LEMMA SourceKept ==
  ASSUME FormInv, Editing, resource = "projectionRules", "sourceKind" \notin touched
  PROVE  draft.sourceKind = "constant" <=> Record.constantValue # Null
<1>1. "sourceKind" \in Names \ touched /\ Kind("sourceKind") = "choice"
  BY RuleFields DEF Names, Kind
<1>2. /\ draft["sourceKind"] = Shown("choice", Record["sourceKind"])
      /\ Stored("choice", "sourceKind", Record["sourceKind"])
  BY <1>1, ShownAsStored
<1>3. Record["sourceKind"] # Null
  BY <1>2 DEF Stored
<1>4. draft["sourceKind"] = Record["sourceKind"]
  BY <1>2, <1>3 DEF Shown
<1> QED  BY <1>4, CleanRecord

(* What is sent of a field.                                                *)
LEMMA SentValues ==
  ASSUME FormInv, saving
  PROVE  /\ DOMAIN sent = {n \in Names : Submitted(n) \/
                             n \in {"sourceFieldId", "constantValue", "timestampUnit"}}
         /\ \A n \in DOMAIN sent : sent[n] = IF Submitted(n) THEN Read(n) ELSE Null
         /\ \A n \in Names : Submitted(n) => ~Wrong(n)
         /\ ~BadSpan
<1>1. sent = Payload /\ Errors = {}
  BY DEF FormInv, Ready
<1>2. ~BadSpan /\ \A n \in Names : ~(Submitted(n) /\ Wrong(n))
  BY <1>1 DEF Errors
<1> QED  BY <1>1, <1>2 DEF Payload

(* Shown, Stored, Read and Same by the kind of the field.                  *)
LEMMA ShownFlag == \A v : Shown("flag", v) = v
BY DEF Shown

LEMMA ShownBlank ==
  ASSUME NEW kind, kind # "flag"
  PROVE  Shown(kind, Null) = ""
BY DEF Shown

LEMMA ShownText ==
  ASSUME NEW kind \in {"text", "email", "optionalText", "choice"}, NEW v, v # Null
  PROVE  Shown(kind, v) = v
BY DEF Shown

LEMMA StoredOf ==
  ASSUME NEW kind, NEW n, NEW v, Stored(kind, n, v)
  PROVE  /\ kind \in {"text", "email"} /\ n \notin {"sourceFieldId", "timestampUnit"} => v # Null
         /\ kind = "choice" => /\ v = Null => n \in {"sourceFieldId", "timestampUnit"}
                               /\ v # Null => v # "" /\ Trimmed(v) = v
BY DEF Stored

LEMMA ReadOf ==
  ASSUME NEW n, n = "timestampUnit" => Kind(n) = "choice"
  PROVE  /\ Kind(n) = "flag" => Read(n) = draft[n]
         /\ Kind(n) \in {"number", "optionalNumber"} => Read(n) = NumberIn(n)
         /\ Kind(n) = "constant" => Read(n) = Constant
         /\ Kind(n) = "optionalText" \/ n = "timestampUnit" =>
              Read(n) = IF Value(n) = "" THEN Null ELSE Value(n)
         /\ Kind(n) \in {"text", "email", "choice"} /\ n # "timestampUnit" => Read(n) = Value(n)
<1>1. ASSUME Kind(n) = "flag" PROVE Read(n) = draft[n]
  BY <1>1 DEF Read
<1>2. ASSUME Kind(n) \in {"number", "optionalNumber"} PROVE Read(n) = NumberIn(n)
  BY <1>2 DEF Read
<1>3. ASSUME Kind(n) = "constant" PROVE Read(n) = Constant
  BY <1>3 DEF Read
<1>4. ASSUME Kind(n) = "optionalText" \/ n = "timestampUnit"
      PROVE  Read(n) = IF Value(n) = "" THEN Null ELSE Value(n)
  BY <1>4 DEF Read
<1>5. ASSUME Kind(n) \in {"text", "email", "choice"}, n # "timestampUnit"
      PROVE  Read(n) = Value(n)
  BY <1>5 DEF Read
<1> QED  BY <1>1, <1>2, <1>3, <1>4, <1>5

LEMMA KeptOf ==
  ASSUME NEW n
  PROVE  /\ Record[n] = Null => Kept(n) = Null
         /\ Kind(n) \in {"flag", "number", "optionalNumber", "choice"} => Kept(n) = Record[n]
         /\ Kind(n) \in {"text", "email"} /\ Record[n] # Null => Kept(n) = Trimmed(Record[n])
         /\ Kind(n) = "optionalText" /\ Record[n] # Null =>
              Kept(n) = IF Trimmed(Record[n]) = "" THEN Null ELSE Trimmed(Record[n])
         /\ Kind(n) = "constant" /\ Record[n] # Null =>
              Kept(n) = <<Record[n][1], Trimmed(Record[n][2])>>
<1>1. ASSUME Record[n] = Null PROVE Kept(n) = Null
  BY <1>1 DEF Kept
<1>2. ASSUME Kind(n) \in {"flag", "number", "optionalNumber", "choice"} PROVE Kept(n) = Record[n]
  BY <1>2 DEF Kept
<1>3. ASSUME Kind(n) \in {"text", "email"}, Record[n] # Null PROVE Kept(n) = Trimmed(Record[n])
  BY <1>3 DEF Kept
<1>4. ASSUME Kind(n) = "optionalText", Record[n] # Null
      PROVE  Kept(n) = IF Trimmed(Record[n]) = "" THEN Null ELSE Trimmed(Record[n])
  BY <1>4 DEF Kept
<1>5. ASSUME Kind(n) = "constant", Record[n] # Null
      PROVE  Kept(n) = <<Record[n][1], Trimmed(Record[n][2])>>
  BY <1>5 DEF Kept
<1> QED  BY <1>1, <1>2, <1>3, <1>4, <1>5

(* A constant that was not touched is sent as it is stored.                *)
LEMMA ConstantKept ==
  ASSUME FormInv, saving, Editing, resource = "projectionRules",
         "constantValue" \notin touched, draft.sourceKind = "constant"
  PROVE  /\ Record.constantValue # Null /\ Constant # Null
         /\ Constant = <<Record.constantValue[1], Trimmed(Record.constantValue[2])>>
<1> DEFINE raw == Value("constantValue")
           type == Snapshot["parameters"][Record.parameterId].valueType
<1>1. /\ "constantValue" \in Names \ touched /\ Kind("constantValue") = "constant"
      /\ "parameterId" \notin touched /\ "sourceKind" \notin touched
  BY RuleFields, RuleUntouched DEF Names, Kind
<1>2. Record["constantValue"] # Null
  BY <1>1, SourceKept
<1>3. raw = Trimmed(Record["constantValue"][2])
  <2>1. draft["constantValue"] = Record["constantValue"][2]
    BY <1>1, <1>2, ShownAsStored DEF Shown
  <2> QED  BY <2>1 DEF Value
<1>4. ParameterType = type /\ type \in {"integer", "datetime", "string", "boolean"} /\ type # Null
  BY <1>1, TypeKept, ParameterTypes
<1>5. Record["constantValue"][1] = JsonType(type)
  BY <1>2, CleanRecord DEF RuleIsClean
<1>6. Constant # Null
  <2>1. Submitted("constantValue")
    BY DEF Submitted, Asked
  <2>2. ~Wrong("constantValue")
    BY <1>1, <2>1, SentValues
  <2> QED  BY <1>1, <2>2 DEF Wrong
<1> HIDE DEF raw, type
<1>7. Constant = <<JsonType(type), raw>>
  <2>1. CASE type = "string"
    BY <1>4, <2>1 DEF Constant, JsonType, raw
  <2>2. CASE type = "boolean"
    BY <1>4, <1>6, <2>2 DEF Constant, JsonType, raw
  <2>3. CASE type \in {"integer", "datetime"}
    <3>1. JsonType(type) = "integer"
      BY <2>3 DEF JsonType
    <3>2. PICK k \in Numbers : Record["constantValue"][2] = ToString(k)
      BY <1>2, <1>5, <3>1, CleanRecord
    <3>3. raw = ToString(k) /\ NumberOf(raw) = k /\ k # Null
      BY <1>3, <3>2, NumeralAssumption
    <3>4. Constant = IF NumberOf(raw) # Null
                     THEN <<"integer", ToString(NumberOf(raw))>> ELSE Null
      BY <1>4, <2>3 DEF Constant, raw
    <3> QED  BY <3>1, <3>3, <3>4
  <2> QED  BY <1>4, <2>1, <2>2, <2>3
<1> QED  BY <1>2, <1>3, <1>5, <1>6, <1>7

(* What was not touched is sent back as it is stored.                      *)
LEMMA SentIsSame ==
  ASSUME FormInv, saving, Editing, NEW n \in DOMAIN sent \ touched
  PROVE  sent[n] = Kept(n)
<1>1. /\ n \in Names \ touched
      /\ Submitted(n) => sent[n] = Read(n) /\ ~Wrong(n)
      /\ ~Submitted(n) =>
           n \in {"sourceFieldId", "constantValue", "timestampUnit"} /\ sent[n] = Null
  BY SentValues
<1>2. /\ FieldOK(resource, n, FieldsOf(resource)[n])
      /\ n = "timestampUnit" => Kind(n) = "choice"
      /\ n = "sourceFieldId" => Kind(n) \in {"number", "optionalNumber"}
  BY <1>1, FieldFacts DEF FormInv, Shape, FieldOK, Kind, References
<1>3. n # "password"
  BY <1>1 DEF Submitted
<1>4. draft[n] = Shown(Kind(n), Record[n]) /\ Stored(Kind(n), n, Record[n])
  BY <1>1, <1>3, ShownAsStored
<1>5. CASE ~Submitted(n)
  <2>1. resource = "projectionRules"
    BY <1>1, <1>2, <1>5 DEF FieldOK, OfRules
  <2>2. Record[n] = Null
    <3>1. CASE n = "sourceFieldId"
      <4>1. draft.sourceKind = "constant" /\ "sourceKind" \notin touched
        BY <1>1, <1>5, <2>1, <3>1, RuleUntouched DEF Submitted, Asked
      <4>2. Record.constantValue # Null
        BY <2>1, <4>1, SourceKept
      <4>3. Record["sourceFieldId"] = Null
        BY <2>1, <4>2, CleanRecord DEF RuleIsClean
      <4> QED  BY <3>1, <4>3
    <3>2. CASE n = "constantValue"
      <4>1. draft.sourceKind # "constant" /\ "sourceKind" \notin touched
        BY <1>1, <1>5, <2>1, <3>2, RuleUntouched DEF Submitted, Asked
      <4>2. Record["constantValue"] = Null
        BY <2>1, <4>1, SourceKept
      <4> QED  BY <3>2, <4>2
    <3>3. CASE n = "timestampUnit"
      <4>1. ParameterType # "datetime" /\ "parameterId" \notin touched
        BY <1>1, <1>5, <2>1, <3>3, RuleUntouched DEF Submitted
      <4>2. Snapshot["parameters"][Record.parameterId].valueType # "datetime"
        BY <2>1, <4>1, TypeKept
      <4>3. Record["timestampUnit"] = Null
        BY <2>1, <4>2, CleanRecord DEF RuleIsClean
      <4> QED  BY <3>3, <4>3
    <3> QED  BY <1>1, <1>5, <3>1, <3>2, <3>3
  <2> QED  BY <1>1, <1>5, <2>2, KeptOf
<1>6. CASE Submitted(n) /\ Kind(n) = "flag"
  <2>1. sent[n] = Record[n]
    <3>1. draft[n] = Shown("flag", Record[n]) /\ sent[n] = draft[n]
      BY <1>1, <1>2, <1>4, <1>6, ReadOf
    <3> QED  BY <3>1, ShownFlag
  <2> QED  BY <1>6, <2>1, KeptOf
<1>7. CASE Submitted(n) /\ Kind(n) \in {"number", "optionalNumber"}
  <2>1. sent[n] = Record[n]
    BY <1>1, <1>2, <1>7, NumberKept, ReadOf
  <2> QED  BY <1>7, <2>1, KeptOf
<1>8. CASE Submitted(n) /\ Kind(n) = "constant"
  <2>1. n = "constantValue" /\ resource = "projectionRules"
    BY <1>2, <1>8 DEF FieldOK, Kind, OfRules
  <2>2. draft.sourceKind = "constant"
    BY <1>8, <2>1 DEF Submitted, Asked
  <2>3. sent[n] = Constant
    BY <1>1, <1>2, <1>8, ReadOf
  <2>4. /\ Record["constantValue"] # Null
        /\ sent[n] = <<Record["constantValue"][1], Trimmed(Record["constantValue"][2])>>
    BY <1>1, <2>1, <2>2, <2>3, ConstantKept
  <2> QED  BY <1>8, <2>1, <2>4, KeptOf
<1>9. CASE Submitted(n) /\ Kind(n) \in {"text", "email"}
  <2>1. n # "timestampUnit" /\ n # "sourceFieldId"
    BY <1>2, <1>9 DEF FieldOK, Kind, References
  <2>2. Record[n] # Null
    BY <1>4, <1>9, <2>1, StoredOf
  <2>3. sent[n] = Value(n)
    BY <1>1, <1>2, <1>9, <2>1, ReadOf
  <2>4. draft[n] = Record[n]
    BY <1>4, <1>9, <2>2, ShownText
  <2>5. sent[n] = Trimmed(Record[n])
    BY <2>3, <2>4 DEF Value
  <2> QED  BY <1>9, <2>2, <2>5, KeptOf
<1>10. CASE Submitted(n) /\ Kind(n) = "optionalText"
  <2>1. sent[n] = IF Value(n) = "" THEN Null ELSE Value(n)
    BY <1>1, <1>2, <1>10, ReadOf
  <2>2. CASE Record[n] = Null
    <3>1. draft[n] = ""
      BY <1>4, <1>10, <2>2, ShownBlank
    <3>2. sent[n] = Null
      BY <2>1, <3>1, NumeralAssumption DEF Value
    <3> QED  BY <2>2, <3>2, KeptOf
  <2>3. CASE Record[n] # Null
    <3>1. draft[n] = Record[n]
      BY <1>4, <1>10, <2>3, ShownText
    <3>2. sent[n] = IF Trimmed(Record[n]) = "" THEN Null ELSE Trimmed(Record[n])
      BY <2>1, <3>1 DEF Value
    <3> QED  BY <1>10, <2>3, <3>1, <3>2, KeptOf
  <2> QED  BY <2>2, <2>3
<1>11. CASE Submitted(n) /\ Kind(n) = "choice"
  <2>1. CASE Record[n] = Null
    <3>1. Stored("choice", n, Record[n]) /\ n # "sourceFieldId"
      BY <1>2, <1>4, <1>11
    <3>2. n = "timestampUnit" /\ draft[n] = ""
      BY <1>4, <1>11, <2>1, <3>1, StoredOf, ShownBlank
    <3>3. sent[n] = Null
      BY <1>1, <1>2, <1>11, <3>2, NumeralAssumption, ReadOf DEF Value
    <3> QED  BY <1>11, <2>1, <3>3, KeptOf
  <2>2. CASE Record[n] # Null
    <3>1. Stored("choice", n, Record[n]) /\ draft[n] = Record[n]
      BY <1>4, <1>11, <2>2, ShownText
    <3>2. draft[n] = Record[n] /\ Trimmed(Record[n]) = Record[n] /\ Record[n] # ""
      BY <2>2, <3>1 DEF Stored
    <3>3. Value(n) = Record[n] /\ Value(n) # ""
      BY <3>2 DEF Value
    <3>4. sent[n] = Record[n]
      BY <1>1, <1>2, <1>11, <3>3, ReadOf
    <3> QED  BY <1>11, <3>4, KeptOf
  <2> QED  BY <2>1, <2>2
<1>12. Kind(n) \in Kinds \ {"password"}
  BY <1>2, <1>3 DEF FieldOK, Kind
<1> QED  BY <1>5, <1>6, <1>7, <1>8, <1>9, <1>10, <1>11, <1>12 DEF Kinds

(* An edit keeps the rest: opening a record and saving it changes nothing  *)
(* but surrounding blanks (buildFormPayload after draftValue), and neither *)
(* the uid of a gateway nor its company is changed.                        *)
THEOREM RestIsKept == Spec => []EditKeepsTheRest
<1>1. ASSUME FormInv PROVE EditKeepsTheRest
  <2> SUFFICES ASSUME saving, Editing
               PROVE  /\ \A n \in DOMAIN sent \ touched : sent[n] = Kept(n)
                      /\ resource = "gateways" =>
                           /\ "uid" \notin DOMAIN sent
                           /\ Record.companyId # Null => sent.companyId = Record.companyId
    BY DEF EditKeepsTheRest
  <2>1. \A n \in DOMAIN sent \ touched : sent[n] = Kept(n)
    BY <1>1, SentIsSame
  <2>2. "uid" \notin DOMAIN sent
    BY <1>1, SentValues DEF Submitted
  <2>3. ASSUME resource = "gateways", Record.companyId # Null
        PROVE  sent.companyId = Record.companyId
    <3>1. "companyId" \in Names /\ Kind("companyId") = "optionalNumber"
      BY <2>3, GatewayFields DEF Names, Kind
    <3>2. "companyId" \notin touched
      BY <1>1, <2>3 DEF FormInv, Locked
    <3>3. Submitted("companyId")
      BY DEF Submitted, Asked
    <3>4. sent["companyId"] = Read("companyId")
      BY <1>1, <3>1, <3>3, SentValues
    <3>5. Read("companyId") = NumberIn("companyId")
      BY <3>1 DEF Read
    <3>6. NumberIn("companyId") = Record["companyId"]
      BY <1>1, <3>1, <3>2, NumberKept
    <3> QED  BY <3>4, <3>5, <3>6
  <2> QED  BY <2>1, <2>2, <2>3
<1> QED  BY <1>1, Invariant, PTL

-----------------------------------------------------------------------------
(* What was chosen anew was offered, and every reference exists.           *)
LEMMA ChosenIsOffered ==
  ASSUME FormInv, NEW n \in References, n \in Names, n \in touched \/ ~Editing,
         NumberIn(n) # Null
  PROVE  NumberIn(n) \in OfferedIds(n)
<1>1. draft[n] \in Offered(n) \/ draft[n] = ""
  BY DEF FormInv, Chosen, Selects
<1> QED  BY <1>1, OfferedIsRead

LEMMA ReferenceExists ==
  ASSUME FormInv, NEW n \in References, n \in Names, NumberIn(n) # Null
  PROVE  NumberIn(n) \in Rows(Target(n))
<1>1. CASE n \in touched \/ ~Editing
  BY <1>1, ChosenIsOffered, OfferedIdsAreRows
<1>2. CASE n \notin touched /\ Editing
  <2>1. Kind(n) \in {"number", "optionalNumber"}
    BY FieldFacts DEF FormInv, Shape, FieldOK, Kind
  <2> QED  BY <1>2, <2>1, NumberKept
<1> QED  BY <1>1, <1>2

(* The numbers that are sent.                                              *)
LEMMA SentNumber ==
  ASSUME FormInv, saving, NEW n \in Names, Submitted(n), Kind(n) \in {"number", "optionalNumber"}
  PROVE  /\ sent[n] = NumberIn(n)
         /\ Kind(n) = "number" => NumberIn(n) # Null
<1>1. n # "timestampUnit"
  BY FieldFacts DEF FormInv, Shape, FieldOK, Kind
<1>2. sent[n] = Read(n) /\ ~Wrong(n)
  BY SentValues
<1>3. Kind(n) = "number" => NumberIn(n) # Null
  BY <1>1, <1>2 DEF Wrong
<1> QED  BY <1>1, <1>2, <1>3, ReadOf

LEMMA FoundRow ==
  ASSUME NEW table \in Resources, NEW n, NumberIn(n) \in Rows(table)
  PROVE  Found(table, n) = Snapshot[table][NumberIn(n)] /\ Found(table, n) # Null
BY RowIds DEF Found

LEMMA AssignedToNone == Assigned(Null) = {}
BY DEF Assigned

(* A rule that is sent is clean.                                           *)
LEMMA RuleClean ==
  ASSUME FormInv, saving, resource = "projectionRules"
  PROVE  RuleIsClean(sent)
<1> DEFINE schema == Snapshot["payloadSchemas"][sent.payloadSchemaId]
           type == Snapshot["parameters"][sent.parameterId].valueType
<1>1. /\ {"payloadSchemaId", "parameterId", "sourceFieldId", "constantValue", "timestampUnit"}
           \subseteq Names
      /\ Kind("payloadSchemaId") = "number" /\ Kind("parameterId") = "number"
      /\ Kind("sourceFieldId") = "number" /\ Kind("constantValue") = "constant"
      /\ Kind("timestampUnit") = "choice"
  BY RuleFields DEF Names, Kind
<1>2. Submitted("payloadSchemaId") /\ Submitted("parameterId")
  BY DEF Submitted, Asked
<1>3. /\ sent["payloadSchemaId"] = NumberIn("payloadSchemaId") /\ NumberIn("payloadSchemaId") # Null
      /\ sent["parameterId"] = NumberIn("parameterId") /\ NumberIn("parameterId") # Null
  BY <1>1, <1>2, SentNumber
<1>4. {"payloadSchemaId", "parameterId", "sourceFieldId"} \subseteq References
  BY DEF References
<1>5. /\ NumberIn("payloadSchemaId") \in Rows("payloadSchemas")
      /\ NumberIn("parameterId") \in Rows("parameters")
  BY <1>1, <1>3, <1>4, ReferenceExists, Targets
<1>6. Found("payloadSchemas", "payloadSchemaId") = schema
  BY <1>3, <1>5, FoundRow, SnapshotAssumption
<1>7. sent["parameterId"] \in Assigned(schema)
  <2>1. CASE "parameterId" \in touched \/ ~Editing
    <3>1. NumberIn("parameterId") \in OfferedIds("parameterId")
      BY <1>1, <1>3, <1>4, <2>1, ChosenIsOffered
    <3>2. OfferedIds("parameterId") = Assigned(Found("payloadSchemas", "payloadSchemaId"))
      BY DEF OfferedIds
    <3> QED  BY <1>3, <1>6, <3>1, <3>2
  <2>2. CASE "parameterId" \notin touched /\ Editing
    <3>1. "payloadSchemaId" \notin touched
      BY <2>2, RuleUntouched
    <3>2. /\ NumberIn("payloadSchemaId") = Record["payloadSchemaId"]
          /\ NumberIn("parameterId") = Record["parameterId"]
      BY <1>1, <2>2, <3>1, NumberKept
    <3>3. Record["parameterId"] \in Assigned(Snapshot["payloadSchemas"][Record["payloadSchemaId"]])
      BY <2>2, CleanRecord DEF RuleIsClean
    <3> QED  BY <1>3, <3>2, <3>3
  <2> QED  BY <2>1, <2>2
<1>8. ParameterType = type /\ type \in {"integer", "datetime", "string", "boolean"} /\ type # Null
  BY <1>3, <1>5, TypeOfParameter, ParameterTypes
<1>9. sent["timestampUnit"] # Null => type = "datetime"
  <2>1. sent["timestampUnit"] # Null => Submitted("timestampUnit")
    BY <1>1, SentValues
  <2>2. Submitted("timestampUnit") => ParameterType = "datetime"
    BY DEF Submitted
  <2> QED  BY <1>8, <2>1, <2>2
<1>10. CASE draft.sourceKind = "constant"
  <2>1. Submitted("constantValue") /\ ~Submitted("sourceFieldId")
    BY <1>10 DEF Submitted, Asked
  <2>2. sent["sourceFieldId"] = Null
    BY <1>1, <2>1, SentValues
  <2>3. sent["constantValue"] = Constant /\ Constant # Null
    <3>1. sent["constantValue"] = Read("constantValue") /\ ~Wrong("constantValue")
      BY <1>1, <2>1, SentValues
    <3>2. Read("constantValue") = Constant
      BY <1>1, ReadOf
    <3>3. Constant # Null
      BY <1>1, <3>1 DEF Wrong
    <3> QED  BY <3>1, <3>2, <3>3
  <2>4. Constant[1] = JsonType(type)
    <3> HIDE DEF type
    <3>1. CASE type = "string"
      BY <1>8, <3>1 DEF Constant, JsonType
    <3>2. CASE type = "boolean"
      BY <1>8, <2>3, <3>2 DEF Constant, JsonType
    <3>3. CASE type \in {"integer", "datetime"}
      BY <1>8, <2>3, <3>3 DEF Constant, JsonType
    <3> QED  BY <1>8, <3>1, <3>2, <3>3
  <2>5. sent["constantValue"] # Null /\ sent["constantValue"][1] = JsonType(type)
    BY <2>3, <2>4
  <2> HIDE DEF type, schema
  <2> QED  BY <1>7, <1>9, <2>2, <2>5 DEF RuleIsClean, schema, type
<1>11. CASE draft.sourceKind # "constant"
  <2>1. ~Submitted("constantValue") /\ Submitted("sourceFieldId")
    BY <1>11 DEF Submitted, Asked
  <2>2. sent["constantValue"] = Null
    BY <1>1, <2>1, SentValues
  <2>3. sent["sourceFieldId"] = NumberIn("sourceFieldId") /\ NumberIn("sourceFieldId") # Null
    BY <1>1, <2>1, SentNumber
  <2>4. Snapshot["payloadFields"][sent["sourceFieldId"]].payloadSchemaId = sent["payloadSchemaId"]
    <3>1. CASE "sourceFieldId" \in touched \/ ~Editing
      <4>1. NumberIn("sourceFieldId") \in OfferedIds("sourceFieldId")
        BY <1>1, <1>4, <2>3, <3>1, ChosenIsOffered
      <4>2. OfferedIds("sourceFieldId") =
              {f \in Rows("payloadFields") :
                 Snapshot["payloadFields"][f].payloadSchemaId = NumberIn("payloadSchemaId")}
        BY DEF OfferedIds
      <4> QED  BY <1>3, <2>3, <4>1, <4>2
    <3>2. CASE "sourceFieldId" \notin touched /\ Editing
      <4>1. "parameterId" \notin touched /\ "payloadSchemaId" \notin touched
        BY <3>2, RuleUntouched
      <4>2. /\ NumberIn("payloadSchemaId") = Record["payloadSchemaId"]
            /\ NumberIn("sourceFieldId") = Record["sourceFieldId"]
        BY <1>1, <3>2, <4>1, NumberKept
      <4>3. Snapshot["payloadFields"][Record["sourceFieldId"]].payloadSchemaId
              = Record["payloadSchemaId"]
        BY <2>3, <3>2, <4>2, CleanRecord DEF RuleIsClean
      <4> QED  BY <1>3, <2>3, <4>2, <4>3
    <3> QED  BY <3>1, <3>2
  <2>5. sent["sourceFieldId"] # Null
    BY <2>3
  <2> HIDE DEF type, schema
  <2> QED  BY <1>7, <1>9, <2>2, <2>4, <2>5 DEF RuleIsClean, schema, type
<1> QED  BY <1>10, <1>11

(* A chart whose axes were chosen is clean.                                *)
LEMMA ChartClean ==
  ASSUME FormInv, saving, resource = "visualizations",
         ~Editing \/ {"xAxisId", "yAxisId"} \subseteq touched
  PROVE  ChartIsClean(sent)
<1>1. /\ {"tabId", "xAxisId", "yAxisId"} \subseteq Names
      /\ Kind("tabId") = "number" /\ Kind("yAxisId") = "number"
      /\ Kind("xAxisId") = "optionalNumber"
  BY ChartFields DEF Names, Kind
<1>2. Submitted("tabId") /\ Submitted("xAxisId") /\ Submitted("yAxisId")
  BY DEF Submitted, Asked
<1>3. /\ sent["tabId"] = NumberIn("tabId") /\ sent["xAxisId"] = NumberIn("xAxisId")
      /\ sent["yAxisId"] = NumberIn("yAxisId") /\ NumberIn("tabId") # Null
  BY <1>1, <1>2, SentNumber
<1>4. Found("visualizationTabs", "tabId") = Snapshot["visualizationTabs"][sent["tabId"]]
  <2>1. NumberIn("tabId") \in Rows("visualizationTabs")
    BY <1>1, <1>3, ReferenceExists, Targets DEF References
  <2> QED  BY <1>3, <2>1, FoundRow, SnapshotAssumption
<1>5. /\ "xAxisId" \in References /\ "yAxisId" \in References
      /\ OfferedIds("xAxisId") = ChartParameters \ {NumberIn("yAxisId")}
      /\ OfferedIds("yAxisId") = ChartParameters \ {NumberIn("xAxisId")}
  BY DEF References, OfferedIds
<1>6. /\ NumberIn("xAxisId") # Null =>
           NumberIn("xAxisId") \in ChartParameters \ {NumberIn("yAxisId")}
      /\ NumberIn("yAxisId") # Null =>
           NumberIn("yAxisId") \in ChartParameters \ {NumberIn("xAxisId")}
  BY <1>1, <1>5, ChosenIsOffered
<1>7. \A p \in ChartParameters :
        /\ p \in Assigned(Snapshot["visualizationTabs"][sent["tabId"]])
        /\ Snapshot["parameters"][p].valueType \in {"integer", "datetime"}
  BY <1>4 DEF ChartParameters
<1>8. \A p \in {sent["xAxisId"], sent["yAxisId"]} \ {Null} :
        p \in ChartParameters /\ sent["xAxisId"] # sent["yAxisId"]
  BY <1>3, <1>6
<1> QED  BY <1>7, <1>8 DEF ChartIsClean

(* A payload field that is sent lies within the payload.                   *)
LEMMA SpanClean ==
  ASSUME FormInv, saving, resource = "payloadFields"
  PROVE  FieldIsClean(sent)
<1> DEFINE length == Snapshot["payloadSchemas"][sent["payloadSchemaId"]].expectedLength
           first == sent["startByte"]
           last == sent["endByte"]
<1>1. /\ {"payloadSchemaId", "startByte", "endByte"} \subseteq Names
      /\ Kind("payloadSchemaId") = "number" /\ Kind("startByte") = "number"
      /\ Kind("endByte") = "number"
  BY SpanFields DEF Names, Kind
<1>2. Submitted("payloadSchemaId") /\ Submitted("startByte") /\ Submitted("endByte")
  BY DEF Submitted, Asked
<1>3. /\ sent["payloadSchemaId"] = NumberIn("payloadSchemaId") /\ NumberIn("payloadSchemaId") # Null
      /\ first = NumberIn("startByte") /\ NumberIn("startByte") # Null
      /\ last = NumberIn("endByte") /\ NumberIn("endByte") # Null
  BY <1>1, <1>2, SentNumber
<1>4. NumberIn("payloadSchemaId") \in Rows("payloadSchemas") /\ "payloadSchemas" \in Resources
  BY <1>1, <1>3, ReferenceExists, Targets, SnapshotAssumption DEF References
<1>5. /\ Found("payloadSchemas", "payloadSchemaId") # Null
      /\ Found("payloadSchemas", "payloadSchemaId").expectedLength = length
  BY <1>3, <1>4, FoundRow
<1>6. ~(last <= first) /\ (length # Null => ~(last > length))
  BY <1>3, <1>5, SentValues DEF BadSpan
<1>7. first \in Int /\ last \in Int
  BY <1>3, NumberInIs, ReadNatural, NumeralAssumption
<1>8. length # Null => length \in Int
  <2>1. /\ "expectedLength" \in DOMAIN FieldsOf("payloadSchemas")
        /\ FieldsOf("payloadSchemas")["expectedLength"] = Field("optionalNumber", "", 1)
    BY DEF FieldsOf
  <2>2. Field("optionalNumber", "", 1).kind = "optionalNumber"
    BY DEF Field
  <2>3. Stored("optionalNumber", "expectedLength", length)
    BY <1>3, <1>4, <2>1, <2>2, StoredIn
  <2> HIDE DEF length
  <2> QED  BY <2>3, NumeralAssumption DEF Stored
<1> HIDE DEF length, first, last
<1>9. first < last /\ (length # Null => last <= length)
  BY <1>6, <1>7, <1>8
<1> QED  BY <1>9 DEF FieldIsClean, length, first, last

(* What the form lets through passes the checks of the server's models     *)
(* that it can know (buildFormPayload against the clean methods).          *)
THEOREM OnlyCleanIsSent == Spec => []SubmittedIsClean
<1>1. FormInv => SubmittedIsClean
  BY RuleClean, ChartClean, SpanClean DEF SubmittedIsClean
<1> QED  BY <1>1, Invariant, PTL
=============================================================================
