------------------------- MODULE ConfigurationProofs -------------------------
(***************************************************************************)
(* Theorems about Configuration: whatever superusers edit, and whatever    *)
(* telemetry arrives in between, every row stays as valid as it was when   *)
(* it was saved, and what telemetry refers to does not change.             *)
(***************************************************************************)
EXTENDS Configuration, TLAPS

(* The rows of the tables have the types of their rows.                    *)
LEMMA RowTypes ==
  ASSUME TypeOK
  PROVE  /\ \A s \in Live(schema) : s \in Schemas /\ schema[s] \in SchemaRow
         /\ \A f \in Live(field) : f \in Fields /\ field[f] \in FieldRow
         /\ \A q \in Live(rule) : q \in Rules /\ rule[q] \in RuleRow
         /\ \A c \in Live(chart) : c \in Charts /\ chart[c] \in ChartRow
         /\ \A p \in Live(valueType) : p \in Parameters /\ valueType[p] \in ValueTypes
         /\ \A e \in Live(eventType) : e \in EventTypes /\ eventType[e] \in Codes
         /\ \A g \in Live(tab) : g \in Tabs /\ tab[g] \in DeviceTypes
<1>1. QED BY DEF TypeOK, Live

LEMMA TypeInit == Init => TypeOK
<1>1. QED BY DEF Init, TypeOK

(* What a step assigns has the type of its table.                          *)
LEMMA TypeStep == TypeOK /\ RulesStayClean /\ [Next]_vars => TypeOK'
<1> SUFFICES ASSUME TypeOK, RulesStayClean, [Next]_vars PROVE TypeOK'
  OBVIOUS
<1> USE DEF TypeOK, typeVars, schemaVars, dashboardVars, telemetryVars
<1>1. CASE EditTypes
  <2>1. ASSUME NEW e \in EventTypes, NEW c \in Codes,
               CreateEventType(e, c) \/ UpdateEventType(e, c) \/ DeleteEventType(e)
        PROVE  TypeOK'
    BY <2>1 DEF CreateEventType, UpdateEventType, DeleteEventType
  <2>2. ASSUME NEW e \in EventTypes, DeleteEventType(e) PROVE TypeOK'
    BY <2>2 DEF DeleteEventType
  <2>3. ASSUME NEW t \in DeviceTypes, CreateDeviceType(t) \/ DeleteDeviceType(t)
        PROVE  TypeOK'
    BY <2>3 DEF CreateDeviceType, DeleteDeviceType
  <2>4. ASSUME NEW p \in Parameters, DeleteParameter(p) PROVE TypeOK'
    BY <2>4 DEF DeleteParameter
  <2>5. ASSUME NEW p \in Parameters, NEW v \in ValueTypes,
               CreateParameter(p, v) \/ UpdateParameter(p, v)
        PROVE  TypeOK'
    BY <2>5 DEF CreateParameter, UpdateParameter
  <2>6. ASSUME NEW a \in DeviceTypes \X Parameters, NEW b \in DeviceTypes \X Parameters,
               Assign(a) \/ Unassign(a) \/ Reassign(a, b)
        PROVE  TypeOK'
    BY <2>6 DEF Assign, Unassign, Reassign
  <2>7. ASSUME NEW a \in DeviceTypes \X Parameters, Assign(a) \/ Unassign(a)
        PROVE  TypeOK'
    BY <2>7 DEF Assign, Unassign
  <2>8. QED BY <1>1, <2>1, <2>2, <2>3, <2>4, <2>5, <2>6, <2>7 DEF EditTypes
<1>2. CASE EditSchemas
  <2>1. ASSUME NEW s \in Schemas, DeleteSchema(s) PROVE TypeOK'
    BY <2>1 DEF DeleteSchema
  <2>2. ASSUME NEW s \in Schemas, NEW r \in SchemaRow, CreateSchema(s, r) \/ UpdateSchema(s, r)
        PROVE  TypeOK'
    BY <2>2 DEF CreateSchema, UpdateSchema
  <2>3. ASSUME NEW f \in Fields, DeleteField(f) PROVE TypeOK'
    BY <2>3 DEF DeleteField
  <2>4. ASSUME NEW f \in Fields, NEW r \in FieldRow, CreateField(f, r) \/ UpdateField(f, r)
        PROVE  TypeOK'
    BY <2>4 DEF CreateField, UpdateField
  <2>5. ASSUME NEW q \in Rules, DeleteRule(q) PROVE TypeOK'
    BY <2>5 DEF DeleteRule
  <2>6. ASSUME NEW q \in Rules, NEW r \in RuleRow, CreateRule(q, r) \/ UpdateRule(q, r)
        PROVE  TypeOK'
    BY <2>6 DEF CreateRule, UpdateRule
  <2>7. QED BY <1>2, <2>1, <2>2, <2>3, <2>4, <2>5, <2>6 DEF EditSchemas
<1>3. CASE EditDashboard
  <2>1. ASSUME NEW g \in Tabs, DeleteTab(g) PROVE TypeOK'
    BY <2>1 DEF DeleteTab
  <2>2. ASSUME NEW g \in Tabs, NEW t \in DeviceTypes, CreateTab(g, t) \/ UpdateTab(g, t)
        PROVE  TypeOK'
    BY <2>2 DEF CreateTab, UpdateTab
  <2>3. ASSUME NEW c \in Charts, DeleteChart(c) PROVE TypeOK'
    BY <2>3 DEF DeleteChart
  <2>4. ASSUME NEW c \in Charts, NEW r \in ChartRow, CreateChart(c, r) \/ UpdateChart(c, r)
        PROVE  TypeOK'
    BY <2>4 DEF CreateChart, UpdateChart
  <2>5. QED BY <1>3, <2>1, <2>2, <2>3, <2>4 DEF EditDashboard
<1>4. ASSUME NEW v \in EventRow, StoreEvent(v) PROVE TypeOK'
  BY <1>4 DEF StoreEvent
<1>5. ASSUME NEW s \in Schemas, Project(s) PROVE TypeOK'
  <2>1. \A q \in RulesOf(s) : ReadingOf(q) \in ReadingRow
    <3> SUFFICES ASSUME NEW q \in RulesOf(s) PROVE ReadingOf(q) \in ReadingRow
      OBVIOUS
    <3>1. q \in Rules /\ rule[q] \in RuleRow /\ rule[q].schema = s
      BY RowTypes DEF RulesOf
    <3>2. <<schema[s].deviceType, rule[q].parameter>> \in assigned
      BY <1>5 DEF Project
    <3>3. schema[s].deviceType \in DeviceTypes /\ rule[q].parameter \in Parameters
      BY <3>1, <3>2 DEF RuleRow
    <3>4. rule[q].parameter \in Live(valueType)
      BY DEF RulesOf, RulesStayClean, RuleClean
    <3>5. valueType[rule[q].parameter] \in ValueTypes
      BY <3>4, RowTypes
    <3>6. QED BY <3>1, <3>3, <3>5 DEF ReadingOf, ReadingRow
  <2>2. QED BY <1>5, <2>1 DEF Project
<1>6. CASE UNCHANGED vars
  BY <1>6 DEF vars
<1>7. QED BY <1>1, <1>2, <1>3, <1>4, <1>5, <1>6 DEF Next, Receive

-----------------------------------------------------------------------------
(* Fields: only edits of event types, device types, schemas and fields     *)
(* touch what FieldsStayClean speaks of.                                   *)

LEMMA FieldsKept ==
  ASSUME FieldsStayClean, schema' = schema, field' = field,
         Live(eventType) \subseteq Live(eventType)', deviceTypes \subseteq deviceTypes'
  PROVE  FieldsStayClean'
<1>1. QED BY DEF FieldsStayClean, SchemaClean, FieldClean, FieldsOf, Live

LEMMA FieldsByTypes ==
  ASSUME TypeOK, FieldsStayClean, EditTypes
  PROVE  FieldsStayClean'
<1> USE DEF schemaVars, dashboardVars, telemetryVars
<1>1. ASSUME NEW e \in EventTypes, NEW c \in Codes, CreateEventType(e, c) \/ UpdateEventType(e, c)
      PROVE  FieldsStayClean'
  <2>1. Live(eventType) \subseteq Live(eventType)'
    BY <1>1, RowAssumption DEF CreateEventType, UpdateEventType, Live, TypeOK
  <2>2. QED BY <1>1, <2>1, FieldsKept DEF CreateEventType, UpdateEventType
<1>2. ASSUME NEW e \in EventTypes, DeleteEventType(e)
      PROVE  FieldsStayClean'
  BY <1>2 DEF DeleteEventType, FieldsStayClean, SchemaClean, FieldClean, FieldsOf, Live, TypeOK
<1>3. ASSUME NEW t \in DeviceTypes, CreateDeviceType(t)
      PROVE  FieldsStayClean'
  BY <1>3, FieldsKept DEF CreateDeviceType, Live
<1>4. ASSUME NEW t \in DeviceTypes, DeleteDeviceType(t)
      PROVE  FieldsStayClean'
  BY <1>4 DEF DeleteDeviceType, FieldsStayClean, SchemaClean, FieldClean, FieldsOf, Live
<1>5. CASE UNCHANGED <<eventType, deviceTypes, schema, field>>
  BY <1>5, FieldsKept DEF Live
<1>6. QED
  BY <1>1, <1>2, <1>3, <1>4, <1>5
  DEF EditTypes, DeleteParameter, CreateParameter, UpdateParameter, Assign, Unassign, Reassign

LEMMA FieldsBySchemas ==
  ASSUME TypeOK, FieldsStayClean, EditSchemas
  PROVE  FieldsStayClean'
<1> USE DEF typeVars, dashboardVars, telemetryVars
<1>1. ASSUME NEW s \in Schemas, NEW r \in SchemaRow, CreateSchema(s, r) \/ UpdateSchema(s, r)
      PROVE  FieldsStayClean'
  <2>1. schema' = [schema EXCEPT ![s] = r] /\ SchemaClean(s, r) /\ field' = field
        /\ eventType' = eventType /\ deviceTypes' = deviceTypes
    BY <1>1 DEF CreateSchema, UpdateSchema
  <2>2. Live(schema)' = Live(schema) \cup {s}
    BY <2>1, RowAssumption DEF Live, TypeOK
  <2>3. ASSUME NEW t \in Live(schema)' PROVE SchemaClean(t, schema[t])'
    BY <2>1, <2>2, <2>3 DEF FieldsStayClean, SchemaClean, SameKey, FieldsOf, Live, TypeOK
  <2>4. ASSUME NEW f \in Live(field)' PROVE FieldClean(f, field[f])'
    BY <2>1, <2>2, <2>4 DEF FieldsStayClean, SchemaClean, FieldClean, FieldsOf, Live, TypeOK
  <2>5. QED BY <2>3, <2>4 DEF FieldsStayClean
<1>2. ASSUME NEW s \in Schemas, DeleteSchema(s)
      PROVE  FieldsStayClean'
  <2>1. /\ Live(schema)' = Live(schema) \ {s}
        /\ \A t \in Live(schema)' : schema'[t] = schema[t]
    BY <1>2 DEF DeleteSchema, Live, TypeOK
  <2>2. /\ Live(field)' = Live(field) \ FieldsOf(s)
        /\ \A f \in Live(field)' : field'[f] = field[f]
    BY <1>2 DEF DeleteSchema, Live, FieldsOf, TypeOK
  <2>3. eventType' = eventType /\ deviceTypes' = deviceTypes
    BY <1>2 DEF DeleteSchema
  <2>4. \A t \in Live(schema)' : SchemaClean(t, schema[t])'
    BY <2>1, <2>2, <2>3 DEF FieldsStayClean, SchemaClean, FieldsOf
  <2>5. \A f \in Live(field)' : FieldClean(f, field[f])'
    BY <2>1, <2>2, <2>3 DEF FieldsStayClean, FieldClean, FieldsOf
  <2>6. QED BY <2>4, <2>5 DEF FieldsStayClean
<1>3. ASSUME NEW f \in Fields, NEW r \in FieldRow, CreateField(f, r) \/ UpdateField(f, r)
      PROVE  FieldsStayClean'
  <2>1. /\ field' = [field EXCEPT ![f] = r] /\ FieldClean(f, r) /\ schema' = schema
        /\ eventType' = eventType /\ deviceTypes' = deviceTypes
    BY <1>3 DEF CreateField, UpdateField
  <2>2. /\ Live(field)' = Live(field) \cup {f} /\ field'[f] = r
        /\ \A g \in Live(field) \ {f} : field'[g] = field[g]
    BY <2>1, RowAssumption DEF Live, TypeOK
  <2>3. \A t \in Live(schema)' : SchemaClean(t, schema[t])'
    BY <2>1, <2>2 DEF FieldsStayClean, SchemaClean, FieldClean, FieldsOf, Live
  <2>4. FieldClean(f, field[f])'
    BY <2>1, <2>2 DEF FieldClean, FieldsOf, Live
  <2>5. \A g \in Live(field) \ {f} : FieldClean(g, field[g])'
    BY <2>1, <2>2 DEF FieldsStayClean, FieldClean, FieldsOf, Live, Overlap
  <2>6. QED BY <2>2, <2>3, <2>4, <2>5 DEF FieldsStayClean
<1>4. ASSUME NEW f \in Fields, DeleteField(f)
      PROVE  FieldsStayClean'
  <2>1. /\ Live(field)' = Live(field) \ {f} /\ schema' = schema
        /\ \A g \in Live(field)' : field'[g] = field[g]
        /\ eventType' = eventType /\ deviceTypes' = deviceTypes
    BY <1>4 DEF DeleteField, Live, TypeOK
  <2>2. \A t \in Live(schema)' : SchemaClean(t, schema[t])'
    BY <2>1 DEF FieldsStayClean, SchemaClean, FieldsOf, Live
  <2>3. \A g \in Live(field)' : FieldClean(g, field[g])'
    BY <2>1 DEF FieldsStayClean, FieldClean, FieldsOf, Live
  <2>4. QED BY <2>2, <2>3 DEF FieldsStayClean
<1>5. CASE UNCHANGED <<eventType, deviceTypes, schema, field>>
  BY <1>5, FieldsKept DEF Live
<1>6. QED
  BY <1>1, <1>2, <1>3, <1>4, <1>5 DEF EditSchemas, DeleteRule, CreateRule, UpdateRule

-----------------------------------------------------------------------------
(* Rules.  What one of them rests on is changed only where no rule is.     *)

LEMMA RulesKept ==
  ASSUME RulesStayClean, schema' = schema, field' = field, rule' = rule, valueType' = valueType,
         assigned \subseteq assigned'
  PROVE  RulesStayClean'
<1>1. QED BY DEF RulesStayClean, RuleClean, Convertible, FieldsOf, RulesOf, Live

LEMMA RulesByTypes ==
  ASSUME TypeOK, RulesStayClean, EditTypes
  PROVE  RulesStayClean'
<1> USE DEF schemaVars, dashboardVars, telemetryVars
<1>1. ASSUME NEW p \in Parameters, NEW v \in ValueTypes \cup {Absent},
             valueType' = [valueType EXCEPT ![p] = v],
             p \in Live(valueType) /\ v # valueType[p] =>
               \A q \in Live(rule) : rule[q].parameter # p,
             UNCHANGED <<schema, field, rule, assigned>>
      PROVE  RulesStayClean'
  <2>1. ASSUME NEW q \in Live(rule)
        PROVE  /\ rule[q].parameter \in Live(valueType)'
               /\ valueType'[rule[q].parameter] = valueType[rule[q].parameter]
    <3>1. rule[q].parameter \in Live(valueType) BY DEF RulesStayClean, RuleClean
    <3>2. QED BY <1>1, <3>1 DEF Live, TypeOK
  <2>2. QED
    BY <1>1, <2>1 DEF RulesStayClean, RuleClean, Convertible, FieldsOf, RulesOf, Live
<1>2. ASSUME NEW p \in Parameters, NEW v \in ValueTypes, CreateParameter(p, v) \/ UpdateParameter(p, v)
      PROVE  RulesStayClean'
  <2>1. CASE CreateParameter(p, v)
    BY <1>1, <2>1 DEF CreateParameter, Live
  <2>2. CASE UpdateParameter(p, v)
    BY <1>1, <2>2 DEF UpdateParameter
  <2>3. QED BY <1>2, <2>1, <2>2
<1>3. ASSUME NEW p \in Parameters, DeleteParameter(p)
      PROVE  RulesStayClean'
  BY <1>1, <1>3 DEF DeleteParameter
<1>4. ASSUME NEW a \in DeviceTypes \X Parameters, ~UsedByRule(a),
             assigned \ {a} \subseteq assigned', UNCHANGED <<schema, field, rule, valueType>>
      PROVE  RulesStayClean'
  <2>1. ASSUME NEW q \in Live(rule)
        PROVE  <<schema[rule[q].schema].deviceType, rule[q].parameter>> \in assigned'
    BY <1>4 DEF UsedByRule, RulesStayClean, RuleClean
  <2>2. QED
    BY <1>4, <2>1 DEF RulesStayClean, RuleClean, Convertible, FieldsOf, RulesOf, Live
<1>5. ASSUME NEW a \in DeviceTypes \X Parameters, Assign(a) \/ Unassign(a)
      PROVE  RulesStayClean'
  BY <1>4, <1>5, RulesKept DEF Assign, Unassign
<1>6. ASSUME NEW a \in DeviceTypes \X Parameters, NEW b \in DeviceTypes \X Parameters, Reassign(a, b)
      PROVE  RulesStayClean'
  BY <1>4, <1>6 DEF Reassign
<1>7. CASE UNCHANGED <<valueType, assigned, schema, field, rule>>
  BY <1>7, RulesKept
<1>8. QED
  BY <1>2, <1>3, <1>5, <1>6, <1>7
  DEF EditTypes, CreateEventType, UpdateEventType, DeleteEventType, CreateDeviceType, DeleteDeviceType

LEMMA RulesBySchemas ==
  ASSUME TypeOK, FieldsStayClean, RulesStayClean, EditSchemas
  PROVE  RulesStayClean'
<1> USE DEF typeVars, dashboardVars, telemetryVars
<1>1. ASSUME NEW s \in Schemas, NEW r \in SchemaRow, CreateSchema(s, r) \/ UpdateSchema(s, r)
      PROVE  RulesStayClean'
  <2>1. schema' = [schema EXCEPT ![s] = r] /\ UNCHANGED <<field, rule, valueType, assigned>>
    BY <1>1 DEF CreateSchema, UpdateSchema
  <2>2. Live(schema) \subseteq Live(schema)'
    BY <2>1, RowAssumption DEF Live, TypeOK
  <2>3. ASSUME NEW q \in Live(rule)
        PROVE  schema'[rule[q].schema].deviceType = schema[rule[q].schema].deviceType
    <3>1. rule[q].schema \in Live(schema) BY DEF RulesStayClean, RuleClean
    <3>2. rule[q].schema = s => r.deviceType = schema[s].deviceType
      BY <1>1, <3>1 DEF CreateSchema, UpdateSchema, Live, RulesOf
    <3>3. QED BY <2>1, <3>1, <3>2 DEF Live, TypeOK
  <2>4. QED
    BY <2>1, <2>2, <2>3 DEF RulesStayClean, RuleClean, Convertible, FieldsOf, RulesOf, Live
<1>2. ASSUME NEW s \in Schemas, DeleteSchema(s)
      PROVE  RulesStayClean'
  <2>1. /\ Live(schema)' = Live(schema) \ {s}
        /\ \A t \in Live(schema)' : schema'[t] = schema[t]
    BY <1>2 DEF DeleteSchema, Live, TypeOK
  <2>2. /\ Live(field)' = Live(field) \ FieldsOf(s)
        /\ \A f \in Live(field)' : field'[f] = field[f]
    BY <1>2 DEF DeleteSchema, Live, FieldsOf, TypeOK
  <2>3. /\ Live(rule)' = Live(rule) \ RulesOf(s)
        /\ \A q \in Live(rule)' : rule'[q] = rule[q]
    BY <1>2 DEF DeleteSchema, Live, RulesOf, TypeOK
  <2>4. valueType' = valueType /\ assigned' = assigned /\ Live(valueType)' = Live(valueType)
    BY <1>2 DEF DeleteSchema, Live
  <2>5. ASSUME NEW q \in Live(rule)'
        PROVE  RuleClean(q, rule[q])'
    <3>1. q \in Live(rule) /\ rule'[q] = rule[q] /\ rule[q].schema # s /\ RuleClean(q, rule[q])
      BY <2>3 DEF RulesStayClean, RulesOf
    <3>2. rule[q].schema \in Live(schema)' /\ schema'[rule[q].schema] = schema[rule[q].schema]
      BY <2>1, <3>1 DEF RuleClean
    <3>3. rule[q].source \in Fields =>
            /\ rule[q].source \in FieldsOf(rule[q].schema)'
            /\ field'[rule[q].source] = field[rule[q].source]
      BY <2>2, <3>1 DEF RuleClean, FieldsOf
    <3>4. RulesOf(rule[q].schema)' \subseteq RulesOf(rule[q].schema)
      BY <2>3 DEF RulesOf
    <3>5. \A u \in RulesOf(rule[q].schema)' : rule'[u] = rule[u]
      BY <2>3 DEF RulesOf
    <3>6. Convertible(rule[q])'
      BY <2>4, <3>1, <3>3 DEF RuleClean, Convertible
    <3>7. QED BY <2>4, <3>1, <3>2, <3>3, <3>4, <3>5, <3>6 DEF RuleClean
  <2>6. QED BY <2>5 DEF RulesStayClean
<1>3. ASSUME NEW f \in Fields, NEW r \in FieldRow, CreateField(f, r) \/ UpdateField(f, r)
      PROVE  RulesStayClean'
  <2>1. /\ field' = [field EXCEPT ![f] = r]
        /\ UNCHANGED <<schema, rule, valueType, assigned>>
    BY <1>3 DEF CreateField, UpdateField
  <2>2. ASSUME NEW q \in Live(rule), rule[q].source \in Fields
        PROVE  /\ rule[q].source \in FieldsOf(rule[q].schema)'
               /\ field'[rule[q].source].codec = field[rule[q].source].codec
               /\ field'[rule[q].source].role = field[rule[q].source].role
    <3>1. rule[q].source \in FieldsOf(rule[q].schema)
      BY <2>2 DEF RulesStayClean, RuleClean
    <3>2. CASE rule[q].source # f
      BY <2>1, <3>1, <3>2 DEF FieldsOf, Live, TypeOK
    <3>3. CASE rule[q].source = f
      <4>1. r = [field[f] EXCEPT !.span = r.span]
        BY <1>3, <3>1, <3>3 DEF CreateField, UpdateField, Projected, FieldsOf, Live
      <4>2. field[f] \in FieldRow BY <3>1, <3>3, RowTypes DEF FieldsOf
      <4>3. r.schema = field[f].schema /\ r.codec = field[f].codec /\ r.role = field[f].role
        BY <4>1, <4>2 DEF FieldRow
      <4>4. QED BY <2>1, <3>1, <3>3, <4>3, RowAssumption DEF FieldsOf, Live, TypeOK
    <3>4. QED BY <3>2, <3>3
  <2>3. QED
    BY <2>1, <2>2 DEF RulesStayClean, RuleClean, Convertible, RulesOf, Live
<1>4. ASSUME NEW f \in Fields, DeleteField(f)
      PROVE  RulesStayClean'
  <2>1. UNCHANGED <<schema, rule, valueType, assigned>>
    BY <1>4 DEF DeleteField
  <2>2. ASSUME NEW q \in Live(rule), rule[q].source \in Fields
        PROVE  /\ rule[q].source \in FieldsOf(rule[q].schema)'
               /\ field'[rule[q].source] = field[rule[q].source]
    <3>1. rule[q].source \in FieldsOf(rule[q].schema) /\ rule[q].source # f
      BY <1>4, <2>2 DEF RulesStayClean, RuleClean, DeleteField, Projected
    <3>2. QED BY <1>4, <3>1 DEF DeleteField, FieldsOf, Live, TypeOK
  <2>3. QED
    BY <2>1, <2>2 DEF RulesStayClean, RuleClean, Convertible, RulesOf, Live
<1>5. ASSUME NEW q \in Rules, NEW r \in RuleRow, CreateRule(q, r) \/ UpdateRule(q, r)
      PROVE  RulesStayClean'
  <2>1. /\ rule' = [rule EXCEPT ![q] = r] /\ RuleClean(q, r)
        /\ UNCHANGED <<schema, field, valueType, assigned>>
    BY <1>5 DEF CreateRule, UpdateRule
  <2>2. /\ Live(rule)' = Live(rule) \cup {q} /\ rule'[q] = r
        /\ \A u \in Live(rule) \ {q} : rule'[u] = rule[u]
    BY <2>1, RowAssumption DEF Live, TypeOK
  <2>3. \A u \in Live(rule)' : RuleClean(u, rule'[u])
    <3>1. RuleClean(q, rule'[q]) BY <2>1, <2>2
    <3>2. \A u \in Live(rule) \ {q} : RuleClean(u, rule'[u]) BY <2>2 DEF RulesStayClean
    <3>3. QED BY <2>2, <3>1, <3>2
  <2>4. ASSUME NEW u \in Live(rule)', NEW w \in RulesOf(rule[u].schema)', w # u
        PROVE  rule'[w].parameter # rule'[u].parameter
    <3>1. w \in Live(rule)' /\ rule'[w].schema = rule'[u].schema
      BY <2>4 DEF RulesOf
    <3>2. CASE w # q
      <4>1. w \in Live(rule) /\ rule[w] = rule'[w] BY <2>2, <3>1, <3>2
      <4>2. w \in RulesOf(rule'[u].schema) \ {u} BY <2>4, <3>1, <4>1 DEF RulesOf
      <4>3. QED BY <2>3, <4>1, <4>2 DEF RuleClean
    <3>3. CASE w = q
      <4>1. u \in Live(rule) /\ rule[u] = rule'[u] BY <2>2, <2>4, <3>3
      <4>2. u \in RulesOf(r.schema) \ {q} BY <2>2, <2>4, <3>1, <3>3, <4>1 DEF RulesOf
      <4>3. QED BY <2>1, <2>2, <3>3, <4>1, <4>2 DEF RuleClean
    <3>4. QED BY <3>2, <3>3
  <2>5. QED
    BY <2>1, <2>3, <2>4 DEF RulesStayClean, RuleClean, Convertible, FieldsOf, Live
<1>6. ASSUME NEW q \in Rules, DeleteRule(q)
      PROVE  RulesStayClean'
  <2>1. /\ Live(rule)' = Live(rule) \ {q}
        /\ \A u \in Live(rule)' : rule'[u] = rule[u]
        /\ UNCHANGED <<schema, field, valueType, assigned>>
    BY <1>6 DEF DeleteRule, Live, TypeOK
  <2>2. Live(schema)' = Live(schema) /\ Live(field)' = Live(field) /\ Live(valueType)' = Live(valueType)
    BY <2>1 DEF Live
  <2>3. QED
    BY <2>1, <2>2 DEF RulesStayClean, RuleClean, Convertible, FieldsOf, RulesOf
<1>7. QED BY <1>1, <1>2, <1>3, <1>4, <1>5, <1>6 DEF EditSchemas

-----------------------------------------------------------------------------
(* Telemetry.  A reading refers to a schema with stored events.            *)

Evidence == \A g \in readings : g.schema \in Used
ConfigurationInv ==
  TypeOK /\ FieldsStayClean /\ RulesStayClean /\ NothingDangles /\ Evidence /\ ReadingsStayClean

LEMMA ConfigurationInit == Init => ConfigurationInv
<1>1. QED
  BY TypeInit DEF ConfigurationInv, Init, FieldsStayClean, RulesStayClean, NothingDangles,
                  Evidence, ReadingsStayClean, Live

(* What a used schema consists of does not change.                         *)
LEMMA UsedKept ==
  ASSUME TypeOK, RulesStayClean, NothingDangles, [Next]_vars,
         NEW v \in events, v.schema # Null
  PROVE  /\ schema'[v.schema] = schema[v.schema] /\ v.schema \in Live(schema)'
         /\ eventType'[v.eventType] = eventType[v.eventType]
         /\ FieldsOf(v.schema)' = FieldsOf(v.schema)
         /\ \A f \in FieldsOf(v.schema) : field'[f] = field[f]
         /\ RulesOf(v.schema)' = RulesOf(v.schema)
         /\ \A q \in RulesOf(v.schema) :
              rule'[q] = rule[q] /\ valueType'[rule[q].parameter] = valueType[rule[q].parameter]
<1> USE DEF typeVars, schemaVars, dashboardVars, telemetryVars
<1> DEFINE s == v.schema
<1>1. s \in Used /\ s \in Live(schema) /\ s \in Schemas /\ v.eventType \in Live(eventType)
  BY DEF Used, NothingDangles, Live, TypeOK
<1>2. schema'[s] = schema[s] /\ s \in Live(schema)'
  <2>1. CASE schema' = schema BY <1>1, <2>1 DEF Live
  <2>2. ASSUME NEW t \in Schemas, NEW r \in SchemaRow, CreateSchema(t, r) \/ UpdateSchema(t, r)
        PROVE  schema'[s] = schema[s] /\ s \in Live(schema)'
    BY <1>1, <2>2 DEF CreateSchema, UpdateSchema, Live, TypeOK
  <2>3. ASSUME NEW t \in Schemas, DeleteSchema(t)
        PROVE  schema'[s] = schema[s] /\ s \in Live(schema)'
    BY <1>1, <2>3 DEF DeleteSchema, Live, TypeOK
  <2>4. CASE EditSchemas
    BY <2>1, <2>2, <2>3, <2>4
    DEF EditSchemas, CreateField, UpdateField, DeleteField, CreateRule, UpdateRule, DeleteRule
  <2>5. CASE EditTypes
    BY <2>1, <2>5
    DEF EditTypes, CreateEventType, UpdateEventType, DeleteEventType, CreateDeviceType,
        DeleteDeviceType, CreateParameter, UpdateParameter, DeleteParameter, Assign, Unassign, Reassign
  <2>6. CASE EditDashboard \/ Receive \/ UNCHANGED vars
    BY <2>1, <2>6
    DEF EditDashboard, CreateTab, UpdateTab, DeleteTab, CreateChart, UpdateChart, DeleteChart,
        Receive, StoreEvent, Project, vars
  <2>7. QED BY <2>4, <2>5, <2>6 DEF Next
<1>3. eventType'[v.eventType] = eventType[v.eventType]
  <2>1. CASE eventType' = eventType BY <2>1
  <2>2. ASSUME NEW e \in EventTypes, NEW c \in Codes, CreateEventType(e, c) \/ UpdateEventType(e, c)
        PROVE  eventType'[v.eventType] = eventType[v.eventType]
    BY <1>1, <2>2 DEF CreateEventType, UpdateEventType, Live, TypeOK
  <2>3. ASSUME NEW e \in EventTypes, DeleteEventType(e)
        PROVE  eventType'[v.eventType] = eventType[v.eventType]
    BY <1>1, <2>3 DEF DeleteEventType, Live, TypeOK
  <2>4. CASE EditTypes
    BY <2>1, <2>2, <2>3, <2>4
    DEF EditTypes, CreateDeviceType, DeleteDeviceType, CreateParameter, UpdateParameter,
        DeleteParameter, Assign, Unassign, Reassign
  <2>5. CASE EditSchemas
    BY <2>1, <2>5
    DEF EditSchemas, CreateSchema, UpdateSchema, DeleteSchema, CreateField, UpdateField,
        DeleteField, CreateRule, UpdateRule, DeleteRule
  <2>6. CASE EditDashboard \/ Receive \/ UNCHANGED vars
    BY <2>1, <2>6
    DEF EditDashboard, CreateTab, UpdateTab, DeleteTab, CreateChart, UpdateChart, DeleteChart,
        Receive, StoreEvent, Project, vars
  <2>7. QED BY <2>4, <2>5, <2>6 DEF Next
<1>4. FieldsOf(s)' = FieldsOf(s) /\ \A f \in FieldsOf(s) : field'[f] = field[f]
  <2>1. CASE field' = field BY <2>1 DEF FieldsOf, Live
  <2>2. ASSUME NEW f \in Fields, NEW r \in FieldRow, CreateField(f, r)
        PROVE  FieldsOf(s)' = FieldsOf(s) /\ \A g \in FieldsOf(s) : field'[g] = field[g]
    BY <1>1, <2>2, RowAssumption DEF CreateField, FieldsOf, Live, TypeOK
  <2>3. ASSUME NEW f \in Fields, NEW r \in FieldRow, UpdateField(f, r)
        PROVE  FieldsOf(s)' = FieldsOf(s) /\ \A g \in FieldsOf(s) : field'[g] = field[g]
    <3>1. field[f].schema # s /\ r.schema # s BY <1>1, <2>3 DEF UpdateField
    <3>2. QED BY <2>3, <3>1, RowAssumption DEF UpdateField, FieldsOf, Live, TypeOK
  <2>4. ASSUME NEW f \in Fields, DeleteField(f)
        PROVE  FieldsOf(s)' = FieldsOf(s) /\ \A g \in FieldsOf(s) : field'[g] = field[g]
    BY <1>1, <2>4 DEF DeleteField, FieldsOf, Live, TypeOK
  <2>5. ASSUME NEW t \in Schemas, DeleteSchema(t)
        PROVE  FieldsOf(s)' = FieldsOf(s) /\ \A g \in FieldsOf(s) : field'[g] = field[g]
    BY <1>1, <2>5 DEF DeleteSchema, FieldsOf, Live, TypeOK
  <2>6. CASE EditSchemas
    BY <2>1, <2>2, <2>3, <2>4, <2>5, <2>6
    DEF EditSchemas, CreateSchema, UpdateSchema, CreateRule, UpdateRule, DeleteRule
  <2>7. CASE EditTypes
    BY <2>1, <2>7
    DEF EditTypes, CreateEventType, UpdateEventType, DeleteEventType, CreateDeviceType,
        DeleteDeviceType, CreateParameter, UpdateParameter, DeleteParameter, Assign, Unassign, Reassign
  <2>8. CASE EditDashboard \/ Receive \/ UNCHANGED vars
    BY <2>1, <2>8
    DEF EditDashboard, CreateTab, UpdateTab, DeleteTab, CreateChart, UpdateChart, DeleteChart,
        Receive, StoreEvent, Project, vars
  <2>9. QED BY <2>6, <2>7, <2>8 DEF Next
<1>5. RulesOf(s)' = RulesOf(s) /\ \A q \in RulesOf(s) : rule'[q] = rule[q]
  <2>1. CASE rule' = rule BY <2>1 DEF RulesOf, Live
  <2>2. ASSUME NEW q \in Rules, NEW r \in RuleRow, CreateRule(q, r)
        PROVE  RulesOf(s)' = RulesOf(s) /\ \A u \in RulesOf(s) : rule'[u] = rule[u]
    BY <1>1, <2>2, RowAssumption DEF CreateRule, RulesOf, Live, TypeOK
  <2>3. ASSUME NEW q \in Rules, NEW r \in RuleRow, UpdateRule(q, r)
        PROVE  RulesOf(s)' = RulesOf(s) /\ \A u \in RulesOf(s) : rule'[u] = rule[u]
    <3>1. rule[q].schema # s /\ r.schema # s BY <1>1, <2>3 DEF UpdateRule
    <3>2. QED BY <2>3, <3>1, RowAssumption DEF UpdateRule, RulesOf, Live, TypeOK
  <2>4. ASSUME NEW q \in Rules, DeleteRule(q)
        PROVE  RulesOf(s)' = RulesOf(s) /\ \A u \in RulesOf(s) : rule'[u] = rule[u]
    BY <1>1, <2>4 DEF DeleteRule, RulesOf, Live, TypeOK
  <2>5. ASSUME NEW t \in Schemas, DeleteSchema(t)
        PROVE  RulesOf(s)' = RulesOf(s) /\ \A u \in RulesOf(s) : rule'[u] = rule[u]
    BY <1>1, <2>5 DEF DeleteSchema, RulesOf, Live, TypeOK
  <2>6. CASE EditSchemas
    BY <2>1, <2>2, <2>3, <2>4, <2>5, <2>6
    DEF EditSchemas, CreateSchema, UpdateSchema, CreateField, UpdateField, DeleteField
  <2>7. CASE EditTypes
    BY <2>1, <2>7
    DEF EditTypes, CreateEventType, UpdateEventType, DeleteEventType, CreateDeviceType,
        DeleteDeviceType, CreateParameter, UpdateParameter, DeleteParameter, Assign, Unassign, Reassign
  <2>8. CASE EditDashboard \/ Receive \/ UNCHANGED vars
    BY <2>1, <2>8
    DEF EditDashboard, CreateTab, UpdateTab, DeleteTab, CreateChart, UpdateChart, DeleteChart,
        Receive, StoreEvent, Project, vars
  <2>9. QED BY <2>6, <2>7, <2>8 DEF Next
<1>6. ASSUME NEW q \in RulesOf(s)
      PROVE  valueType'[rule[q].parameter] = valueType[rule[q].parameter]
  <2>1. q \in Live(rule) /\ rule[q].parameter \in Live(valueType)
    BY DEF RulesOf, RulesStayClean, RuleClean
  <2>2. CASE valueType' = valueType BY <2>2
  <2>3. ASSUME NEW p \in Parameters, NEW t \in ValueTypes, CreateParameter(p, t) \/ UpdateParameter(p, t)
        PROVE  valueType'[rule[q].parameter] = valueType[rule[q].parameter]
    BY <2>1, <2>3 DEF CreateParameter, UpdateParameter, Live, TypeOK
  <2>4. ASSUME NEW p \in Parameters, DeleteParameter(p)
        PROVE  valueType'[rule[q].parameter] = valueType[rule[q].parameter]
    BY <2>1, <2>4 DEF DeleteParameter, Live, TypeOK
  <2>5. CASE EditTypes
    BY <2>2, <2>3, <2>4, <2>5
    DEF EditTypes, CreateEventType, UpdateEventType, DeleteEventType, CreateDeviceType,
        DeleteDeviceType, Assign, Unassign, Reassign
  <2>6. CASE EditSchemas
    BY <2>2, <2>6
    DEF EditSchemas, CreateSchema, UpdateSchema, DeleteSchema, CreateField, UpdateField,
        DeleteField, CreateRule, UpdateRule, DeleteRule
  <2>7. CASE EditDashboard \/ Receive \/ UNCHANGED vars
    BY <2>2, <2>7
    DEF EditDashboard, CreateTab, UpdateTab, DeleteTab, CreateChart, UpdateChart, DeleteChart,
        Receive, StoreEvent, Project, vars
  <2>8. QED BY <2>5, <2>6, <2>7 DEF Next
<1>7. QED BY <1>2, <1>3, <1>4, <1>5, <1>6

(* What telemetry, visualizations and assignments refer to is protected    *)
(* against deletion.                                                       *)
LEMMA DanglesStep ==
  ASSUME TypeOK, RulesStayClean, NothingDangles, [Next]_vars
  PROVE  NothingDangles'
<1> USE RowAssumption DEF typeVars, schemaVars, dashboardVars, telemetryVars
<1>1. CASE EditTypes
  <2>1. ASSUME NEW e \in EventTypes, NEW c \in Codes, CreateEventType(e, c) \/ UpdateEventType(e, c)
        PROVE  NothingDangles'
    BY <2>1 DEF CreateEventType, UpdateEventType, NothingDangles, Live, TypeOK
  <2>2. ASSUME NEW e \in EventTypes, DeleteEventType(e) PROVE NothingDangles'
    BY <2>2 DEF DeleteEventType, NothingDangles, Live, TypeOK
  <2>3. ASSUME NEW t \in DeviceTypes, CreateDeviceType(t) PROVE NothingDangles'
    BY <2>3 DEF CreateDeviceType, NothingDangles, Live
  <2>4. ASSUME NEW t \in DeviceTypes, DeleteDeviceType(t) PROVE NothingDangles'
    BY <2>4 DEF DeleteDeviceType, NothingDangles, Live
  <2>5. ASSUME NEW p \in Parameters, NEW v \in ValueTypes, CreateParameter(p, v) \/ UpdateParameter(p, v)
        PROVE  NothingDangles'
    <3>1. Live(valueType) \subseteq Live(valueType)'
      BY <2>5 DEF CreateParameter, UpdateParameter, Live, TypeOK
    <3>2. QED BY <2>5, <3>1 DEF CreateParameter, UpdateParameter, NothingDangles, Live
  <2>6. ASSUME NEW p \in Parameters, DeleteParameter(p) PROVE NothingDangles'
    <3>1. Live(valueType)' = Live(valueType) \ {p}
      BY <2>6 DEF DeleteParameter, Live, TypeOK
    <3>2. QED BY <2>6, <3>1 DEF DeleteParameter, NothingDangles, Live
  <2>7. ASSUME NEW a \in DeviceTypes \X Parameters, NEW b \in DeviceTypes \X Parameters,
               Reassign(a, b)
        PROVE  NothingDangles'
    BY <2>7 DEF Reassign, NothingDangles, Live
  <2>8. ASSUME NEW a \in DeviceTypes \X Parameters, Assign(a) \/ Unassign(a)
        PROVE  NothingDangles'
    BY <2>8 DEF Assign, Unassign, NothingDangles, Live
  <2>9. QED BY <1>1, <2>1, <2>2, <2>3, <2>4, <2>5, <2>6, <2>7, <2>8 DEF EditTypes
<1>2. CASE EditSchemas
  <2>1. \A v \in events : v.schema # Null => v.schema \in Live(schema)'
    BY <1>2, UsedKept DEF Next
  <2>2. UNCHANGED <<typeVars, dashboardVars, telemetryVars>>
    BY <1>2
    DEF EditSchemas, CreateSchema, UpdateSchema, DeleteSchema, CreateField, UpdateField,
        DeleteField, CreateRule, UpdateRule, DeleteRule
  <2>3. Live(eventType)' = Live(eventType) /\ Live(valueType)' = Live(valueType)
        /\ Live(tab)' = Live(tab) /\ Live(chart)' = Live(chart)
    BY <2>2 DEF Live
  <2>4. QED BY <2>1, <2>2, <2>3 DEF NothingDangles
<1>3. CASE EditDashboard
  <2>1. ASSUME NEW g \in Tabs, DeleteTab(g) PROVE NothingDangles'
    <3>1. Live(chart)' = {c \in Live(chart) : chart[c].tab # g}
          /\ \A c \in Live(chart)' : chart'[c] = chart[c]
      BY <2>1 DEF DeleteTab, Live, TypeOK
    <3>2. Live(tab)' = Live(tab) \ {g} /\ \A k \in Live(tab)' : tab'[k] = tab[k]
      BY <2>1 DEF DeleteTab, Live, TypeOK
    <3>3. Live(eventType)' = Live(eventType) /\ Live(valueType)' = Live(valueType)
          /\ Live(schema)' = Live(schema)
      BY <2>1 DEF DeleteTab, Live
    <3>4. UNCHANGED <<typeVars, telemetryVars>> BY <2>1 DEF DeleteTab
    <3>5. \A c \in Live(chart)' : /\ chart'[c].tab \in Live(tab)'
                                  /\ {chart'[c].x, chart'[c].y} \ {Null} \subseteq Live(valueType)'
      BY <3>1, <3>2, <3>3 DEF NothingDangles
    <3>6. \A k \in Live(tab)' : tab'[k] \in deviceTypes'
      BY <3>2, <3>4 DEF NothingDangles
    <3>7. QED BY <3>3, <3>4, <3>5, <3>6 DEF NothingDangles
  <2>2. ASSUME NEW g \in Tabs, NEW t \in DeviceTypes, CreateTab(g, t) \/ UpdateTab(g, t)
        PROVE  NothingDangles'
    BY <2>2 DEF CreateTab, UpdateTab, NothingDangles, Live, TypeOK
  <2>3. ASSUME NEW c \in Charts, DeleteChart(c) PROVE NothingDangles'
    BY <2>3 DEF DeleteChart, NothingDangles, Live, TypeOK
  <2>4. ASSUME NEW c \in Charts, NEW r \in ChartRow, CreateChart(c, r) \/ UpdateChart(c, r)
        PROVE  NothingDangles'
    BY <2>4 DEF CreateChart, UpdateChart, ChartClean, NothingDangles, Live, TypeOK
  <2>5. QED BY <1>3, <2>1, <2>2, <2>3, <2>4 DEF EditDashboard
<1>4. ASSUME NEW v \in EventRow, StoreEvent(v) PROVE NothingDangles'
  BY <1>4 DEF StoreEvent, NothingDangles, Live
<1>5. ASSUME NEW s \in Schemas, Project(s) PROVE NothingDangles'
  BY <1>5 DEF Project, NothingDangles, Live
<1>6. CASE UNCHANGED vars
  BY <1>6 DEF vars, NothingDangles, Live
<1>7. QED BY <1>1, <1>2, <1>3, <1>4, <1>5, <1>6 DEF Next, Receive

(* Events are never deleted, and readings are only those of stored events. *)
LEMMA EvidenceStep == Evidence /\ [Next]_vars => Evidence'
<1> SUFFICES ASSUME Evidence, [Next]_vars PROVE Evidence'
  OBVIOUS
<1> USE DEF telemetryVars
<1>1. CASE UNCHANGED telemetryVars
  BY <1>1 DEF Evidence, Used
<1>2. ASSUME NEW v \in EventRow, StoreEvent(v) PROVE Evidence'
  BY <1>2 DEF StoreEvent, Evidence, Used
<1>3. ASSUME NEW s \in Schemas, Project(s) PROVE Evidence'
  <2>1. \A q \in RulesOf(s) : ReadingOf(q).schema = s BY DEF RulesOf, ReadingOf
  <2>2. Used' = Used BY <1>3 DEF Project, Used
  <2>3. QED BY <1>3, <2>1, <2>2 DEF Project, Evidence
<1>4. CASE EditTypes
  BY <1>1, <1>4
  DEF EditTypes, CreateEventType, UpdateEventType, DeleteEventType, CreateDeviceType,
      DeleteDeviceType, CreateParameter, UpdateParameter, DeleteParameter, Assign, Unassign, Reassign
<1>5. CASE EditSchemas
  BY <1>1, <1>5
  DEF EditSchemas, CreateSchema, UpdateSchema, DeleteSchema, CreateField, UpdateField,
      DeleteField, CreateRule, UpdateRule, DeleteRule
<1>6. CASE EditDashboard
  BY <1>1, <1>6
  DEF EditDashboard, CreateTab, UpdateTab, DeleteTab, CreateChart, UpdateChart, DeleteChart
<1>7. QED BY <1>1, <1>2, <1>3, <1>4, <1>5, <1>6 DEF Next, Receive, vars

(* An assignment that a rule needs survives.                               *)
LEMMA AssignmentKept ==
  ASSUME [Next]_vars, NEW q \in Live(rule),
         NEW a \in assigned, a = <<schema[rule[q].schema].deviceType, rule[q].parameter>>
  PROVE  a \in assigned'
<1> USE DEF typeVars, schemaVars, dashboardVars, telemetryVars
<1>1. UsedByRule(a) BY DEF UsedByRule
<1>2. CASE assigned' = assigned BY <1>2
<1>3. ASSUME NEW b \in DeviceTypes \X Parameters, NEW c \in DeviceTypes \X Parameters,
             Assign(b) \/ Unassign(b) \/ Reassign(b, c)
      PROVE  a \in assigned'
  BY <1>1, <1>3 DEF Assign, Unassign, Reassign
<1>4. CASE EditTypes
  BY <1>2, <1>3, <1>4
  DEF EditTypes, CreateEventType, UpdateEventType, DeleteEventType, CreateDeviceType,
      DeleteDeviceType, CreateParameter, UpdateParameter, DeleteParameter
<1>5. CASE EditSchemas
  BY <1>2, <1>5
  DEF EditSchemas, CreateSchema, UpdateSchema, DeleteSchema, CreateField, UpdateField,
      DeleteField, CreateRule, UpdateRule, DeleteRule
<1>6. CASE EditDashboard \/ Receive \/ UNCHANGED vars
  BY <1>2, <1>6
  DEF EditDashboard, CreateTab, UpdateTab, DeleteTab, CreateChart, UpdateChart, DeleteChart,
      Receive, StoreEvent, Project, vars
<1>7. QED BY <1>4, <1>5, <1>6 DEF Next

(* Readings that exist stay explained, and new ones are explained by the   *)
(* rules they come from.                                                   *)
LEMMA ReadingsStep ==
  ASSUME ConfigurationInv, [Next]_vars
  PROVE  ReadingsStayClean'
<1>1. ASSUME NEW g \in readings PROVE ReadingClean(g)'
  <2>1. PICK v \in events : v.schema # Null /\ v.schema = g.schema
    BY DEF ConfigurationInv, Evidence, Used
  <2>2. ReadingClean(g) /\ g.rule \in RulesOf(v.schema)
    BY <2>1 DEF ConfigurationInv, ReadingsStayClean, ReadingClean
  <2>3. /\ schema'[g.schema] = schema[g.schema] /\ g.schema \in Live(schema)'
        /\ g.rule \in RulesOf(g.schema)'
        /\ rule'[g.rule] = rule[g.rule]
        /\ valueType'[rule[g.rule].parameter] = valueType[rule[g.rule].parameter]
    BY <2>1, <2>2, UsedKept DEF ConfigurationInv
  <2>4. <<g.deviceType, g.parameter>> \in assigned'
    <3>1. g.rule \in Live(rule) /\ rule[g.rule].schema = g.schema
      BY <2>1, <2>2 DEF RulesOf
    <3>2. QED BY <2>2, <3>1, AssignmentKept DEF ReadingClean
  <2>5. QED BY <2>2, <2>3, <2>4 DEF ReadingClean
<1>2. CASE readings' = readings
  BY <1>1, <1>2 DEF ReadingsStayClean
<1>3. ASSUME NEW s \in Schemas, Project(s) PROVE ReadingsStayClean'
  <2>1. s \in Live(schema)
    BY <1>3 DEF Project, Used, ConfigurationInv, NothingDangles
  <2>2. UNCHANGED <<typeVars, schemaVars>> BY <1>3 DEF Project
  <2>3. ASSUME NEW q \in RulesOf(s) PROVE ReadingClean(ReadingOf(q))'
    <3>1. rule[q].schema = s BY DEF RulesOf
    <3>2. <<schema[s].deviceType, rule[q].parameter>> \in assigned BY <1>3 DEF Project
    <3>3. ReadingClean(ReadingOf(q)) BY <2>1, <3>1, <3>2 DEF ReadingClean, ReadingOf
    <3>4. QED BY <2>2, <3>3 DEF ReadingClean, ReadingOf, RulesOf, Live, typeVars, schemaVars
  <2>4. \A g \in readings' : g \in readings \/ \E q \in RulesOf(s) : g = ReadingOf(q)
    BY <1>3 DEF Project
  <2>5. \A q \in RulesOf(s) : ReadingOf(q)' = ReadingOf(q)
    BY <2>2 DEF ReadingOf, typeVars, schemaVars
  <2>6. QED BY <1>1, <2>3, <2>4, <2>5 DEF ReadingsStayClean, ReadingClean
<1>4. CASE EditTypes
  BY <1>2, <1>4
  DEF EditTypes, CreateEventType, UpdateEventType, DeleteEventType, CreateDeviceType,
      DeleteDeviceType, CreateParameter, UpdateParameter, DeleteParameter, Assign, Unassign,
      Reassign, telemetryVars
<1>5. CASE EditSchemas
  BY <1>2, <1>5
  DEF EditSchemas, CreateSchema, UpdateSchema, DeleteSchema, CreateField, UpdateField,
      DeleteField, CreateRule, UpdateRule, DeleteRule, telemetryVars
<1>6. CASE EditDashboard
  BY <1>2, <1>6
  DEF EditDashboard, CreateTab, UpdateTab, DeleteTab, CreateChart, UpdateChart, DeleteChart,
      telemetryVars
<1>7. CASE (\E v \in EventRow : StoreEvent(v)) \/ UNCHANGED vars
  BY <1>2, <1>7 DEF StoreEvent, vars, telemetryVars
<1>8. QED BY <1>3, <1>4, <1>5, <1>6, <1>7 DEF Next, Receive

-----------------------------------------------------------------------------
(* ConfigurationInv is inductive.                                          *)
LEMMA ConfigurationStep == ConfigurationInv /\ [Next]_vars => ConfigurationInv'
<1> SUFFICES ASSUME ConfigurationInv, [Next]_vars PROVE ConfigurationInv'
  OBVIOUS
<1> USE DEF ConfigurationInv
<1>1. TypeOK' BY TypeStep
<1>2. CASE EditTypes
  BY <1>1, <1>2, FieldsByTypes, RulesByTypes, DanglesStep, EvidenceStep, ReadingsStep
<1>3. CASE EditSchemas
  BY <1>1, <1>3, FieldsBySchemas, RulesBySchemas, DanglesStep, EvidenceStep, ReadingsStep
<1>4. CASE EditDashboard \/ Receive \/ UNCHANGED vars
  <2>1. UNCHANGED <<typeVars, schemaVars>>
    BY <1>4
    DEF EditDashboard, CreateTab, UpdateTab, DeleteTab, CreateChart, UpdateChart, DeleteChart,
        Receive, StoreEvent, Project, vars
  <2>2. FieldsStayClean'
    BY <2>1, FieldsKept DEF typeVars, schemaVars, Live
  <2>3. RulesStayClean'
    BY <2>1, RulesKept DEF typeVars, schemaVars
  <2>4. QED BY <1>1, <2>2, <2>3, DanglesStep, EvidenceStep, ReadingsStep
<1>5. QED BY <1>2, <1>3, <1>4 DEF Next

LEMMA ConfigurationInvariant == Spec => []ConfigurationInv
<1>1. QED BY ConfigurationInit, ConfigurationStep, PTL DEF Spec

(* Every service writes rows of the type of their table, and every         *)
(* projection a reading whose columns are set (configuration/services.py,  *)
(* device/services.py).                                                    *)
THEOREM TypesHold == Spec => []TypeOK
<1>1. ConfigurationInv => TypeOK BY DEF ConfigurationInv
<1>2. QED BY <1>1, ConfigurationInvariant, PTL

(* No edit of a schema, a field or what they refer to makes a stored field *)
(* overlap another, exceed its schema's length or become a second          *)
(* timestamp: PayloadSchema.clean and PayloadField.clean keep holding.     *)
THEOREM FieldsAlwaysClean == Spec => []FieldsStayClean
<1>1. ConfigurationInv => FieldsStayClean BY DEF ConfigurationInv
<1>2. QED BY <1>1, ConfigurationInvariant, PTL

(* No edit of a parameter, an assignment, a schema or a field invalidates  *)
(* a stored projection rule: ProjectionRule.clean keeps holding.           *)
THEOREM RulesAlwaysClean == Spec => []RulesStayClean
<1>1. ConfigurationInv => RulesStayClean BY DEF ConfigurationInv
<1>2. QED BY <1>1, ConfigurationInvariant, PTL

(* A stored reading keeps its rule, its parameter's type and its           *)
(* assignment: ParameterReading.clean keeps holding.                       *)
THEOREM ReadingsAlwaysExplained == Spec => []ReadingsStayClean
<1>1. ConfigurationInv => ReadingsStayClean BY DEF ConfigurationInv
<1>2. QED BY <1>1, ConfigurationInvariant, PTL

(* The delete services leave no reference to a row that is gone.           *)
THEOREM NoReferenceDangles == Spec => []NothingDangles
<1>1. ConfigurationInv => NothingDangles BY DEF ConfigurationInv
<1>2. QED BY <1>1, ConfigurationInvariant, PTL

(* What decodes and projects the events of a schema never changes once the *)
(* schema has one (_assert_schema_mutable and the guards around it).       *)
THEOREM UsedStaysFrozen == Spec => UsedIsFrozen
<1>1. ASSUME ConfigurationInv, [Next]_vars, NEW v \in events, v.schema # Null
      PROVE  Content(v)' = Content(v)
  <2> DEFINE s == v.schema
  <2>1. /\ schema'[s] = schema[s] /\ eventType'[v.eventType] = eventType[v.eventType]
        /\ FieldsOf(s)' = FieldsOf(s) /\ \A f \in FieldsOf(s) : field'[f] = field[f]
        /\ RulesOf(s)' = RulesOf(s)
        /\ \A q \in RulesOf(s) :
             rule'[q] = rule[q] /\ valueType'[rule[q].parameter] = valueType[rule[q].parameter]
    BY <1>1, UsedKept DEF ConfigurationInv
  <2>2. [f \in FieldsOf(s) |-> field[f]]' = [f \in FieldsOf(s) |-> field[f]]
    BY <2>1
  <2>3. [q \in RulesOf(s) |-> <<rule[q], valueType[rule[q].parameter]>>]'
          = [q \in RulesOf(s) |-> <<rule[q], valueType[rule[q].parameter]>>]
    BY <2>1
  <2>4. QED BY <2>1, <2>2, <2>3 DEF Content
<1>2. ConfigurationInv /\ [Next]_vars =>
        [\A v \in events : v.schema # Null => Content(v)' = Content(v)]_vars
  BY <1>1
<1>3. QED BY <1>2, ConfigurationInvariant, PTL DEF Spec, UsedIsFrozen
=============================================================================
