---------------------------- MODULE Configuration ----------------------------
(***************************************************************************)
(* The configuration that platform superusers edit: event types, device    *)
(* types, parameters and their assignment, payload schemas with fields and *)
(* projection rules, dashboard tabs and visualizations, together with the  *)
(* telemetry that refers to them.                                          *)
(*                                                                         *)
(* A service validates the row it saves (full_clean) and nothing else.     *)
(* That all the other rows stay valid is up to the guards of the services, *)
(* which look at other tables.  The clean methods are therefore operators  *)
(* that serve both as guards and as invariants.                            *)
(*                                                                         *)
(* A service is one @transaction.atomic step; a refused edit is no step.   *)
(* Columns that only name or order things are left out, except the code of *)
(* an event type, by which envelopes select it.                            *)
(***************************************************************************)
EXTENDS Naturals, FiniteSets

CONSTANTS
  EventTypes, DeviceTypes, Parameters, Schemas, Fields, Rules, Tabs, Charts,
              \* primary keys
  Codes,      \* codes of event types
  Versions,   \* versions of payload schemas
  Lengths,    \* expected lengths of payload schemas
  Spans,      \* byte ranges <<start, end>> of payload fields
  Codecs, Roles, ValueTypes,
  MaxRows,    \* bound on the rows of all configuration tables
  Absent,     \* no such row
  Null

ASSUME ConfigurationAssumption ==
  /\ Lengths \subseteq Nat
  /\ Spans \subseteq {s \in Nat \X Nat : s[1] < s[2]}
  /\ Codecs \subseteq {"integer", "utf8", "boolean"}
  /\ Roles \subseteq {"metric", "timestamp", "sequence", "checksum"}
  /\ ValueTypes \subseteq {"integer", "datetime", "string", "boolean"}
  /\ Null \notin Parameters \cup Schemas \cup Lengths

(* What a rule reads: a field, or a constant of a JSON type; and whether   *)
(* its conversion names a timestamp unit.                                  *)
Constants == {"number", "text", "truth"}
SchemaRow == [eventType : EventTypes, deviceType : DeviceTypes, version : Versions,
              length : Lengths \cup {Null}]
FieldRow == [schema : Schemas, span : Spans, codec : Codecs, role : Roles]
RuleRow == [schema : Schemas, parameter : Parameters, source : Fields \cup Constants,
            unit : BOOLEAN]
ChartRow == [tab : Tabs, x : Parameters \cup {Null}, y : Parameters]
EventRow == [eventType : EventTypes, schema : Schemas \cup {Null}]
ReadingRow == [schema : Schemas, rule : Rules, parameter : Parameters,
               deviceType : DeviceTypes, column : ValueTypes]

ASSUME RowAssumption ==
  /\ Absent \notin SchemaRow \cup FieldRow \cup RuleRow \cup ChartRow
  /\ Absent \notin Codes \cup DeviceTypes \cup ValueTypes
  /\ Fields \cap Constants = {}

VARIABLES
  eventType,    \* eventType[e]: the code of event type e
  deviceTypes,  \* the device types that exist
  valueType,    \* valueType[p]: the type of parameter p
  assigned,     \* pairs of DeviceTypeParameter
  schema,       \* schema[s], field[f], rule[q]: rows
  field,
  rule,
  tab,          \* tab[g]: the device type of dashboard tab g
  chart,        \* chart[c]: a visualization
  events,       \* event type and schema of the stored raw events
  readings      \* the stored readings

typeVars == <<eventType, deviceTypes, valueType, assigned>>
schemaVars == <<schema, field, rule>>
dashboardVars == <<tab, chart>>
telemetryVars == <<events, readings>>
vars == <<typeVars, schemaVars, dashboardVars, telemetryVars>>

(* The rows of a table that exist, and whether there may be one more.      *)
Live(table) == {k \in DOMAIN table : table[k] # Absent}
Room ==
  MaxRows > Cardinality(Live(eventType)) + Cardinality(deviceTypes)
            + Cardinality(Live(valueType)) + Cardinality(assigned) + Cardinality(Live(schema))
            + Cardinality(Live(field)) + Cardinality(Live(rule)) + Cardinality(Live(tab))
            + Cardinality(Live(chart))

FieldsOf(s) == {f \in Live(field) : field[f].schema = s}
RulesOf(s) == {q \in Live(rule) : rule[q].schema = s}
Projected(f) == \E q \in Live(rule) : rule[q].source = f

(* The schemas that a raw event refers to, which must not change.          *)
UsedByReadings == {g.schema : g \in readings}  \* mutant: failed events do not count
Used == {e.schema : e \in events} \ {Null}

-----------------------------------------------------------------------------
(* full_clean: row r may be stored under its key.                          *)

(* (event_type, device_type, version) is unique.                           *)
SameKey(a, b) ==
  a.eventType = b.eventType /\ a.deviceType = b.deviceType /\ a.version = b.version

SchemaCleanAlone(s, r) ==  \* mutant: the fields are not looked at
  /\ r.eventType \in Live(eventType) /\ r.deviceType \in deviceTypes
  /\ \A t \in Live(schema) \ {s} : ~SameKey(schema[t], r)
SchemaClean(s, r) ==
  /\ r.eventType \in Live(eventType) /\ r.deviceType \in deviceTypes
  /\ \A t \in Live(schema) \ {s} : ~SameKey(schema[t], r)
  /\ r.length # Null => \A f \in FieldsOf(s) : field[f].span[2] <= r.length

Overlap(a, b) == a[1] < b[2] /\ b[1] < a[2]

FieldClean(f, r) ==
  /\ r.schema \in Live(schema)
  /\ schema[r.schema].length # Null => r.span[2] <= schema[r.schema].length
  /\ r.role = "timestamp" => r.codec = "integer"
  /\ \A g \in FieldsOf(r.schema) \ {f} :
       /\ ~Overlap(field[g].span, r.span)
       /\ ~(field[g].role = "timestamp" /\ r.role = "timestamp")

Compatible(codec) ==
  CASE codec = "integer" -> {"integer", "datetime"}
    [] codec = "utf8" -> {"string"}
    [] codec = "boolean" -> {"boolean"}

(* What _coerce_constant makes of a constant for a parameter of type v.    *)
ConstantFor(v) ==
  CASE v \in {"integer", "datetime"} -> "number"
    [] v = "string" -> "text"
    [] v = "boolean" -> "truth"

(* A rule's value has the type of its parameter.                           *)
Convertible(r) ==
  IF r.source \in Fields
  THEN /\ valueType[r.parameter] \in Compatible(field[r.source].codec)
       /\ field[r.source].role = "timestamp" => valueType[r.parameter] = "datetime"
  ELSE r.source = ConstantFor(valueType[r.parameter])

RuleClean(q, r) ==
  /\ r.schema \in Live(schema) /\ r.parameter \in Live(valueType)
  /\ r.source \in Fields => r.source \in FieldsOf(r.schema)
  /\ <<schema[r.schema].deviceType, r.parameter>> \in assigned
  /\ Convertible(r)
  /\ r.unit => valueType[r.parameter] = "datetime"
  /\ \A u \in RulesOf(r.schema) \ {q} : rule[u].parameter # r.parameter

(* An axis is assigned to the tab's device type, and can be charted.       *)
AxisClean(g, p) ==
  /\ <<tab[g], p>> \in assigned
  /\ valueType[p] \in {"integer", "datetime"}
ChartClean(r) ==
  /\ r.tab \in Live(tab)
  /\ {r.x, r.y} \ {Null} \subseteq Live(valueType)
  /\ AxisClean(r.tab, r.y)
  /\ r.x # Null => AxisClean(r.tab, r.x) /\ r.x # r.y

(* What a reading was checked for when it was projected.                   *)
ReadingClean(g) ==
  /\ g.schema \in Live(schema) /\ g.rule \in RulesOf(g.schema)
  /\ rule[g.rule].parameter = g.parameter
  /\ valueType[g.parameter] = g.column
  /\ schema[g.schema].deviceType = g.deviceType
  /\ <<g.deviceType, g.parameter>> \in assigned

-----------------------------------------------------------------------------
(* Event types, device types, parameters.                                  *)

CodeFree(e, c) == \A d \in Live(eventType) \ {e} : eventType[d] # c

CreateEventType(e, c) ==
  /\ eventType[e] = Absent
  /\ Room
  /\ CodeFree(e, c)
  /\ eventType' = [eventType EXCEPT ![e] = c]
  /\ UNCHANGED <<deviceTypes, valueType, assigned, schemaVars, dashboardVars, telemetryVars>>

UpdateEventType(e, c) ==
  /\ e \in Live(eventType)
  /\ \A v \in events : v.eventType # e
  /\ CodeFree(e, c)
  /\ eventType' = [eventType EXCEPT ![e] = c]
  /\ UNCHANGED <<deviceTypes, valueType, assigned, schemaVars, dashboardVars, telemetryVars>>

DeleteEventType(e) ==
  /\ e \in Live(eventType)
  /\ \A v \in events : v.eventType # e
  /\ \A s \in Live(schema) : schema[s].eventType # e
  /\ eventType' = [eventType EXCEPT ![e] = Absent]
  /\ UNCHANGED <<deviceTypes, valueType, assigned, schemaVars, dashboardVars, telemetryVars>>

CreateDeviceType(t) ==
  /\ t \notin deviceTypes
  /\ Room
  /\ deviceTypes' = deviceTypes \cup {t}
  /\ UNCHANGED <<eventType, valueType, assigned, schemaVars, dashboardVars, telemetryVars>>

(* Devices, which protect their type as well, are left out: more types can *)
(* be deleted here than there.                                             *)
DeleteDeviceType(t) ==
  /\ t \in deviceTypes
  /\ \A s \in Live(schema) : schema[s].deviceType # t
  /\ \A a \in assigned : a[1] # t
  /\ \A g \in Live(tab) : tab[g] # t
  /\ deviceTypes' = deviceTypes \ {t}
  /\ UNCHANGED <<eventType, valueType, assigned, schemaVars, dashboardVars, telemetryVars>>

CreateParameter(p, v) ==
  /\ valueType[p] = Absent
  /\ Room
  /\ valueType' = [valueType EXCEPT ![p] = v]
  /\ UNCHANGED <<eventType, deviceTypes, assigned, schemaVars, dashboardVars, telemetryVars>>

UpdateParameterAnyway(p, v) ==  \* mutant: the type of a used parameter changes
  /\ p \in Live(valueType)
  /\ valueType' = [valueType EXCEPT ![p] = v]
  /\ UNCHANGED <<eventType, deviceTypes, assigned, schemaVars, dashboardVars, telemetryVars>>
(* The type is frozen by readings and by rules, not by visualizations.     *)
UpdateParameter(p, v) ==
  /\ p \in Live(valueType)
  /\ v # valueType[p] => /\ \A g \in readings : g.parameter # p
                         /\ \A q \in Live(rule) : rule[q].parameter # p
  /\ valueType' = [valueType EXCEPT ![p] = v]
  /\ UNCHANGED <<eventType, deviceTypes, assigned, schemaVars, dashboardVars, telemetryVars>>

DeleteParameterUnassigned(p) ==  \* mutant: visualizations do not protect it
  /\ p \in Live(valueType)
  /\ \A g \in readings : g.parameter # p
  /\ \A q \in Live(rule) : rule[q].parameter # p
  /\ \A a \in assigned : a[2] # p
  /\ valueType' = [valueType EXCEPT ![p] = Absent]
  /\ UNCHANGED <<eventType, deviceTypes, assigned, schemaVars, dashboardVars, telemetryVars>>
DeleteParameter(p) ==
  /\ p \in Live(valueType)
  /\ \A g \in readings : g.parameter # p
  /\ \A q \in Live(rule) : rule[q].parameter # p
  /\ \A a \in assigned : a[2] # p
  /\ \A c \in Live(chart) : p \notin {chart[c].x, chart[c].y}
  /\ valueType' = [valueType EXCEPT ![p] = Absent]
  /\ UNCHANGED <<eventType, deviceTypes, assigned, schemaVars, dashboardVars, telemetryVars>>

-----------------------------------------------------------------------------
(* Assignments of parameters to device types.                              *)

(* _projection_uses_assignment.                                            *)
UsedByRule(a) ==
  \E q \in Live(rule) : schema[rule[q].schema].deviceType = a[1] /\ rule[q].parameter = a[2]

Assign(a) ==
  /\ a[1] \in deviceTypes /\ a[2] \in Live(valueType)
  /\ a \notin assigned
  /\ Room
  /\ assigned' = assigned \cup {a}
  /\ UNCHANGED <<eventType, deviceTypes, valueType, schemaVars, dashboardVars, telemetryVars>>

Reassign(a, b) ==
  /\ a \in assigned /\ ~UsedByRule(a)
  /\ b[1] \in deviceTypes /\ b[2] \in Live(valueType)
  /\ b \notin assigned
  /\ assigned' = (assigned \ {a}) \cup {b}
  /\ UNCHANGED <<eventType, deviceTypes, valueType, schemaVars, dashboardVars, telemetryVars>>

Unassign(a) ==
  /\ a \in assigned /\ ~UsedByRule(a)
  /\ assigned' = assigned \ {a}
  /\ UNCHANGED <<eventType, deviceTypes, valueType, schemaVars, dashboardVars, telemetryVars>>

-----------------------------------------------------------------------------
(* Payload schemas.                                                        *)

CreateSchema(s, r) ==
  /\ schema[s] = Absent
  /\ Room
  /\ SchemaClean(s, r)
  /\ schema' = [schema EXCEPT ![s] = r]
  /\ UNCHANGED <<typeVars, field, rule, dashboardVars, telemetryVars>>

UpdateSchema(s, r) ==
  /\ s \in Live(schema) \ Used
  /\ r.deviceType # schema[s].deviceType => RulesOf(s) = {}
  /\ SchemaClean(s, r)
  /\ schema' = [schema EXCEPT ![s] = r]
  /\ UNCHANGED <<typeVars, field, rule, dashboardVars, telemetryVars>>

(* Deletes the rules first, then the schema, which cascades to its fields; *)
(* a rule of another schema would protect a field.                         *)
DeleteSchema(s) ==
  /\ s \in Live(schema) \ Used
  /\ \A q \in RulesOf(s) : \A g \in readings : g.rule # q
  /\ \A q \in Live(rule) \ RulesOf(s) : rule[q].source \notin FieldsOf(s)
  /\ rule' = [q \in Rules |-> IF q \in RulesOf(s) THEN Absent ELSE rule[q]]
  /\ field' = [f \in Fields |-> IF f \in FieldsOf(s) THEN Absent ELSE field[f]]
  /\ schema' = [schema EXCEPT ![s] = Absent]
  /\ UNCHANGED <<typeVars, dashboardVars, telemetryVars>>

CreateField(f, r) ==
  /\ field[f] = Absent
  /\ Room
  /\ r.schema \notin Used
  /\ FieldClean(f, r)
  /\ field' = [field EXCEPT ![f] = r]
  /\ UNCHANGED <<typeVars, schema, rule, dashboardVars, telemetryVars>>

UpdateFieldAnyway(f, r) ==  \* mutant: rules do not freeze schema, codec and role
  /\ f \in Live(field)
  /\ {field[f].schema, r.schema} \cap Used = {}
  /\ FieldClean(f, r)
  /\ field' = [field EXCEPT ![f] = r]
  /\ UNCHANGED <<typeVars, schema, rule, dashboardVars, telemetryVars>>
UpdateField(f, r) ==
  /\ f \in Live(field)
  /\ {field[f].schema, r.schema} \cap Used = {}
  /\ Projected(f) => r = [field[f] EXCEPT !.span = r.span]
  /\ FieldClean(f, r)
  /\ field' = [field EXCEPT ![f] = r]
  /\ UNCHANGED <<typeVars, schema, rule, dashboardVars, telemetryVars>>

DeleteField(f) ==
  /\ f \in Live(field)
  /\ field[f].schema \notin Used
  /\ ~Projected(f)
  /\ field' = [field EXCEPT ![f] = Absent]
  /\ UNCHANGED <<typeVars, schema, rule, dashboardVars, telemetryVars>>

CreateRule(q, r) ==
  /\ rule[q] = Absent
  /\ Room
  /\ r.schema \notin Used
  /\ RuleClean(q, r)
  /\ rule' = [rule EXCEPT ![q] = r]
  /\ UNCHANGED <<typeVars, schema, field, dashboardVars, telemetryVars>>

UpdateRule(q, r) ==
  /\ q \in Live(rule)
  /\ {rule[q].schema, r.schema} \cap Used = {}
  /\ RuleClean(q, r)
  /\ rule' = [rule EXCEPT ![q] = r]
  /\ UNCHANGED <<typeVars, schema, field, dashboardVars, telemetryVars>>

DeleteRule(q) ==
  /\ q \in Live(rule)
  /\ rule[q].schema \notin Used
  /\ \A g \in readings : g.rule # q
  /\ rule' = [rule EXCEPT ![q] = Absent]
  /\ UNCHANGED <<typeVars, schema, field, dashboardVars, telemetryVars>>

-----------------------------------------------------------------------------
(* Dashboards.                                                             *)

CreateTab(g, t) ==
  /\ tab[g] = Absent
  /\ Room
  /\ t \in deviceTypes
  /\ tab' = [tab EXCEPT ![g] = t]
  /\ UNCHANGED <<typeVars, schemaVars, chart, telemetryVars>>

UpdateTab(g, t) ==
  /\ g \in Live(tab)
  /\ t \in deviceTypes
  /\ t # tab[g] => \A c \in Live(chart) : chart[c].tab # g
  /\ tab' = [tab EXCEPT ![g] = t]
  /\ UNCHANGED <<typeVars, schemaVars, chart, telemetryVars>>

(* Cascades to the visualizations of the tab.                              *)
DeleteTab(g) ==
  /\ g \in Live(tab)
  /\ tab' = [tab EXCEPT ![g] = Absent]
  /\ chart' = [c \in Charts |-> IF c \in Live(chart) /\ chart[c].tab = g THEN Absent ELSE chart[c]]
  /\ UNCHANGED <<typeVars, schemaVars, telemetryVars>>

CreateChart(c, r) ==
  /\ chart[c] = Absent
  /\ Room
  /\ ChartClean(r)
  /\ chart' = [chart EXCEPT ![c] = r]
  /\ UNCHANGED <<typeVars, schemaVars, tab, telemetryVars>>

UpdateChart(c, r) ==
  /\ c \in Live(chart)
  /\ ChartClean(r)
  /\ chart' = [chart EXCEPT ![c] = r]
  /\ UNCHANGED <<typeVars, schemaVars, tab, telemetryVars>>

DeleteChart(c) ==
  /\ c \in Live(chart)
  /\ chart' = [chart EXCEPT ![c] = Absent]
  /\ UNCHANGED <<typeVars, schemaVars, tab, telemetryVars>>

-----------------------------------------------------------------------------
(* Telemetry, as ingestion writes it.                                      *)

(* A raw event is stored, with its schema if there is one.  That the two   *)
(* are looked up before is the subject of Ingestion.                       *)
StoreEvent(v) ==
  /\ v.eventType \in Live(eventType)
  /\ v.schema # Null => v.schema \in Live(schema) /\ schema[v.schema].eventType = v.eventType
  /\ events' = events \cup {v}
  /\ UNCHANGED <<typeVars, schemaVars, dashboardVars, readings>>

(* project_readings succeeds on a stored event of schema s, from a device  *)
(* of the schema's type: one reading per rule, each passing its full_clean *)
ReadingOf(q) ==
  [schema |-> rule[q].schema, rule |-> q, parameter |-> rule[q].parameter,
   deviceType |-> schema[rule[q].schema].deviceType, column |-> valueType[rule[q].parameter]]
Project(s) ==
  /\ s \in Used
  /\ \A q \in RulesOf(s) :
       Convertible(rule[q]) /\ <<schema[s].deviceType, rule[q].parameter>> \in assigned
  /\ readings' = readings \cup {ReadingOf(q) : q \in RulesOf(s)}
  /\ UNCHANGED <<typeVars, schemaVars, dashboardVars, events>>

-----------------------------------------------------------------------------
Init ==
  /\ eventType = [e \in EventTypes |-> Absent]
  /\ deviceTypes = {}
  /\ valueType = [p \in Parameters |-> Absent]
  /\ assigned = {}
  /\ schema = [s \in Schemas |-> Absent]
  /\ field = [f \in Fields |-> Absent]
  /\ rule = [q \in Rules |-> Absent]
  /\ tab = [g \in Tabs |-> Absent]
  /\ chart = [c \in Charts |-> Absent]
  /\ events = {} /\ readings = {}

EditTypes ==
  \/ \E e \in EventTypes : DeleteEventType(e) \/ \E c \in Codes : CreateEventType(e, c) \/ UpdateEventType(e, c)
  \/ \E t \in DeviceTypes : CreateDeviceType(t) \/ DeleteDeviceType(t)
  \/ \E p \in Parameters : DeleteParameter(p) \/ \E v \in ValueTypes : CreateParameter(p, v) \/ UpdateParameter(p, v)
  \/ \E a \in DeviceTypes \X Parameters :
       Assign(a) \/ Unassign(a) \/ \E b \in DeviceTypes \X Parameters : Reassign(a, b)
EditSchemas ==
  \/ \E s \in Schemas : DeleteSchema(s) \/ \E r \in SchemaRow : CreateSchema(s, r) \/ UpdateSchema(s, r)
  \/ \E f \in Fields : DeleteField(f) \/ \E r \in FieldRow : CreateField(f, r) \/ UpdateField(f, r)
  \/ \E q \in Rules : DeleteRule(q) \/ \E r \in RuleRow : CreateRule(q, r) \/ UpdateRule(q, r)
EditDashboard ==
  \/ \E g \in Tabs : DeleteTab(g) \/ \E t \in DeviceTypes : CreateTab(g, t) \/ UpdateTab(g, t)
  \/ \E c \in Charts : DeleteChart(c) \/ \E r \in ChartRow : CreateChart(c, r) \/ UpdateChart(c, r)
Receive == (\E v \in EventRow : StoreEvent(v)) \/ \E s \in Schemas : Project(s)

Next == EditTypes \/ EditSchemas \/ EditDashboard \/ Receive

Spec == Init /\ [][Next]_vars

-----------------------------------------------------------------------------
(* Types of all tables.                                                    *)
TypeOK ==
  /\ eventType \in [EventTypes -> Codes \cup {Absent}]
  /\ deviceTypes \subseteq DeviceTypes
  /\ valueType \in [Parameters -> ValueTypes \cup {Absent}]
  /\ assigned \subseteq DeviceTypes \X Parameters
  /\ schema \in [Schemas -> SchemaRow \cup {Absent}]
  /\ field \in [Fields -> FieldRow \cup {Absent}]
  /\ rule \in [Rules -> RuleRow \cup {Absent}]
  /\ tab \in [Tabs -> DeviceTypes \cup {Absent}]
  /\ chart \in [Charts -> ChartRow \cup {Absent}]
  /\ events \subseteq EventRow
  /\ readings \subseteq ReadingRow

(* Every stored field, rule and reading would still pass the validation it *)
(* passed when it was saved, whatever was edited since: fields fit their   *)
(* schema and do not overlap,                                              *)
FieldsStayClean ==
  /\ \A s \in Live(schema) : SchemaClean(s, schema[s])
  /\ \A f \in Live(field) : FieldClean(f, field[f])
(* rules read a field of their own schema, convert it to the type of their *)
(* parameter and write a parameter of the schema's device type, so that no *)
(* event fails for an inconsistent configuration,                          *)
RulesStayClean == \A q \in Live(rule) : RuleClean(q, rule[q])
(* and readings are explained by the rule they came from, by the type of   *)
(* their parameter and by its assignment (ADR-001).                        *)
ReadingsStayClean == \A g \in readings : ReadingClean(g)

(* Visualizations and stored events refer to rows that exist.              *)
NothingDangles ==
  /\ \A c \in Live(chart) : /\ chart[c].tab \in Live(tab)
                            /\ {chart[c].x, chart[c].y} \ {Null} \subseteq Live(valueType)
  /\ \A a \in assigned : a[1] \in deviceTypes /\ a[2] \in Live(valueType)
  /\ \A g \in Live(tab) : tab[g] \in deviceTypes
  /\ \A v \in events : /\ v.eventType \in Live(eventType)
                       /\ v.schema # Null => v.schema \in Live(schema)

(* Everything that determines how the events of a used schema are decoded  *)
(* and projected is frozen: its row, the code of its event type, its       *)
(* fields, its rules and the types of the parameters they write.           *)
Content(v) ==
  <<eventType[v.eventType], schema[v.schema], [f \in FieldsOf(v.schema) |-> field[f]],
    [q \in RulesOf(v.schema) |-> <<rule[q], valueType[rule[q].parameter]>>]>>
UsedIsFrozen == [][\A v \in events : v.schema # Null => Content(v)' = Content(v)]_vars
=============================================================================
