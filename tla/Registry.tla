------------------------------ MODULE Registry ------------------------------
(***************************************************************************)
(* The configuration tables that telemetry ingestion reads and platform    *)
(* superusers edit: one gateway, its devices, and the payload schemas.     *)
(*                                                                         *)
(* Every key of the ingestion tables contains the gateway, so one gateway  *)
(* is modelled; a device that moves to another gateway is a device whose   *)
(* local id is one that no envelope names.  The rows below a schema        *)
(* (payload fields and projection rules) are abstracted to a Layout: what  *)
(* a payload decodes to under them.                                        *)
(*                                                                         *)
(* Each edit is one @transaction.atomic service function.  SQLite          *)
(* transactions are serializable, so an edit that commits is one step, its *)
(* checks and its write together.  An edit refused by its checks changes   *)
(* nothing and is not a step.                                              *)
(***************************************************************************)
EXTENDS Naturals

CONSTANTS
  Devices,      \* primary keys of devices; AUTOINCREMENT never reuses one
  Schemas,      \* primary keys of payload schemas, never reused either
  LocalIds,     \* local ids of devices
  DeviceTypes,
  EventTypes,   \* the event types that exist
  Versions,     \* schema versions
  Lengths,      \* the values of PayloadSchema.expected_length
  Layouts,      \* contents of a schema: its fields and projection rules
  Bare,         \* the layout of a schema without fields and rules
  Payloads,
  Parameters,
  Size,         \* Size[p]: length of payload p in bytes
  Extent,       \* Extent[l]: the largest end_byte of layout l
  Targets,      \* Targets[l]: the parameters its projection rules write
  Decodes,      \* Decodes[l]: the payloads all its fields and rules accept
  Assigned,     \* Assigned[t]: the parameters assigned to device type t
  Absent,       \* a primary key not issued yet
  Deleted,      \* a primary key whose row was deleted
  Null          \* SQL NULL / Python None

ASSUME RegistryAssumption ==
  /\ Lengths \subseteq Nat
  /\ Bare \in Layouts
  /\ Size \in [Payloads -> Nat]
  /\ Extent \in [Layouts -> Nat]
  /\ Targets \in [Layouts -> SUBSET Parameters]
  /\ Decodes \in [Layouts -> SUBSET Payloads]
  /\ Assigned \in [DeviceTypes -> SUBSET Parameters]
  /\ \A l \in Layouts : \A p \in Decodes[l] : Extent[l] <= Size[p]
  /\ Extent[Bare] = 0 /\ Targets[Bare] = {} /\ Decodes[Bare] = Payloads
  /\ Null \notin Devices \cup Schemas \cup DeviceTypes \cup Lengths

DeviceRow == [localId : LocalIds, deviceType : DeviceTypes, active : BOOLEAN]
SchemaRow == [eventType : EventTypes, deviceType : DeviceTypes,
              version : Versions, length : Lengths \cup {Null},
              layout : Layouts]

ASSUME RowAssumption == {Absent, Deleted} \cap (DeviceRow \cup SchemaRow) = {}

VARIABLES
  gatewayActive,  \* Gateway.is_active
  device,         \* device[d]: row d of the device table
  schema          \* schema[s]: row s of the payload schema table, its layout

registryVars == <<gatewayActive, device, schema>>

LiveDevices == {d \in Devices : device[d] \in DeviceRow}
LiveSchemas == {s \in Schemas : schema[s] \in SchemaRow}

(* Row r may be stored under device key d: (gateway, local_id) is unique. *)
LocalIdFree(d, r) == \A e \in LiveDevices \ {d} : device[e].localId # r.localId

(* PayloadSchema is unique per (event_type, device_type, version) and its  *)
(* expected_length, if any, covers the end of every field.                 *)
SameSchemaKey(q, r) == /\ q.eventType = r.eventType
                       /\ q.deviceType = r.deviceType
                       /\ q.version = r.version
SchemaValid(s, r) ==
  /\ \A t \in LiveSchemas \ {s} : ~SameSchemaKey(schema[t], r)
  /\ r.length # Null => Extent[r.layout] <= r.length

-----------------------------------------------------------------------------
(* What ingestion reads: the device with a local id, the schema of a key.  *)
DevicesAt(l) == {d \in LiveDevices : device[d].localId = l}
SchemasForAnyVersion(e, t, v) ==  \* mutant: the version is not a filter
  {s \in LiveSchemas : schema[s].eventType = e /\ schema[s].deviceType = t}
SchemasFor(e, t, v) ==
  {s \in LiveSchemas : SameSchemaKey(schema[s], [eventType |-> e, deviceType |-> t, version |-> v])}

(* parse_payload succeeds: the byte count matches the pinned length and    *)
(* every field decodes.  Decodes also stands for the conversions of        *)
(* project_readings: every rule's value has the type of its parameter.     *)
Parses(length, layout, p) ==
  /\ length # Null => Size[p] = length
  /\ p \in Decodes[layout]

(* project_readings succeeds as well: the device's type supports every     *)
(* parameter that a rule writes.                                           *)
Projects(length, layout, deviceType, p) ==
  /\ Parses(length, layout, p)
  /\ Targets[layout] \subseteq Assigned[deviceType]

-----------------------------------------------------------------------------
(* The edits.  used is the set of rows that stored telemetry refers to.    *)

SetGatewayActive(b) ==
  /\ gatewayActive' = b
  /\ UNCHANGED <<device, schema>>

CreateDevice(d, r) ==
  /\ device[d] = Absent
  /\ LocalIdFree(d, r)
  /\ device' = [device EXCEPT ![d] = r]
  /\ UNCHANGED <<gatewayActive, schema>>

(* The identity (local id, type) of a device with telemetry is frozen; its *)
(* active flag is not.                                                     *)
UpdateDevice(d, r, used) ==
  /\ d \in LiveDevices
  /\ d \in used => [r EXCEPT !.active = device[d].active] = device[d]
  /\ LocalIdFree(d, r)
  /\ device' = [device EXCEPT ![d] = r]
  /\ UNCHANGED <<gatewayActive, schema>>

DeleteDevice(d, used) ==
  /\ d \in LiveDevices \ used
  /\ device' = [device EXCEPT ![d] = Deleted]
  /\ UNCHANGED <<gatewayActive, schema>>

CreateSchema(s, r) ==
  /\ schema[s] = Absent
  /\ r.layout = Bare
  /\ SchemaValid(s, r)
  /\ schema' = [schema EXCEPT ![s] = r]
  /\ UNCHANGED <<gatewayActive, device>>

(* The columns of an unused schema; its type is fixed once it has rules.   *)
UpdateSchema(s, r, used) ==
  /\ s \in LiveSchemas \ used
  /\ r.layout = schema[s].layout
  /\ r.deviceType # schema[s].deviceType => Targets[r.layout] = {}
  /\ SchemaValid(s, r)
  /\ schema' = [schema EXCEPT ![s] = r]
  /\ UNCHANGED <<gatewayActive, device>>

(* One create, update or delete of a field or a rule of an unused schema.  *)
(* A rule may only write a parameter assigned to the schema's device type. *)
EditLayout(s, l, used) ==
  /\ s \in LiveSchemas \ used
  /\ Targets[l] \subseteq Assigned[schema[s].deviceType]
  /\ SchemaValid(s, [schema[s] EXCEPT !.layout = l])
  /\ schema' = [schema EXCEPT ![s].layout = l]
  /\ UNCHANGED <<gatewayActive, device>>

DeleteSchema(s, used) ==
  /\ s \in LiveSchemas \ used
  /\ schema' = [schema EXCEPT ![s] = Deleted]
  /\ UNCHANGED <<gatewayActive, device>>

(* Every edit a superuser can make while stored telemetry refers to        *)
(* usedDevices and usedSchemas.                                            *)
Edit(usedDevices, usedSchemas) ==
  \/ \E b \in BOOLEAN : b # gatewayActive /\ SetGatewayActive(b)
  \/ \E d \in Devices : DeleteDevice(d, usedDevices)
  \/ \E d \in Devices, r \in DeviceRow :
       \/ CreateDevice(d, r)
       \/ r # device[d] /\ UpdateDevice(d, r, usedDevices)
  \/ \E s \in Schemas : DeleteSchema(s, usedSchemas)
  \/ \E s \in Schemas, r \in SchemaRow :
       \/ CreateSchema(s, r)
       \/ r # schema[s] /\ UpdateSchema(s, r, usedSchemas)
  \/ \E s \in Schemas, l \in Layouts :
       s \in LiveSchemas /\ l # schema[s].layout /\ EditLayout(s, l, usedSchemas)

RegistryTypeOK ==
  /\ gatewayActive \in BOOLEAN
  /\ device \in [Devices -> DeviceRow \cup {Absent, Deleted}]
  /\ schema \in [Schemas -> SchemaRow \cup {Absent, Deleted}]
=============================================================================
