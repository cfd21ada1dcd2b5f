-------------------------- MODULE IngestionProofs --------------------------
(***************************************************************************)
(* Theorems about Ingestion, for any number of threads, messages, devices, *)
(* schemas and edits, proved with TLAPS.                                   *)
(***************************************************************************)
EXTENDS Ingestion, TLAPS

-----------------------------------------------------------------------------
(* Edits keep the types of the configuration tables.                       *)
LEMMA EditTypes ==
  ASSUME RegistryTypeOK, NEW ud, NEW us, Edit(ud, us)
  PROVE  RegistryTypeOK'
<1> USE DEF RegistryTypeOK
<1>1. ASSUME NEW b \in BOOLEAN, SetGatewayActive(b) PROVE RegistryTypeOK'
  BY <1>1 DEF SetGatewayActive
<1>2. ASSUME NEW d \in Devices, DeleteDevice(d, ud) PROVE RegistryTypeOK'
  BY <1>2 DEF DeleteDevice
<1>3. ASSUME NEW d \in Devices, NEW r \in DeviceRow, CreateDevice(d, r) PROVE RegistryTypeOK'
  BY <1>3 DEF CreateDevice
<1>4. ASSUME NEW d \in Devices, NEW r \in DeviceRow, UpdateDevice(d, r, ud) PROVE RegistryTypeOK'
  BY <1>4 DEF UpdateDevice
<1>5. ASSUME NEW s \in Schemas, DeleteSchema(s, us) PROVE RegistryTypeOK'
  BY <1>5 DEF DeleteSchema
<1>6. ASSUME NEW s \in Schemas, NEW r \in SchemaRow, CreateSchema(s, r) PROVE RegistryTypeOK'
  BY <1>6 DEF CreateSchema
<1>7. ASSUME NEW s \in Schemas, NEW r \in SchemaRow, UpdateSchema(s, r, us) PROVE RegistryTypeOK'
  BY <1>7 DEF UpdateSchema
<1>8. ASSUME NEW s \in Schemas, NEW l \in Layouts, EditLayout(s, l, us) PROVE RegistryTypeOK'
  <2>1. schema[s] \in SchemaRow
    BY <1>8 DEF EditLayout, LiveSchemas
  <2>2. [schema[s] EXCEPT !.layout = l] \in SchemaRow
    BY <2>1 DEF SchemaRow
  <2>3. schema' = [schema EXCEPT ![s] = [schema[s] EXCEPT !.layout = l]]
    BY <1>8 DEF EditLayout
  <2>4. QED BY <1>8, <2>2, <2>3 DEF EditLayout
<1>9. QED BY <1>1, <1>2, <1>3, <1>4, <1>5, <1>6, <1>7, <1>8 DEF Edit

(* A response touches one thread and leaves its record typed, with the     *)
(* envelope it had and no flag or resolved object.                         *)
LEMMA AnswerStep ==
  ASSUME req \in [Workers -> Request], NEW w \in Workers, NEW code \in Codes,
         NEW ids \in SUBSET ReadingRow, Answer(w, code, ids)
  PROVE  /\ req' \in [Workers -> Request]
         /\ \A v \in Workers \ {w} : req'[v] = req[v]
         /\ req'[w].pc = "answered" /\ req'[w].envelope = req[w].envelope
         /\ req'[w].code = code /\ req'[w].ids = ids /\ req'[w].created = FALSE
<1>1. [Idle EXCEPT !.pc = "answered", !.envelope = req[w].envelope,
                   !.code = code, !.ids = ids] \in Request
  BY DEF Idle, Request, Steps
<1>2. QED BY <1>1 DEF Answer, Idle

(* Every other step of a request moves its program counter only.           *)
LEMMA GotoStep ==
  ASSUME req \in [Workers -> Request], NEW w \in Workers, NEW pc \in Steps, Goto(w, pc)
  PROVE  /\ req' \in [Workers -> Request]
         /\ \A v \in Workers \ {w} : req'[v] = req[v]
         /\ req'[w] = [req[w] EXCEPT !.pc = pc]
<1>1. [req[w] EXCEPT !.pc = pc] \in Request
  BY DEF Request
<1>2. QED BY <1>1 DEF Goto

LEMMA IdleType == Idle \in Request
  BY DEF Idle, Request, Steps

-----------------------------------------------------------------------------
(* A thread past the arrival of its request has an envelope; one that      *)
(* reached _process_raw_event found or stored the event of that envelope.  *)
Engaged ==
  \A w \in Workers :
    /\ ~At(w, "idle") => req[w].envelope \in Envelopes
    /\ At(w, "process") => /\ event[Message(w)] # Null
                           /\ event[Message(w)].envelope = req[w].envelope

TypeInv == TypeOK /\ Engaged

(* The two branches of the envelope check.                                 *)
LEMMA AssertStep ==
  ASSUME TypeInv, NEW w \in Workers, ~At(w, "idle"),
         event[Message(w)] # Null, AssertSameEnvelope(w, event[Message(w)])
  PROVE  /\ req' \in [Workers -> Request]
         /\ \A v \in Workers \ {w} : req'[v] = req[v]
         /\ req'[w].pc \in {"answered", "process"}
         /\ req'[w].envelope = req[w].envelope
         /\ req'[w].pc = "process" => event[Message(w)].envelope = req[w].envelope
         /\ req'[w].created => req[w].created
         /\ req'[w].code \in {req[w].code, "idempotency_conflict"}
         /\ req'[w].code # req[w].code => req'[w].pc = "answered"
         /\ req'[w].ids \in {req[w].ids, {}}
<1> USE DEF TypeInv, TypeOK
<1>1. CASE SameEnvelope(event[Message(w)], req[w])
  <2>1. Goto(w, "process")
    BY <1>1 DEF AssertSameEnvelope
  <2>2. /\ req' \in [Workers -> Request]
        /\ \A v \in Workers \ {w} : req'[v] = req[v]
        /\ req'[w] = [req[w] EXCEPT !.pc = "process"]
    BY <2>1, GotoStep DEF Steps
  <2>3. req[w] \in Request
    OBVIOUS
  <2>4. QED BY <1>1, <2>2, <2>3 DEF Request, SameEnvelope
<1>2. CASE ~SameEnvelope(event[Message(w)], req[w])
  <2>1. Answer(w, "idempotency_conflict", {})
    BY <1>2 DEF AssertSameEnvelope
  <2>2. /\ "idempotency_conflict" \in Codes /\ {} \in SUBSET ReadingRow
        /\ req \in [Workers -> Request]
    BY DEF Codes
  <2>3. /\ req' \in [Workers -> Request]
        /\ \A v \in Workers \ {w} : req'[v] = req[v]
        /\ req'[w].pc = "answered" /\ req'[w].envelope = req[w].envelope
        /\ req'[w].code = "idempotency_conflict" /\ req'[w].ids = {}
        /\ req'[w].created = FALSE
    BY <2>1, <2>2, AnswerStep
  <2>4. QED BY <2>3
<1>3. QED BY <1>1, <1>2

(* The steps that leave the database alone.                                *)
LEMMA RequestTypes ==
  ASSUME TypeInv, NEW w \in Workers,
         req' \in [Workers -> Request],
         \A v \in Workers \ {w} : req'[v] = req[v],
         ~At(w, "idle")' => req'[w].envelope \in Envelopes,
         At(w, "process")' => /\ event[Message(w)'] # Null
                              /\ event[Message(w)'].envelope = req'[w].envelope,
         UNCHANGED <<registryVars, dbVars, created201, edits, faults>>
  PROVE  TypeInv'
<1>1. TypeOK'
  BY DEF TypeInv, TypeOK, RegistryTypeOK, registryVars, dbVars
<1>2. Engaged'
  BY DEF TypeInv, Engaged, At, Message, dbVars
<1>3. QED BY <1>1, <1>2 DEF TypeInv

(* The request of an engaged thread names a message.                       *)
LEMMA MessageType ==
  ASSUME TypeInv, NEW w \in Workers, ~At(w, "idle")
  PROVE  Message(w) \in Messages
  BY IngestionAssumption DEF TypeInv, Engaged, Envelope, Message

(* Serving a request without touching the database keeps the types.        *)
LEMMA ReadTypes ==
  ASSUME TypeInv, NEW w \in Workers,
         \/ \E env \in Envelopes : Receive(w, env)
         \/ CheckRequest(w) \/ ResolveDevice(w) \/ ResolveSchema(w) \/ FindEvent(w)
         \/ InsertLost(w) \/ AbortDangling(w) \/ RefuseEnvelope(w)
         \/ ReturnProcessed(w) \/ Deliver(w)
  PROVE  TypeInv'
<1>1. req \in [Workers -> Request] /\ req[w] \in Request /\ readings \subseteq ReadingRow
  BY DEF TypeInv, TypeOK
<1>2. ~At(w, "idle") => req[w].envelope \in Envelopes
  BY DEF TypeInv, Engaged
<1>a. ASSUME NEW env \in Envelopes, Receive(w, env) PROVE TypeInv'
  <2>1. [Idle EXCEPT !.pc = "gateway", !.envelope = env] \in Request
    BY DEF Idle, Request, Steps
  <2>2. [Idle EXCEPT !.pc = "answered", !.envelope = env, !.code = "unauthorized"] \in Request
    BY DEF Idle, Request, Steps, Codes
  <2>3. /\ req' \in [Workers -> Request]
        /\ \A v \in Workers \ {w} : req'[v] = req[v]
        /\ req'[w].envelope = env /\ req'[w].pc \in {"gateway", "answered"}
    BY <1>a, <1>1, <2>1, <2>2 DEF Receive, Idle
  <2>4. QED BY <1>a, <2>3, RequestTypes DEF Receive, At
<1>b. ASSUME NEW code \in Codes, NEW ids \in SUBSET ReadingRow, ~At(w, "idle"),
             Answer(w, code, ids),
             UNCHANGED <<registryVars, dbVars, created201, edits, faults>>
      PROVE  TypeInv'
  <2>1. /\ req' \in [Workers -> Request]
        /\ \A v \in Workers \ {w} : req'[v] = req[v]
        /\ req'[w].pc = "answered" /\ req'[w].envelope = req[w].envelope
    BY <1>b, <1>1, AnswerStep
  <2>2. QED BY <1>b, <1>2, <2>1, RequestTypes DEF At
<1>c. ASSUME NEW pc \in Steps \ {"process"}, ~At(w, "idle"), Goto(w, pc),
             UNCHANGED <<registryVars, dbVars, created201, edits, faults>>
      PROVE  TypeInv'
  <2>1. /\ req' \in [Workers -> Request]
        /\ \A v \in Workers \ {w} : req'[v] = req[v]
        /\ req'[w] = [req[w] EXCEPT !.pc = pc]
    BY <1>c, <1>1, GotoStep
  <2>2. req'[w].pc = pc /\ req'[w].envelope = req[w].envelope
    BY <1>1, <2>1 DEF Request
  <2>3. QED BY <1>c, <1>2, <2>1, <2>2, RequestTypes DEF At
<1>d. ASSUME ~At(w, "idle"), event[Message(w)] # Null, AssertSameEnvelope(w, event[Message(w)]),
             UNCHANGED <<registryVars, dbVars, created201, edits, faults>>
      PROVE  TypeInv'
  <2>1. /\ req' \in [Workers -> Request]
        /\ \A v \in Workers \ {w} : req'[v] = req[v]
        /\ req'[w].pc \in {"answered", "process"}
        /\ req'[w].envelope = req[w].envelope
        /\ req'[w].pc = "process" => event[Message(w)].envelope = req[w].envelope
    BY <1>d, AssertStep
  <2>2. QED BY <1>d, <1>2, <2>1, RequestTypes DEF At, Message
<1>3. CASE CheckRequest(w)
  <2>1. CASE Rejection(req[w].envelope) = Null
    BY <1>3, <2>1, <1>c DEF CheckRequest, At, Steps
  <2>2. CASE Rejection(req[w].envelope) # Null
    <3>1. Rejection(req[w].envelope) \in Codes
      BY <2>2 DEF Rejection, Codes
    <3>2. QED BY <1>3, <2>2, <3>1, <1>b DEF CheckRequest, At
  <2>3. QED BY <2>1, <2>2
<1>4. CASE ResolveDevice(w)
  <2>1. CASE DevicesAt(req[w].envelope.localId) = {}
    BY <1>4, <2>1, <1>c DEF ResolveDevice, At, Steps
  <2>2. CASE DevicesAt(req[w].envelope.localId) # {}
    <3>1. PICK d \in DevicesAt(req[w].envelope.localId) :
            req' = [req EXCEPT ![w].pc = "schema", ![w].device = d,
                               ![w].active = device[d].active,
                               ![w].deviceType = device[d].deviceType]
      BY <1>4, <2>2 DEF ResolveDevice
    <3>2. d \in Devices /\ device[d] \in DeviceRow
      BY DEF DevicesAt, LiveDevices
    <3>3. /\ req' \in [Workers -> Request]
          /\ \A v \in Workers \ {w} : req'[v] = req[v]
          /\ req'[w].envelope = req[w].envelope /\ req'[w].pc = "schema"
      BY <1>1, <3>1, <3>2 DEF Request, DeviceRow, Steps
    <3>4. QED BY <1>4, <3>3, <1>2, RequestTypes DEF ResolveDevice, At
  <2>3. QED BY <2>1, <2>2
<1>5. CASE ResolveSchema(w)
  <2> DEFINE found == SchemasFor(req[w].envelope.eventType, req[w].deviceType,
                                 req[w].envelope.version)
  <2>1. CASE found = {}
    BY <1>5, <2>1, <1>c DEF ResolveSchema, At, Steps
  <2>2. CASE found # {}
    <3>1. PICK s \in found :
            req' = [req EXCEPT ![w].pc = "find", ![w].schema = s,
                               ![w].length = schema[s].length]
      BY <1>5, <2>2 DEF ResolveSchema
    <3>2. s \in Schemas /\ schema[s] \in SchemaRow
      BY DEF SchemasFor, LiveSchemas
    <3>3. /\ req' \in [Workers -> Request]
          /\ \A v \in Workers \ {w} : req'[v] = req[v]
          /\ req'[w].envelope = req[w].envelope /\ req'[w].pc = "find"
      BY <1>1, <3>1, <3>2 DEF Request, SchemaRow, Steps
    <3>4. QED BY <1>5, <3>3, <1>2, RequestTypes DEF ResolveSchema, At
  <2>3. QED BY <2>1, <2>2
<1>6. CASE FindEvent(w)
  <2>1. CASE event[Message(w)] = Null
    BY <1>6, <2>1, <1>c DEF FindEvent, At, Steps
  <2>2. CASE event[Message(w)] # Null
    BY <1>6, <2>2, <1>d DEF FindEvent, At
  <2>3. QED BY <2>1, <2>2
<1>7. CASE InsertLost(w)
  BY <1>7, <1>d DEF InsertLost, At
<1>8. CASE AbortDangling(w)
  BY <1>8, <1>b DEF AbortDangling, At, Codes
<1>9. CASE RefuseEnvelope(w)
  BY <1>9, <1>b DEF RefuseEnvelope, At, Codes
<1>10. CASE ReturnProcessed(w)
  <2>1. Rows(Message(w)) \in SUBSET ReadingRow /\ "existing" \in Codes
    BY <1>1 DEF Rows, Codes
  <2>2. QED BY <1>10, <2>1, <1>b DEF ReturnProcessed, At
<1>11. CASE Deliver(w)
  <2>1. /\ req' \in [Workers -> Request]
        /\ \A v \in Workers \ {w} : req'[v] = req[v]
        /\ req'[w].pc = "idle"
    BY <1>11, <1>1, IdleType DEF Deliver, Idle
  <2>2. QED BY <1>11, <2>1, RequestTypes DEF Deliver, At
<1>12. QED
  BY <1>a, <1>3, <1>4, <1>5, <1>6, <1>7, <1>8, <1>9, <1>10, <1>11

(* Storing and updating an event keeps the types; a stored event is never  *)
(* removed and never changes its envelope.                                 *)
LEMMA WriteTypes ==
  ASSUME TypeInv, NEW w \in Workers,
         InsertEvent(w) \/ CommitReadings(w) \/ CommitFailure(w)
  PROVE  /\ TypeInv'
         /\ \A m \in Messages \ {Message(w)} : event'[m] = event[m]
         /\ event'[Message(w)] \in EventRow
<1>1. /\ req \in [Workers -> Request] /\ req[w] \in Request
      /\ event \in [Messages -> EventRow \cup {Null}]
      /\ readings \subseteq ReadingRow /\ nextBatch \in Nat \ {0}
      /\ created201 \in [Messages -> Nat]
  BY DEF TypeInv, TypeOK
<1>2. ~At(w, "idle")
  BY DEF InsertEvent, CommitReadings, CommitFailure, MayProcess, At
<1>3. Message(w) \in Messages /\ req[w].envelope \in Envelopes
  BY <1>2, MessageType DEF TypeInv, Engaged
<1>4. UNCHANGED <<registryVars, edits>> /\ faults' \in Nat
  BY DEF InsertEvent, CommitReadings, CommitFailure, TypeInv, TypeOK
<1>a. ASSUME NEW e \in EventRow, e.envelope = req[w].envelope,
             event' = [event EXCEPT ![Message(w)] = e],
             readings' \subseteq ReadingRow, nextBatch' \in Nat \ {0},
             created201' \in [Messages -> Nat],
             req' \in [Workers -> Request],
             \A v \in Workers \ {w} : req'[v] = req[v],
             req'[w].envelope = req[w].envelope,
             event[Message(w)] # Null => event[Message(w)].envelope = e.envelope
      PROVE  /\ TypeInv'
             /\ \A m \in Messages \ {Message(w)} : event'[m] = event[m]
             /\ event'[Message(w)] \in EventRow
  <2>1. TypeOK'
    BY <1>1, <1>3, <1>4, <1>a DEF TypeInv, TypeOK, RegistryTypeOK, registryVars
  <2>2. /\ event'[Message(w)] = e
        /\ \A m \in Messages \ {Message(w)} : event'[m] = event[m]
    BY <1>1, <1>3, <1>a
  <2>3. Engaged'
    <3> SUFFICES ASSUME NEW v \in Workers
                 PROVE  /\ ~At(v, "idle")' => req'[v].envelope \in Envelopes
                        /\ At(v, "process")' => /\ event'[Message(v)'] # Null
                                                /\ event'[Message(v)'].envelope = req'[v].envelope
      BY DEF Engaged
    <3>1. CASE v = w
      BY <3>1, <1>3, <1>a, <2>2, EventRowAssumption DEF Message
    <3>2. CASE v # w
      <4>1. req'[v] = req[v]
        BY <3>2, <1>a
      <4>2. At(v, "process") => Message(v) \in Messages
        BY MessageType DEF At
      <4>3. QED BY <4>1, <4>2, <1>a, <2>2, EventRowAssumption DEF TypeInv, Engaged, At, Message
    <3>3. QED BY <3>1, <3>2
  <2>4. QED BY <2>1, <2>2, <2>3 DEF TypeInv
<1>5. CASE InsertEvent(w)
  <2> DEFINE e == [envelope |-> req[w].envelope, device |-> req[w].device,
                   schema |-> req[w].schema, status |-> "received"]
  <2>1. e \in EventRow
    BY <1>1, <1>3 DEF EventRow, Request
  <2>2. /\ req' \in [Workers -> Request]
        /\ \A v \in Workers \ {w} : req'[v] = req[v]
        /\ req'[w].envelope = req[w].envelope
    <3> DEFINE q == [req[w] EXCEPT !.pc = "process", !.created = TRUE]
    <3>1. q \in Request /\ q.envelope = req[w].envelope
      BY <1>1 DEF Request, Steps
    <3>2. req' = [req EXCEPT ![w] = q]
      BY <1>1, <1>5 DEF InsertEvent, Request
    <3> HIDE DEF q
    <3>3. QED BY <1>1, <3>1, <3>2
  <2>3. event' = [event EXCEPT ![Message(w)] = e] /\ event[Message(w)] = Null
    BY <1>5 DEF InsertEvent
  <2>4. UNCHANGED <<readings, nextBatch, created201>>
    BY <1>5 DEF InsertEvent
  <2>5. QED BY <1>a, <1>1, <2>1, <2>2, <2>3, <2>4
<1>6. ASSUME MayProcess(w)
      PROVE  /\ event[Message(w)] \in EventRow
             /\ event[Message(w)].envelope = req[w].envelope
  BY <1>1, <1>3, <1>6 DEF MayProcess, TypeInv, Engaged
<1>7. CASE CommitReadings(w)
  <2> DEFINE e == [event[Message(w)] EXCEPT !.device = req[w].device,
                     !.schema = req[w].schema, !.status = "processed"]
  <2>1. event[Message(w)] \in EventRow /\ event[Message(w)].envelope = req[w].envelope
    BY <1>6, <1>7 DEF CommitReadings
  <2>2. e \in EventRow /\ e.envelope = req[w].envelope
    BY <1>1, <2>1 DEF EventRow, Request
  <2>3. event' = [event EXCEPT ![Message(w)] = e]
    BY <1>1, <1>3, <1>7, <2>1 DEF CommitReadings, EventRow
  <2>4. Projection(w) \in SUBSET ReadingRow
    <3>1. req[w].device \in Devices /\ req[w].schema \in LiveSchemas
      BY <1>1, <1>7 DEF CommitReadings, MayProcess, Processable, Dangling, Request
    <3>2. schema[req[w].schema].layout \in Layouts
      BY <3>1 DEF LiveSchemas, SchemaRow
    <3>3. Targets[schema[req[w].schema].layout] \subseteq Parameters
      BY <3>2, RegistryAssumption
    <3>4. QED BY <3>1, <3>3, <1>1, <1>3 DEF Projection, ReadingRow
  <2>5. readings' \subseteq ReadingRow /\ nextBatch' \in Nat \ {0} /\ created201' \in [Messages -> Nat]
    BY <1>1, <1>3, <1>7, <2>4 DEF CommitReadings
  <2>6. /\ req' \in [Workers -> Request]
        /\ \A v \in Workers \ {w} : req'[v] = req[v]
        /\ req'[w].envelope = req[w].envelope
    <3>1. PICK code \in Codes : Answer(w, code, Projection(w))
      BY <1>7 DEF CommitReadings, Codes
    <3>2. QED BY <1>1, <2>4, <3>1, AnswerStep
  <2>7. QED BY <1>a, <2>1, <2>2, <2>3, <2>5, <2>6
<1>8. CASE CommitFailure(w)
  <2> DEFINE e == [event[Message(w)] EXCEPT !.device = req[w].device,
                     !.schema = req[w].schema, !.status = "failed"]
  <2>1. event[Message(w)] \in EventRow /\ event[Message(w)].envelope = req[w].envelope
    BY <1>6, <1>8 DEF CommitFailure
  <2>2. e \in EventRow /\ e.envelope = req[w].envelope
    BY <1>1, <2>1 DEF EventRow, Request
  <2>3. event' = [event EXCEPT ![Message(w)] = e]
    BY <1>1, <1>3, <1>8, <2>1 DEF CommitFailure, EventRow
  <2>4. UNCHANGED <<readings, nextBatch, created201>>
    BY <1>8 DEF CommitFailure
  <2>5. "failed" \in Codes /\ {} \in SUBSET ReadingRow /\ Answer(w, "failed", {})
    BY <1>8 DEF CommitFailure, Codes
  <2>6. /\ req' \in [Workers -> Request]
        /\ \A v \in Workers \ {w} : req'[v] = req[v]
        /\ req'[w].envelope = req[w].envelope
    BY <1>1, <2>5, AnswerStep
  <2>7. QED BY <1>a, <1>1, <2>1, <2>2, <2>3, <2>4, <2>6
<1>9. QED BY <1>5, <1>7, <1>8

(* Failures of the environment and edits of the registry keep the types.   *)
LEMMA OtherTypes ==
  ASSUME TypeInv,
         Crash \/ EditRegistry \/ (\E w \in Workers : DatabaseLocked(w)) \/ UNCHANGED vars
  PROVE  TypeInv'
<1>1. /\ req \in [Workers -> Request] /\ faults \in Nat /\ edits \in Nat
      /\ MaxFaults \in Nat /\ MaxEdits \in Nat
  BY IngestionAssumption DEF TypeInv, TypeOK
<1>2. CASE Crash
  <2>1. req' \in [Workers -> Request] /\ \A w \in Workers : req'[w].pc = "idle"
    BY <1>2, IdleType DEF Crash, Idle
  <2>2. faults' \in Nat
    BY <1>1, <1>2 DEF Crash
  <2>3. QED BY <1>2, <2>1, <2>2
            DEF Crash, TypeInv, TypeOK, RegistryTypeOK, registryVars, dbVars, Engaged, At
<1>3. CASE EditRegistry
  <2>1. RegistryTypeOK'
    BY <1>3, EditTypes DEF EditRegistry, TypeInv, TypeOK
  <2>2. edits' \in Nat
    BY <1>1, <1>3 DEF EditRegistry
  <2>3. QED BY <1>3, <2>1, <2>2
            DEF EditRegistry, TypeInv, TypeOK, dbVars, Engaged, At, Message
<1>4. ASSUME NEW w \in Workers, DatabaseLocked(w) PROVE TypeInv'
  <2>1. "server_error" \in Codes /\ {} \in SUBSET ReadingRow /\ Answer(w, "server_error", {})
    BY <1>4 DEF DatabaseLocked, Codes
  <2>2. /\ req' \in [Workers -> Request]
        /\ \A v \in Workers \ {w} : req'[v] = req[v]
        /\ req'[w].pc = "answered" /\ req'[w].envelope = req[w].envelope
    BY <1>1, <2>1, AnswerStep
  <2>3. faults' \in Nat
    BY <1>1, <1>4 DEF DatabaseLocked
  <2>4. TypeOK'
    BY <1>4, <2>2, <2>3 DEF DatabaseLocked, TypeInv, TypeOK, RegistryTypeOK, registryVars, dbVars
  <2>5. Engaged'
    BY <1>4, <2>2 DEF DatabaseLocked, TypeInv, Engaged, At, Message, dbVars
  <2>6. QED BY <2>4, <2>5 DEF TypeInv
<1>5. CASE UNCHANGED vars
  BY <1>5 DEF vars, TypeInv, TypeOK, RegistryTypeOK, registryVars, Engaged, At, Message
<1>6. QED BY <1>2, <1>3, <1>4, <1>5

LEMMA TypeInit == Init => TypeInv
<1> SUFFICES ASSUME Init PROVE TypeInv
  OBVIOUS
<1>1. req \in [Workers -> Request] /\ \A w \in Workers : req[w].pc = "idle"
  BY IdleType DEF Init, Idle
<1>2. RegistryTypeOK
  BY IngestionAssumption DEF Init, RegistryTypeOK
<1>3. TypeOK
  BY <1>1, <1>2 DEF Init, TypeOK
<1>4. QED BY <1>1, <1>3 DEF TypeInv, Engaged, At

LEMMA TypeStep == TypeInv /\ [Next]_vars => TypeInv'
<1> SUFFICES ASSUME TypeInv, [Next]_vars PROVE TypeInv'
  OBVIOUS
<1>1. ASSUME NEW w \in Workers, NEW env \in Envelopes, Receive(w, env) PROVE TypeInv'
  BY <1>1, ReadTypes
<1>2. ASSUME NEW w \in Workers, Serve(w) PROVE TypeInv'
  BY <1>2, ReadTypes, WriteTypes DEF Serve
<1>3. QED BY <1>1, <1>2, OtherTypes DEF Next

(* Every variable keeps its type, and every request in process has its     *)
(* event stored under its envelope.                                        *)
THEOREM Types == Spec => []TypeInv
<1>1. QED BY TypeInit, TypeStep, PTL DEF Spec

(* Every variable keeps its type whatever threads, retries, failures and   *)
(* edits do.                                                               *)
THEOREM TypeCorrect == Spec => []TypeOK
<1>1. TypeInv => TypeOK
  BY DEF TypeInv
<1>2. QED BY <1>1, Types, PTL

-----------------------------------------------------------------------------
(* Only one thread ever holds the created flag of a message, and only      *)
(* until its 201 is counted.                                               *)
CreatedOnce ==
  /\ \A w \in Workers : req[w].created =>
       At(w, "process") /\ created201[Message(w)] = 0
  /\ \A v, w \in Workers :
       req[v].created /\ req[w].created /\ Message(v) = Message(w) => v = w
  /\ \A m \in Messages : event[m] = Null => created201[m] = 0

(* A code is the last thing a request gets, and only an event with a       *)
(* device and a schema is processed.                                       *)
Orderly ==
  /\ \A w \in Workers : req[w].code # Null => At(w, "answered")
  /\ \A m \in Messages : Processed(m) => event[m].device # Null /\ event[m].schema # Null

(* The inductive invariant.                                                *)
IngestionInv ==
  /\ TypeInv
  /\ Orderly
  /\ ReferencesExist
  /\ ReadingsComplete
  /\ AnswersAgree
  /\ CreatedOnce
  /\ AtMostOneCreated

(* A row that a stored event refers to survives every edit: a schema as it *)
(* is, a device with its identity.                                         *)
LEMMA EditFreezes ==
  ASSUME IngestionInv, Edit(UsedDevices, UsedSchemas), NEW m \in Messages, Stored(m)
  PROVE  /\ event[m].schema # Null =>
              /\ event[m].schema \in LiveSchemas'
              /\ schema'[event[m].schema] = schema[event[m].schema]
         /\ event[m].device # Null =>
              /\ event[m].device \in LiveDevices'
              /\ device'[event[m].device].localId = device[event[m].device].localId
              /\ device'[event[m].device].deviceType = device[event[m].device].deviceType
<1> DEFINE md == event[m].device
           ms == event[m].schema
<1>1. /\ md \in UsedDevices /\ ms \in UsedSchemas
      /\ md # Null => md \in LiveDevices
      /\ ms # Null => ms \in LiveSchemas
      /\ RegistryTypeOK
  BY DEF IngestionInv, TypeInv, TypeOK, ReferencesExist, Stored, UsedDevices, UsedSchemas
<1>2. /\ md \in LiveDevices => md \in Devices /\ device[md] \in DeviceRow /\ device[md] # Absent
      /\ ms \in LiveSchemas => ms \in Schemas /\ schema[ms] \in SchemaRow /\ schema[ms] # Absent
  BY RowAssumption DEF LiveDevices, LiveSchemas
<1> HIDE DEF md, ms
<1>3. (UNCHANGED schema) => (ms # Null => ms \in LiveSchemas' /\ schema'[ms] = schema[ms])
  BY <1>1 DEF LiveSchemas
<1>4. (UNCHANGED device) =>
        (md # Null => /\ md \in LiveDevices'
                      /\ device'[md].localId = device[md].localId
                      /\ device'[md].deviceType = device[md].deviceType)
  BY <1>1 DEF LiveDevices
<1>5. ASSUME NEW d \in Devices, NEW r \in DeviceRow \cup {Deleted},
             device' = [device EXCEPT ![d] = r],
             d = md => r \in DeviceRow /\ r.localId = device[md].localId
                                       /\ r.deviceType = device[md].deviceType
      PROVE  md # Null => /\ md \in LiveDevices'
                          /\ device'[md].localId = device[md].localId
                          /\ device'[md].deviceType = device[md].deviceType
  BY <1>1, <1>2, <1>5 DEF LiveDevices, RegistryTypeOK
<1>6. ASSUME NEW s \in Schemas, NEW r, schema' = [schema EXCEPT ![s] = r], s # ms
      PROVE  ms # Null => ms \in LiveSchemas' /\ schema'[ms] = schema[ms]
  BY <1>1, <1>2, <1>6 DEF LiveSchemas, RegistryTypeOK
<1> DEFINE Kept == /\ ms # Null => ms \in LiveSchemas' /\ schema'[ms] = schema[ms]
                   /\ md # Null => /\ md \in LiveDevices'
                                   /\ device'[md].localId = device[md].localId
                                   /\ device'[md].deviceType = device[md].deviceType
<1> HIDE DEF Kept
<1>7. ASSUME NEW b, SetGatewayActive(b) PROVE Kept
  BY <1>3, <1>4, <1>7 DEF SetGatewayActive, Kept
<1>8. ASSUME NEW d \in Devices, DeleteDevice(d, UsedDevices) PROVE Kept
  BY <1>1, <1>3, <1>5, <1>8 DEF DeleteDevice, Kept
<1>9. ASSUME NEW d \in Devices, NEW r \in DeviceRow, CreateDevice(d, r) PROVE Kept
  <2>1. d = md => md = Null
    BY <1>1, <1>2, <1>9 DEF CreateDevice
  <2>2. md # Null => d # md
    BY <2>1
  <2>3. CASE md = Null
    BY <2>3, <1>3, <1>9 DEF CreateDevice, Kept
  <2>4. CASE md # Null
    BY <2>4, <2>2, <1>3, <1>5, <1>9 DEF CreateDevice, Kept
  <2>5. QED BY <2>3, <2>4
<1>10. ASSUME NEW d \in Devices, NEW r \in DeviceRow, UpdateDevice(d, r, UsedDevices) PROVE Kept
  <2>1. d = md => r.localId = device[md].localId /\ r.deviceType = device[md].deviceType
    <3> SUFFICES ASSUME d = md PROVE r.localId = device[md].localId /\ r.deviceType = device[md].deviceType
      OBVIOUS
    <3>1. d \in LiveDevices /\ [r EXCEPT !.active = device[d].active] = device[d]
      BY <1>1, <1>10 DEF UpdateDevice
    <3>2. device[d] \in DeviceRow
      BY <1>2, <3>1
    <3>3. QED BY <3>1, <3>2 DEF DeviceRow
  <2>2. QED BY <2>1, <1>3, <1>5, <1>10 DEF UpdateDevice, Kept
<1>11. ASSUME NEW s \in Schemas, DeleteSchema(s, UsedSchemas) PROVE Kept
  BY <1>1, <1>4, <1>6, <1>11 DEF DeleteSchema, Kept
<1>12. ASSUME NEW s \in Schemas, NEW r \in SchemaRow, CreateSchema(s, r) PROVE Kept
  <2>1. CASE ms = Null
    BY <2>1, <1>4, <1>12 DEF CreateSchema, Kept
  <2>2. CASE ms # Null
    BY <2>2, <1>1, <1>2, <1>4, <1>6, <1>12 DEF CreateSchema, Kept
  <2>3. QED BY <2>1, <2>2
<1>13. ASSUME NEW s \in Schemas, NEW r \in SchemaRow, UpdateSchema(s, r, UsedSchemas) PROVE Kept
  BY <1>1, <1>4, <1>6, <1>13 DEF UpdateSchema, Kept
<1>14. ASSUME NEW s \in Schemas, NEW l \in Layouts, EditLayout(s, l, UsedSchemas) PROVE Kept
  <2>1. s # ms
    BY <1>1, <1>14 DEF EditLayout
  <2>2. schema' = [schema EXCEPT ![s] = [schema[s] EXCEPT !.layout = l]]
    BY <1>14 DEF EditLayout
  <2>3. QED BY <2>1, <2>2, <1>4, <1>6, <1>14 DEF EditLayout, Kept
<1>15. Kept
  BY <1>7, <1>8, <1>9, <1>10, <1>11, <1>12, <1>13, <1>14 DEF Edit
<1>16. QED BY <1>15 DEF Kept, md, ms

(* What a transaction that gets to process starts from.                    *)
LEMMA ProcessStart ==
  ASSUME IngestionInv, NEW w \in Workers, MayProcess(w)
  PROVE  /\ Message(w) \in Messages /\ event[Message(w)] \in EventRow
         /\ event[Message(w)].envelope = req[w].envelope
         /\ ~Processed(Message(w)) /\ Rows(Message(w)) = {}
         /\ req[w].device # Null => req[w].device \in LiveDevices
         /\ req[w].schema # Null => req[w].schema \in LiveSchemas
<1>1. ~At(w, "idle") /\ event[Message(w)] # Null
      /\ event[Message(w)].envelope = req[w].envelope
  BY DEF MayProcess, At, IngestionInv, TypeInv, Engaged
<1>2. Message(w) \in Messages
  BY <1>1, MessageType DEF IngestionInv
<1>3. event[Message(w)] \in EventRow
  BY <1>1, <1>2 DEF IngestionInv, TypeInv, TypeOK
<1>4. ~Processed(Message(w))
  BY DEF MayProcess, Processed
<1>5. Rows(Message(w)) = {}
  BY <1>2, <1>4 DEF IngestionInv, ReadingsComplete
<1>6. QED BY <1>1, <1>2, <1>3, <1>4, <1>5 DEF MayProcess, Dangling

(* The database step that a committed projection is.                       *)
LEMMA CommitStep ==
  ASSUME IngestionInv, NEW w \in Workers, CommitReadings(w)
  PROVE  /\ Message(w) \in Messages /\ ~Processed(Message(w)) /\ Rows(Message(w)) = {}
         /\ \A n \in Messages \ {Message(w)} : event'[n] = event[n] /\ Rows(n)' = Rows(n)
         /\ event[Message(w)] \in EventRow
         /\ event'[Message(w)] = [event[Message(w)] EXCEPT !.device = req[w].device,
                                    !.schema = req[w].schema, !.status = "processed"]
         /\ event'[Message(w)] \in EventRow
         /\ SameEnvelope(event[Message(w)], req[w])
         /\ req[w].device \in LiveDevices /\ req[w].schema \in LiveSchemas
         /\ \A n : n = Message(w) => Rows(n)' = Projection(w)
         /\ nextBatch \in 1 .. nextBatch' - 1 /\ nextBatch' = nextBatch + 1
         /\ UNCHANGED registryVars
<1> DEFINE m == Message(w)
<1>1. /\ m \in Messages /\ event[m] \in EventRow /\ Rows(m) = {}
      /\ req[w].device \in LiveDevices /\ req[w].schema \in LiveSchemas
      /\ ~Processed(m)
  BY ProcessStart DEF CommitReadings, Processable
<1>2. event \in [Messages -> EventRow \cup {Null}] /\ nextBatch \in Nat \ {0}
  BY DEF IngestionInv, TypeInv, TypeOK
<1>3. event' = [event EXCEPT ![m] = [event[m] EXCEPT !.device = req[w].device,
                     !.schema = req[w].schema, !.status = "processed"]]
  BY <1>1, <1>2 DEF CommitReadings, EventRow
<1>4. /\ event'[m] = [event[m] EXCEPT !.device = req[w].device,
                         !.schema = req[w].schema, !.status = "processed"]
      /\ \A n \in Messages \ {m} : event'[n] = event[n]
  BY <1>1, <1>2, <1>3
<1>5. event'[m] \in EventRow
  BY WriteTypes DEF IngestionInv
<1>6. /\ readings' = readings \cup Projection(w) /\ nextBatch' = nextBatch + 1
      /\ \A r \in Projection(w) : r.message = m
      /\ UNCHANGED registryVars /\ SameEnvelope(event[m], req[w])
  BY DEF CommitReadings, MayProcess, Projection
<1>7. \A n : /\ n = m => Rows(n)' = Projection(w)
             /\ n # m => Rows(n)' = Rows(n)
  BY <1>1, <1>6 DEF Rows
<1>8. nextBatch \in 1 .. nextBatch' - 1
  BY <1>2, <1>6
<1>9. QED BY <1>1, <1>4, <1>5, <1>6, <1>7, <1>8

(* The database step that a new event is.                                  *)
LEMMA InsertStep ==
  ASSUME IngestionInv, NEW w \in Workers, InsertEvent(w)
  PROVE  /\ Message(w) \in Messages /\ event[Message(w)] = Null
         /\ \A n \in Messages \ {Message(w)} : event'[n] = event[n]
         /\ event'[Message(w)] # Null
         /\ event'[Message(w)].envelope = req[w].envelope
         /\ event'[Message(w)].device = req[w].device
         /\ event'[Message(w)].schema = req[w].schema
         /\ event'[Message(w)].status = "received"
         /\ ~Dangling(w)
         /\ UNCHANGED <<registryVars, readings, nextBatch, created201>>
<1>1. Message(w) \in Messages
  BY MessageType DEF InsertEvent, At, IngestionInv
<1>2. event \in [Messages -> EventRow \cup {Null}]
  BY DEF IngestionInv, TypeInv, TypeOK
<1>3. event'[Message(w)] # Null
  BY WriteTypes, EventRowAssumption DEF IngestionInv
<1>4. event'[Message(w)] = [envelope |-> req[w].envelope, device |-> req[w].device,
                            schema |-> req[w].schema, status |-> "received"]
  BY <1>1, <1>2 DEF InsertEvent
<1>5. /\ event'[Message(w)].envelope = req[w].envelope
      /\ event'[Message(w)].device = req[w].device
      /\ event'[Message(w)].schema = req[w].schema
      /\ event'[Message(w)].status = "received"
  BY <1>4
<1>6. QED BY <1>1, <1>2, <1>3, <1>4, <1>5 DEF InsertEvent

(* The database step that a stored failure is.                             *)
LEMMA FailureStep ==
  ASSUME IngestionInv, NEW w \in Workers, CommitFailure(w)
  PROVE  /\ Message(w) \in Messages /\ ~Processed(Message(w))
         /\ \A n \in Messages \ {Message(w)} : event'[n] = event[n]
         /\ event'[Message(w)] = [event[Message(w)] EXCEPT !.device = req[w].device,
                           !.schema = req[w].schema, !.status = "failed"]
         /\ event'[Message(w)] \in EventRow /\ event[Message(w)] \in EventRow
         /\ SameEnvelope(event[Message(w)], req[w])
         /\ ~Dangling(w)
         /\ UNCHANGED <<registryVars, readings, nextBatch, created201>>
<1>1. Message(w) \in Messages /\ event[Message(w)] \in EventRow /\ ~Processed(Message(w))
  BY ProcessStart DEF CommitFailure
<1>2. event \in [Messages -> EventRow \cup {Null}]
  BY DEF IngestionInv, TypeInv, TypeOK
<1>3. event' = [event EXCEPT ![Message(w)] = [event[Message(w)] EXCEPT !.device = req[w].device,
                     !.schema = req[w].schema, !.status = "failed"]]
  BY <1>1, <1>2 DEF CommitFailure, EventRow
<1>4. event'[Message(w)] \in EventRow
  BY WriteTypes DEF IngestionInv
<1>5. QED BY <1>1, <1>2, <1>3, <1>4 DEF CommitFailure, MayProcess

(* The steps of request w that write nothing.                              *)
ReadsOnly(w) ==
  \/ \E env \in Envelopes : Receive(w, env)
  \/ CheckRequest(w) \/ ResolveDevice(w) \/ ResolveSchema(w) \/ FindEvent(w)
  \/ InsertLost(w) \/ AbortDangling(w) \/ RefuseEnvelope(w)
  \/ ReturnProcessed(w) \/ Deliver(w) \/ DatabaseLocked(w)

(* Each step is one of these, a write of a request, an edit, a crash or a  *)
(* stutter.                                                                *)
LEMMA StepCases ==
  ASSUME [Next]_vars
  PROVE  \/ \E w \in Workers : \/ ReadsOnly(w)
                               \/ InsertEvent(w) \/ CommitReadings(w) \/ CommitFailure(w)
         \/ Crash \/ EditRegistry \/ UNCHANGED vars
  BY DEF Next, Serve, ReadsOnly

(* Steps that only read leave the database and the configuration alone.    *)
LEMMA ReadFrame ==
  ASSUME NEW w \in Workers, ReadsOnly(w)
  PROVE  UNCHANGED <<registryVars, dbVars, created201, edits>>
  BY DEF ReadsOnly, Receive, CheckRequest, ResolveDevice, ResolveSchema, FindEvent, InsertLost,
         AbortDangling, RefuseEnvelope, ReturnProcessed, Deliver, DatabaseLocked

(* Every step writes telemetry, edits the configuration, or leaves both.   *)
LEMMA StepKinds ==
  ASSUME [Next]_vars
  PROVE  \/ UNCHANGED <<registryVars, dbVars>>
         \/ \E w \in Workers : InsertEvent(w) \/ CommitReadings(w) \/ CommitFailure(w)
         \/ EditRegistry
<1>1. ASSUME NEW w \in Workers, ReadsOnly(w) PROVE UNCHANGED <<registryVars, dbVars>>
  BY <1>1, ReadFrame
<1>2. CASE Crash \/ UNCHANGED vars
  BY <1>2 DEF Crash, vars, dbVars
<1>3. QED BY <1>1, <1>2, StepCases

(* A processed event is never touched again.                               *)
LEMMA ProcessedStable ==
  ASSUME IngestionInv, [Next]_vars, NEW m \in Messages, Processed(m)
  PROVE  event'[m] = event[m] /\ Rows(m)' = Rows(m) /\ Processed(m)'
<1> SUFFICES event'[m] = event[m] /\ Rows(m)' = Rows(m)
  BY DEF Processed, Stored
<1>1. CASE UNCHANGED dbVars
  BY <1>1 DEF Rows, dbVars
<1>2. ASSUME NEW w \in Workers, InsertEvent(w) PROVE event'[m] = event[m] /\ Rows(m)' = Rows(m)
  BY <1>2, InsertStep DEF Processed, Stored, Rows
<1>3. ASSUME NEW w \in Workers, CommitReadings(w) PROVE event'[m] = event[m] /\ Rows(m)' = Rows(m)
  BY <1>3, CommitStep
<1>4. ASSUME NEW w \in Workers, CommitFailure(w) PROVE event'[m] = event[m] /\ Rows(m)' = Rows(m)
  BY <1>4, FailureStep DEF Rows
<1>5. QED BY <1>1, <1>2, <1>3, <1>4, StepKinds DEF EditRegistry

-----------------------------------------------------------------------------
(* ReferencesExist and Orderly's second half: a reference is checked when  *)
(* it is stored and frozen from then on.                                   *)
LEMMA ReferencesStep ==
  ASSUME IngestionInv, [Next]_vars
  PROVE  /\ ReferencesExist'
         /\ \A m \in Messages : Processed(m)' =>
              event'[m].device # Null /\ event'[m].schema # Null
<1> SUFFICES ASSUME NEW m \in Messages, event'[m] # Null
             PROVE  /\ event'[m].device \in LiveDevices' \cup {Null}
                    /\ event'[m].schema \in LiveSchemas' \cup {Null}
                    /\ event'[m].status = "processed" =>
                         event'[m].device # Null /\ event'[m].schema # Null
  BY DEF ReferencesExist, Stored, Processed
<1> DEFINE Exist == /\ event[m].device \in LiveDevices \cup {Null}
                    /\ event[m].schema \in LiveSchemas \cup {Null}
                    /\ event[m].status = "processed" =>
                         event[m].device # Null /\ event[m].schema # Null
<1> SUFFICES Exist'
  OBVIOUS
<1>1. event[m] # Null => Exist
  BY DEF IngestionInv, ReferencesExist, Orderly, Processed, Stored
<1>2. CASE UNCHANGED <<registryVars, dbVars>>
  BY <1>1, <1>2 DEF registryVars, dbVars, LiveDevices, LiveSchemas
<1>3. ASSUME UNCHANGED registryVars, event'[m] = event[m]
      PROVE  Exist'
  BY <1>1, <1>3 DEF registryVars, LiveDevices, LiveSchemas
<1>4. ASSUME UNCHANGED registryVars, NEW w \in Workers, ~Dangling(w), req[w] \in Request,
             event'[m].device = req[w].device, event'[m].schema = req[w].schema,
             event'[m].status = "processed" => req[w].device # Null /\ req[w].schema # Null
      PROVE  Exist'
  BY <1>4 DEF Dangling, Request, registryVars, LiveDevices, LiveSchemas
<1>5. \A w \in Workers : req[w] \in Request
  BY DEF IngestionInv, TypeInv, TypeOK
<1>6. Null \notin Devices \cup Schemas
  BY RegistryAssumption
<1> HIDE DEF Exist
<1>7. ASSUME NEW w \in Workers, InsertEvent(w) PROVE Exist'
  <2>1. CASE m = Message(w)
    <3>1. /\ event'[m].device = req[w].device /\ event'[m].schema = req[w].schema
          /\ event'[m].status = "received" /\ ~Dangling(w) /\ UNCHANGED registryVars
      BY <1>7, <2>1, InsertStep
    <3>2. QED BY <1>4, <1>5, <3>1
  <2>2. CASE m # Message(w)
    BY <1>3, <1>7, <2>2, InsertStep
  <2>3. QED BY <2>1, <2>2
<1>8. ASSUME NEW w \in Workers, CommitReadings(w) PROVE Exist'
  <2>1. CASE m = Message(w)
    <3>1. ~Dangling(w) /\ UNCHANGED registryVars
      BY <1>8 DEF CommitReadings, MayProcess
    <3>2. req[w].device # Null /\ req[w].schema # Null
      BY <1>8 DEF CommitReadings, Processable
    <3>3. event'[m].device = req[w].device /\ event'[m].schema = req[w].schema
      BY <1>8, <2>1, CommitStep DEF EventRow
    <3>4. QED BY <1>4, <1>5, <3>1, <3>2, <3>3
  <2>2. CASE m # Message(w)
    BY <1>3, <1>8, <2>2, CommitStep
  <2>3. QED BY <2>1, <2>2
<1>9. ASSUME NEW w \in Workers, CommitFailure(w) PROVE Exist'
  <2>1. CASE m = Message(w)
    <3>1. /\ event[m] \in EventRow /\ ~Dangling(w) /\ UNCHANGED registryVars
          /\ event'[m] = [event[m] EXCEPT !.device = req[w].device,
                            !.schema = req[w].schema, !.status = "failed"]
      BY <1>9, <2>1, FailureStep
    <3>2. /\ event'[m].device = req[w].device /\ event'[m].schema = req[w].schema
          /\ event'[m].status = "failed"
      BY <3>1 DEF EventRow
    <3>3. QED BY <1>4, <1>5, <3>1, <3>2
  <2>2. CASE m # Message(w)
    BY <1>3, <1>9, <2>2, FailureStep
  <2>3. QED BY <2>1, <2>2
<1>10. CASE EditRegistry
  <2>1. event' = event /\ Edit(UsedDevices, UsedSchemas)
    BY <1>10 DEF EditRegistry, dbVars
  <2>2. Stored(m)
    BY <2>1 DEF Stored
  <2>3. QED BY <1>1, <2>1, <2>2, EditFreezes DEF Stored, Exist
<1>11. QED BY <1>2, <1>7, <1>8, <1>9, <1>10, StepKinds

(* The readings that a transaction with number b stores for message m.     *)
Batch(b, m) == [batch : {b}, message : {m}, device : {event[m].device},
                parameter : Targets[schema[event[m].schema].layout]]

(* ReadingsComplete: a commit stores all readings of an event and no other *)
(* step touches the readings, or the schema, of a processed event.         *)
LEMMA ReadingsStep ==
  ASSUME IngestionInv, [Next]_vars
  PROVE  ReadingsComplete'
<1> SUFFICES ASSUME NEW m \in Messages
             PROVE  /\ Processed(m)' => \E b \in 1 .. nextBatch' - 1 : Rows(m)' = Batch(b, m)'
                    /\ ~Processed(m)' => Rows(m)' = {}
  BY DEF ReadingsComplete, Batch
<1>1. /\ Processed(m) => \E b \in 1 .. nextBatch - 1 : Rows(m) = Batch(b, m)
      /\ ~Processed(m) => Rows(m) = {}
  BY DEF IngestionInv, ReadingsComplete, Batch
<1>0. nextBatch \in Nat
  BY DEF IngestionInv, TypeInv, TypeOK
<1>2. ASSUME event'[m] = event[m], Rows(m)' = Rows(m), nextBatch' \in {nextBatch, nextBatch + 1},
             Processed(m) => schema'[event[m].schema] = schema[event[m].schema]
      PROVE  /\ Processed(m)' => \E b \in 1 .. nextBatch' - 1 : Rows(m)' = Batch(b, m)'
             /\ ~Processed(m)' => Rows(m)' = {}
  <2>1. Processed(m)' <=> Processed(m)
    BY <1>2 DEF Processed, Stored
  <2>2. CASE Processed(m)
    <3>1. PICK b \in 1 .. nextBatch - 1 : Rows(m) = Batch(b, m)
      BY <1>1, <2>2
    <3>2. b \in 1 .. nextBatch' - 1
      <4>1. nextBatch' = nextBatch \/ nextBatch' = nextBatch + 1
        BY <1>2
      <4>2. QED BY <1>0, <4>1
    <3>3. Rows(m)' = Batch(b, m)'
      BY <1>2, <2>2, <3>1 DEF Batch
    <3>4. QED BY <2>1, <2>2, <3>2, <3>3 DEF Batch
  <2>3. CASE ~Processed(m)
    BY <1>1, <1>2, <2>1, <2>3
  <2>4. QED BY <2>2, <2>3
<1> DEFINE Goal == /\ Processed(m)' => \E b \in 1 .. nextBatch' - 1 : Rows(m)' = Batch(b, m)'
                   /\ ~Processed(m)' => Rows(m)' = {}
<1>3. CASE UNCHANGED <<registryVars, dbVars>>
  BY <1>2, <1>3 DEF registryVars, dbVars, Rows
<1>4. ASSUME NEW w \in Workers, InsertEvent(w) PROVE Goal
  <2>1. CASE m = Message(w)
    <3>1. ~Processed(m) /\ ~Processed(m)' /\ Rows(m)' = Rows(m)
      BY <1>4, <2>1, InsertStep DEF Processed, Stored, Rows
    <3>2. QED BY <1>1, <3>1
  <2>2. CASE m # Message(w)
    BY <1>2, <1>4, <2>2, InsertStep DEF Rows, registryVars
  <2>3. QED BY <2>1, <2>2
<1>5. ASSUME NEW w \in Workers, CommitReadings(w) PROVE Goal
  <2>1. CASE m = Message(w)
    <3>1. /\ Rows(m)' = Projection(w) /\ nextBatch \in 1 .. nextBatch' - 1
          /\ event'[m].device = req[w].device /\ event'[m].schema = req[w].schema
          /\ event'[m].status = "processed" /\ event'[m] # Null
      BY <1>5, <2>1, CommitStep, EventRowAssumption DEF EventRow
    <3>2. schema' = schema
      BY <1>5, CommitStep DEF registryVars
    <3>3. PICK b : b = nextBatch
      OBVIOUS
    <3>4. Projection(w) = Batch(b, m)'
      BY <2>1, <3>1, <3>2, <3>3 DEF Projection, Batch
    <3>5. Processed(m)'
      BY <3>1 DEF Processed, Stored
    <3>6. QED BY <3>1, <3>3, <3>4, <3>5 DEF Batch
  <2>2. CASE m # Message(w)
    <3>1. /\ event'[m] = event[m] /\ Rows(m)' = Rows(m) /\ nextBatch' = nextBatch + 1
          /\ UNCHANGED registryVars
      BY <1>5, <2>2, CommitStep
    <3>2. QED BY <1>2, <3>1 DEF registryVars
  <2>3. QED BY <2>1, <2>2
<1>6. ASSUME NEW w \in Workers, CommitFailure(w) PROVE Goal
  <2>1. CASE m = Message(w)
    <3>1. /\ event'[m] = [event[m] EXCEPT !.device = req[w].device,
                            !.schema = req[w].schema, !.status = "failed"]
          /\ event[m] \in EventRow /\ ~Processed(m) /\ UNCHANGED readings
      BY <1>6, <2>1, FailureStep
    <3>2. event'[m].status = "failed"
      BY <3>1 DEF EventRow
    <3>3. ~Processed(m)' /\ Rows(m)' = Rows(m)
      BY <3>1, <3>2 DEF Processed, Rows
    <3>4. QED BY <1>1, <3>1, <3>3
  <2>2. CASE m # Message(w)
    BY <1>2, <1>6, <2>2, FailureStep DEF Rows, registryVars
  <2>3. QED BY <2>1, <2>2
<1>7. CASE EditRegistry
  <2>1. Edit(UsedDevices, UsedSchemas) /\ UNCHANGED dbVars
    BY <1>7 DEF EditRegistry
  <2>2. Processed(m) => schema'[event[m].schema] = schema[event[m].schema]
    BY <2>1, EditFreezes DEF Processed, IngestionInv, Orderly
  <2>3. QED BY <1>2, <2>1, <2>2 DEF dbVars, Rows
<1>8. QED BY <1>3, <1>4, <1>5, <1>6, <1>7, StepKinds

(* The promise of one response.                                            *)
Truthful(w) ==
  req[w].code \in {"created", "existing"} =>
    /\ Message(w) \in Messages /\ Processed(Message(w))
    /\ event[Message(w)].envelope = req[w].envelope
    /\ req[w].ids = Rows(Message(w))

(* The request of a thread that only reads: it has not created anything,   *)
(* and if it answers with success, it quotes a processed event.            *)
LEMMA ReadingThread ==
  ASSUME IngestionInv, NEW w \in Workers, ReadsOnly(w)
  PROVE  /\ \A v \in Workers \ {w} : req'[v] = req[v]
         /\ ~req'[w].created
         /\ req'[w].code # Null => req'[w].pc = "answered"
         /\ req'[w].code \in {"created", "existing"} =>
              /\ req'[w].envelope = req[w].envelope
              /\ Message(w) \in Messages /\ Processed(Message(w))
              /\ event[Message(w)].envelope = req[w].envelope
              /\ req'[w].ids = Rows(Message(w))
<1> DEFINE Others == \A v \in Workers \ {w} : req'[v] = req[v]
           Quiet == /\ ~req'[w].created
                    /\ req'[w].code # Null => req'[w].pc = "answered"
                    /\ req'[w].code \notin {"created", "existing"}
<1>1. /\ req \in [Workers -> Request] /\ req[w] \in Request
      /\ readings \subseteq ReadingRow
  BY DEF IngestionInv, TypeInv, TypeOK
<1>2. /\ ~At(w, "process") => ~req[w].created
      /\ ~At(w, "answered") => req[w].code = Null
  BY DEF IngestionInv, CreatedOnce, Orderly
<1>3. Null \notin {"created", "existing"}
  BY CodesAssumption DEF Codes
<1>4. ASSUME NEW env \in Envelopes, Receive(w, env) PROVE Others /\ Quiet
  <2>1. CASE gatewayActive
    BY <1>1, <1>3, <1>4, <2>1 DEF Receive, Idle
  <2>2. CASE ~gatewayActive
    BY <1>1, <1>4, <2>2 DEF Receive, Idle
  <2>3. QED BY <2>1, <2>2
<1>5. ASSUME Deliver(w) PROVE Others /\ Quiet
  BY <1>1, <1>3, <1>5 DEF Deliver, Idle
<1>6. ASSUME NEW code \in Codes \ {"created", "existing"}, Answer(w, code, {})
      PROVE  Others /\ Quiet
  BY <1>1, <1>6, AnswerStep
<1>7. ASSUME NEW pc \in Steps, Goto(w, pc), ~At(w, "process"), ~At(w, "answered")
      PROVE  Others /\ Quiet
  <2>1. Others /\ req'[w] = [req[w] EXCEPT !.pc = pc]
    BY <1>1, <1>7, GotoStep
  <2>2. req'[w].created = req[w].created /\ req'[w].code = req[w].code
    BY <1>1, <2>1 DEF Request
  <2>3. QED BY <1>2, <1>3, <1>7, <2>1, <2>2
<1>8. ASSUME ~At(w, "process"), ~At(w, "answered"), ~At(w, "idle"), event[Message(w)] # Null,
             AssertSameEnvelope(w, event[Message(w)])
      PROVE  Others /\ Quiet
  BY <1>1, <1>2, <1>3, <1>8, AssertStep DEF IngestionInv
<1>9. CASE CheckRequest(w)
  <2>1. Rejection(req[w].envelope) \in {Null} \cup (Codes \ {"created", "existing"})
    BY DEF Rejection, Codes
  <2>2. QED BY <1>6, <1>7, <1>9, <2>1 DEF CheckRequest, At, Steps
<1>10. CASE ResolveDevice(w)
  <2>1. ~At(w, "process") /\ ~At(w, "answered")
    BY <1>10 DEF ResolveDevice, At
  <2>2. CASE Goto(w, "find")
    BY <1>7, <2>1, <2>2 DEF Steps
  <2>3. ASSUME NEW d, req' = [req EXCEPT ![w].pc = "schema", ![w].device = d,
                               ![w].active = device[d].active,
                               ![w].deviceType = device[d].deviceType]
        PROVE  Others /\ Quiet
    BY <1>1, <1>2, <1>3, <2>1, <2>3 DEF Request
  <2>4. QED BY <1>10, <2>2, <2>3 DEF ResolveDevice
<1>11. CASE ResolveSchema(w)
  <2>1. ~At(w, "process") /\ ~At(w, "answered")
    BY <1>11 DEF ResolveSchema, At
  <2>2. CASE Goto(w, "find")
    BY <1>7, <2>1, <2>2 DEF Steps
  <2>3. ASSUME NEW s, req' = [req EXCEPT ![w].pc = "find", ![w].schema = s,
                                   ![w].length = schema[s].length]
        PROVE  Others /\ Quiet
    BY <1>1, <1>2, <1>3, <2>1, <2>3 DEF Request
  <2>4. QED BY <1>11, <2>2, <2>3 DEF ResolveSchema
<1>12. CASE FindEvent(w)
  BY <1>7, <1>8, <1>12 DEF FindEvent, At, Steps
<1>13. CASE InsertLost(w)
  BY <1>8, <1>13 DEF InsertLost, At
<1>14. CASE AbortDangling(w) \/ RefuseEnvelope(w) \/ DatabaseLocked(w)
  BY <1>6, <1>14 DEF AbortDangling, RefuseEnvelope, DatabaseLocked, Codes
<1>15. CASE ReturnProcessed(w)
  <2>1. /\ At(w, "process") /\ Processed(Message(w))
        /\ event[Message(w)].envelope = req[w].envelope
        /\ Message(w) \in Messages
    BY <1>15, MessageType
       DEF ReturnProcessed, Processed, Stored, At, IngestionInv, TypeInv, Engaged
  <2>2. Answer(w, "existing", Rows(Message(w))) /\ Rows(Message(w)) \in SUBSET ReadingRow
    BY <1>1, <1>15 DEF ReturnProcessed, Rows
  <2>3. /\ Others
        /\ req'[w].pc = "answered" /\ req'[w].envelope = req[w].envelope
        /\ req'[w].code = "existing" /\ req'[w].ids = Rows(Message(w))
        /\ req'[w].created = FALSE
    BY <1>1, <2>2, AnswerStep, ZenonT(60) DEF Codes
  <2>4. QED BY <2>1, <2>3
<1>16. QED BY <1>4, <1>5, <1>9, <1>10, <1>11, <1>12, <1>13, <1>14, <1>15 DEF ReadsOnly

(* A response quotes what is stored when it is made, and what a processed  *)
(* event stores does not change while the response is on its way.          *)
LEMMA AnswersStep ==
  ASSUME IngestionInv, [Next]_vars
  PROVE  AnswersAgree' /\ \A w \in Workers : req'[w].code # Null => At(w, "answered")'
<1>1. \A v \in Workers : req[v].code # Null => At(v, "answered")
  BY DEF IngestionInv, Orderly
<1>2. Null \notin {"created", "existing"}
  BY CodesAssumption DEF Codes
<1>3. \A v \in Workers : Truthful(v)
  <2>1. \A v \in Workers : req[v].code # Null => Message(v) \in Messages
    BY <1>1, MessageType DEF IngestionInv, At
  <2>2. QED BY <1>2, <2>1 DEF Truthful, IngestionInv, AnswersAgree
<1> SUFFICES ASSUME NEW v \in Workers
             PROVE  /\ Truthful(v)'
                    /\ req'[v].code # Null => At(v, "answered")'
  BY DEF Truthful, AnswersAgree
<1> DEFINE Good == Truthful(v)' /\ (req'[v].code # Null => At(v, "answered")')
<1>4. \A m \in Messages : Processed(m) => event'[m] = event[m] /\ Rows(m)' = Rows(m) /\ Processed(m)'
  BY ProcessedStable
<1>5. ASSUME NEW m \in Messages, Processed(m), event[m].envelope = req'[v].envelope,
             m = Message(v)', req'[v].ids = Rows(m), req'[v].pc = "answered"
      PROVE  Good
  BY <1>4, <1>5 DEF Truthful, At
<1>6. ASSUME req'[v].code \notin {"created", "existing"}, req'[v].code # Null => req'[v].pc = "answered"
      PROVE  Good
  BY <1>6 DEF Truthful, At
<1>7. ASSUME req'[v] = req[v] PROVE Good
  <2>1. Message(v)' = Message(v)
    BY <1>7 DEF Message
  <2>2. CASE req[v].code \in {"created", "existing"}
    BY <1>1, <1>2, <1>3, <1>5, <1>7, <2>1, <2>2 DEF Truthful, At
  <2>3. CASE req[v].code \notin {"created", "existing"}
    BY <1>1, <1>6, <1>7, <2>3 DEF At
  <2>4. QED BY <2>2, <2>3
<1>8. /\ req \in [Workers -> Request] /\ req' \in [Workers -> Request]
      /\ \A w \in Workers : req[w] \in Request
  BY TypeStep DEF IngestionInv, TypeInv, TypeOK
<1>9. ASSUME NEW w \in Workers, ReadsOnly(w)
      PROVE  Good
  <2>1. CASE v # w
    BY <1>7, <1>9, <2>1, ReadingThread
  <2>2. CASE v = w /\ req'[w].code \in {"created", "existing"}
    <3>1. Message(v)' = Message(v)
      BY <1>9, <2>2, ReadingThread DEF Message
    <3>2. QED BY <1>2, <1>5, <1>9, <2>2, <3>1, ReadingThread
  <2>3. CASE v = w /\ req'[w].code \notin {"created", "existing"}
    BY <1>6, <1>9, <2>3, ReadingThread
  <2>4. QED BY <2>1, <2>2, <2>3
<1>10. ASSUME NEW w \in Workers, InsertEvent(w) PROVE Good
  <2>1. CASE v # w
    BY <1>7, <1>8, <1>10, <2>1 DEF InsertEvent
  <2>2. CASE v = w
    <3>1. req[w].code = Null
      BY <1>1, <1>10 DEF InsertEvent, At
    <3>2. req'[w].code = req[w].code
      BY <1>8, <1>10 DEF InsertEvent, Request
    <3>3. QED BY <1>2, <1>6, <2>2, <3>1, <3>2
  <2>3. QED BY <2>1, <2>2
<1>11. ASSUME NEW w \in Workers, CommitReadings(w) PROVE Good
  <2>1. PICK code \in {"created", "existing"} : Answer(w, code, Projection(w))
    BY <1>11 DEF CommitReadings
  <2>2. Projection(w) \in SUBSET ReadingRow /\ code \in Codes
    <3>1. Message(w) \in Messages /\ Rows(Message(w))' \subseteq readings'
      BY <1>11, CommitStep DEF Rows
    <3>2. readings' \subseteq ReadingRow
      BY TypeStep DEF IngestionInv, TypeInv, TypeOK
    <3>3. Projection(w) \subseteq readings'
      BY <1>11 DEF CommitReadings
    <3>4. QED BY <3>2, <3>3 DEF Codes
  <2>3. /\ \A u \in Workers \ {w} : req'[u] = req[u]
        /\ req'[w].pc = "answered" /\ req'[w].envelope = req[w].envelope
        /\ req'[w].code = code /\ req'[w].ids = Projection(w)
    BY <1>8, <2>1, <2>2, AnswerStep, ZenonT(60)
  <2>4. CASE v # w
    BY <1>7, <2>3, <2>4
  <2>5. CASE v = w
    <3>1. PICK m : m = Message(w)
      OBVIOUS
    <3>2. Message(v)' = m
      BY <2>3, <2>5, <3>1 DEF Message
    <3>3. /\ m \in Messages /\ Rows(m)' = Projection(w)
          /\ event'[m] \in EventRow /\ event'[m].status = "processed"
          /\ event'[m].envelope = req[w].envelope
      <4>1. m \in Messages /\ Rows(m)' = Projection(w) /\ event'[m] \in EventRow
        BY <1>11, <3>1, CommitStep
      <4>2. /\ event[m] \in EventRow /\ event[m].envelope = req[w].envelope
            /\ event'[m] = [event[m] EXCEPT !.device = req[w].device,
                              !.schema = req[w].schema, !.status = "processed"]
        BY <1>11, <3>1, CommitStep DEF SameEnvelope
      <4>3. event'[m].status = "processed" /\ event'[m].envelope = req[w].envelope
        BY <4>2 DEF EventRow
      <4>4. QED BY <4>1, <4>3
    <3>4. Processed(m)'
      BY <3>3, EventRowAssumption DEF Processed, Stored
    <3>5. QED BY <2>3, <2>5, <3>2, <3>3, <3>4 DEF Truthful, At
  <2>6. QED BY <2>4, <2>5
<1>12. ASSUME NEW w \in Workers, CommitFailure(w) PROVE Good
  <2>1. /\ \A u \in Workers \ {w} : req'[u] = req[u]
        /\ req'[w].pc = "answered" /\ req'[w].code = "failed"
    <3>1. Answer(w, "failed", {}) /\ "failed" \in Codes /\ {} \in SUBSET ReadingRow
      BY <1>12 DEF CommitFailure, Codes
    <3>2. QED BY <1>8, <3>1, AnswerStep
  <2>2. QED BY <1>6, <1>7, <2>1
<1>13. CASE Crash
  <2>1. req'[v] = Idle
    BY <1>13 DEF Crash
  <2>2. QED BY <1>2, <1>6, <2>1 DEF Idle
<1>14. CASE EditRegistry \/ UNCHANGED vars
  <2>1. req' = req
    BY <1>14 DEF EditRegistry, vars
  <2>2. QED BY <1>7, <2>1
<1> HIDE DEF Good
<1>15. Good
  <2>1. CASE \E w \in Workers : \/ ReadsOnly(w)
                                \/ InsertEvent(w) \/ CommitReadings(w) \/ CommitFailure(w)
    BY <1>9, <1>10, <1>11, <1>12, <2>1
  <2>2. CASE Crash \/ EditRegistry \/ UNCHANGED vars
    BY <1>13, <1>14, <2>2 DEF Good
  <2>3. QED BY <2>1, <2>2, StepCases
<1>16. QED BY <1>15 DEF Good

(* The created flag: a thread gets it with the row it inserts, so no other *)
(* thread of that message can have it, and loses it with its answer.       *)
LEMMA CreatedStep ==
  ASSUME IngestionInv, [Next]_vars
  PROVE  CreatedOnce' /\ AtMostOneCreated'
<1> DEFINE Inv == CreatedOnce /\ AtMostOneCreated
<1>1. /\ req \in [Workers -> Request] /\ \A w \in Workers : req[w] \in Request
      /\ created201 \in [Messages -> Nat]
  BY DEF IngestionInv, TypeInv, TypeOK
<1>2. Inv
  BY DEF IngestionInv
<1>3. \A w \in Workers : At(w, "process") => Message(w) \in Messages /\ event[Message(w)] # Null
  BY MessageType DEF IngestionInv, TypeInv, Engaged, At
<1>4. ASSUME NEW w \in Workers, \A v \in Workers \ {w} : req'[v] = req[v], ~req'[w].created,
             created201' = created201, \A m \in Messages : event'[m] = Null => event[m] = Null
      PROVE  Inv'
  BY <1>2, <1>4 DEF CreatedOnce, AtMostOneCreated, At, Message
<1>5. ASSUME NEW w \in Workers, ReadsOnly(w)
      PROVE  Inv'
  <2>1. /\ \A v \in Workers \ {w} : req'[v] = req[v]
        /\ ~req'[w].created
    BY <1>5, ReadingThread
  <2>2. created201' = created201 /\ event' = event
    BY <1>5, ReadFrame DEF dbVars
  <2>3. QED BY <1>4, <2>1, <2>2
<1>6. ASSUME NEW w \in Workers, InsertEvent(w) PROVE Inv'
  <2>1. /\ \A v \in Workers \ {w} : req'[v] = req[v]
        /\ req'[w].pc = "process" /\ req'[w].envelope = req[w].envelope
    BY <1>1, <1>6 DEF InsertEvent, Request
  <2>2. /\ created201' = created201 /\ Message(w) \in Messages
        /\ event[Message(w)] = Null /\ event'[Message(w)] # Null
        /\ \A m \in Messages \ {Message(w)} : event'[m] = event[m]
    BY <1>6, InsertStep
  <2>3. \A v \in Workers : Message(v)' = Message(v)
    BY <2>1 DEF Message
  <2>4. \A v \in Workers \ {w} : req[v].created => Message(v) # Message(w)
    BY <1>2, <1>3, <2>2 DEF CreatedOnce
  <2>5. created201[Message(w)] = 0
    BY <1>2, <2>2 DEF CreatedOnce
  <2>6. \A v \in Workers : req'[v].created =>
          /\ At(v, "process")' /\ created201'[Message(v)'] = 0
    BY <1>2, <2>1, <2>2, <2>3, <2>5 DEF CreatedOnce, At
  <2>7. \A u, v \in Workers :
          req'[u].created /\ req'[v].created /\ Message(u)' = Message(v)' => u = v
    BY <1>2, <2>1, <2>3, <2>4 DEF CreatedOnce
  <2>8. QED BY <1>2, <2>2, <2>6, <2>7 DEF CreatedOnce, AtMostOneCreated
<1>7. ASSUME NEW w \in Workers, CommitReadings(w) PROVE Inv'
  <2>1. /\ \A v \in Workers \ {w} : req'[v] = req[v]
        /\ req'[w].created = FALSE
    BY <1>1, <1>7 DEF CommitReadings, Answer, Idle
  <2>2. /\ Message(w) \in Messages /\ event'[Message(w)] # Null
        /\ \A m \in Messages \ {Message(w)} : event'[m] = event[m]
    BY <1>7, CommitStep, EventRowAssumption
  <2>3. CASE ~req[w].created
    <3>1. created201' = created201
      BY <1>1, <1>7, <2>3 DEF CommitReadings
    <3>2. QED BY <1>4, <2>1, <2>2, <3>1
  <2>4. CASE req[w].created
    <3>1. created201[Message(w)] = 0
      BY <1>2, <2>4 DEF CreatedOnce
    <3>2. /\ created201'[Message(w)] = 1
          /\ \A m \in Messages \ {Message(w)} : created201'[m] = created201[m]
      BY <1>1, <1>7, <2>2, <2>4, <3>1 DEF CommitReadings
    <3>3. \A v \in Workers \ {w} : /\ Message(v)' = Message(v)
                                   /\ req[v].created => Message(v) # Message(w)
      BY <1>2, <2>1, <2>4 DEF CreatedOnce, Message
    <3>4. \A v \in Workers : req[v].created => Message(v) \in Messages
      BY <1>2, <1>3 DEF CreatedOnce
    <3>5. \A v \in Workers : req'[v].created =>
            /\ At(v, "process")' /\ created201'[Message(v)'] = 0
      BY <1>2, <2>1, <3>2, <3>3, <3>4 DEF CreatedOnce, At
    <3>6. \A u, v \in Workers :
            req'[u].created /\ req'[v].created /\ Message(u)' = Message(v)' => u = v
      BY <1>2, <2>1, <3>3 DEF CreatedOnce
    <3>7. \A m \in Messages : event'[m] = Null => created201'[m] = 0
      BY <1>2, <2>2, <3>2 DEF CreatedOnce
    <3>8. AtMostOneCreated'
      BY <1>2, <3>2 DEF AtMostOneCreated
    <3>9. QED BY <3>5, <3>6, <3>7, <3>8 DEF CreatedOnce
  <2>5. QED BY <2>3, <2>4
<1>8. ASSUME NEW w \in Workers, CommitFailure(w) PROVE Inv'
  <2>1. /\ \A v \in Workers \ {w} : req'[v] = req[v]
        /\ req'[w].created = FALSE
    BY <1>1, <1>8 DEF CommitFailure, Answer, Idle
  <2>2. /\ Message(w) \in Messages /\ event'[Message(w)] # Null
        /\ \A m \in Messages \ {Message(w)} : event'[m] = event[m]
        /\ created201' = created201
    BY <1>8, FailureStep, EventRowAssumption
  <2>3. QED BY <1>4, <2>1, <2>2
<1>9. CASE Crash
  BY <1>2, <1>9 DEF Crash, dbVars, Idle, CreatedOnce, AtMostOneCreated
<1>10. CASE EditRegistry \/ UNCHANGED vars
  <2>1. req' = req /\ created201' = created201 /\ event' = event
    BY <1>10 DEF EditRegistry, vars, dbVars
  <2>2. QED BY <1>2, <2>1 DEF CreatedOnce, AtMostOneCreated, At, Message
<1> HIDE DEF Inv
<1>11. Inv'
  <2>1. CASE \E w \in Workers : \/ ReadsOnly(w)
                                \/ InsertEvent(w) \/ CommitReadings(w) \/ CommitFailure(w)
    BY <1>5, <1>6, <1>7, <1>8, <2>1
  <2>2. CASE Crash \/ EditRegistry \/ UNCHANGED vars
    BY <1>9, <1>10, <2>2 DEF Inv
  <2>3. QED BY <2>1, <2>2, StepCases
<1>12. QED BY <1>11 DEF Inv

-----------------------------------------------------------------------------
LEMMA IngestionInit == Init => IngestionInv
<1> SUFFICES ASSUME Init PROVE IngestionInv
  OBVIOUS
<1>1. TypeInv
  BY TypeInit
<1>2. \A w \in Workers : req[w].code = Null /\ req[w].created = FALSE
  BY DEF Init, Idle
<1>3. \A m \in Messages : event[m] = Null /\ created201[m] = 0 /\ Rows(m) = {}
  BY DEF Init, Rows
<1>4. Null \notin {"created", "existing"}
  BY CodesAssumption DEF Codes
<1>5. Orderly /\ ReferencesExist /\ ReadingsComplete
  BY <1>2, <1>3 DEF Orderly, ReferencesExist, ReadingsComplete, Processed, Stored
<1>6. AnswersAgree
  BY <1>2, <1>4 DEF AnswersAgree
<1>7. CreatedOnce /\ AtMostOneCreated
  BY <1>2, <1>3 DEF CreatedOnce, AtMostOneCreated
<1>8. QED BY <1>1, <1>5, <1>6, <1>7 DEF IngestionInv

LEMMA IngestionStep ==
  ASSUME IngestionInv, [Next]_vars
  PROVE  IngestionInv'
<1>1. TypeInv'
  BY TypeStep DEF IngestionInv
<1>2. Orderly'
  BY ReferencesStep, AnswersStep DEF Orderly
<1>3. QED
  BY <1>1, <1>2, ReferencesStep, ReadingsStep, AnswersStep, CreatedStep DEF IngestionInv

LEMMA Inductive == Spec => []IngestionInv
<1>1. QED BY IngestionInit, IngestionStep, PTL DEF Spec

(* Exactly-once projection: no interleaving of retries, crashes, failures  *)
(* and edits leaves a processed event with missing, doubled or foreign     *)
(* readings, or any other event with readings.                             *)
THEOREM ProjectionExactlyOnce == Spec => []ReadingsComplete
<1>1. IngestionInv => ReadingsComplete
  BY DEF IngestionInv
<1>2. QED BY <1>1, Inductive, PTL

(* No stored event refers to a device or schema that was deleted between   *)
(* the lookup of a request and its write.                                  *)
THEOREM NoDanglingReference == Spec => []ReferencesExist
<1>1. IngestionInv => ReferencesExist
  BY DEF IngestionInv
<1>2. QED BY <1>1, Inductive, PTL

(* Every successful response quotes the processed event of its envelope.   *)
THEOREM TruthfulAnswers == Spec => []AnswersAgree
<1>1. IngestionInv => AnswersAgree
  BY DEF IngestionInv
<1>2. QED BY <1>1, Inductive, PTL

(* At most one 201 per message id, whatever threads race on it.            *)
THEOREM CreatedAtMostOnce == Spec => []AtMostOneCreated
<1>1. IngestionInv => AtMostOneCreated
  BY DEF IngestionInv
<1>2. QED BY <1>1, Inductive, PTL

(* The row and the readings of a processed event never change.             *)
THEOREM ProcessedForever == Spec => ProcessedIsFinal
<1> DEFINE Final == \A m \in Messages : Processed(m) => event'[m] = event[m] /\ Rows(m)' = Rows(m)
<1>1. IngestionInv /\ [Next]_vars => [Final]_vars
  BY ProcessedStable
<1>2. QED BY <1>1, Inductive, PTL DEF Spec, ProcessedIsFinal

(* What a step may do to the evidence stored for message m.                *)
KeepsEvidence(m) ==
  /\ event'[m] # Null
  /\ event'[m].envelope = event[m].envelope
  /\ event[m].device # Null => event'[m].device = event[m].device
  /\ event[m].schema # Null => event'[m].schema = event[m].schema

(* No step does more.                                                      *)
LEMMA EvidenceStep ==
  ASSUME IngestionInv, [Next]_vars, NEW m \in Messages, Stored(m)
  PROVE  KeepsEvidence(m)
<1>1. CASE event'[m] = event[m]
  BY <1>1 DEF KeepsEvidence, Stored
<1>2. ASSUME NEW w \in Workers, m = Message(w), event[m] \in EventRow, event'[m] \in EventRow,
             SameEnvelope(event[m], req[w]), NEW st,
             event'[m] = [event[m] EXCEPT !.device = req[w].device,
                            !.schema = req[w].schema, !.status = st]
      PROVE  KeepsEvidence(m)
  BY <1>2, EventRowAssumption DEF KeepsEvidence, EventRow, SameEnvelope
<1>3. ASSUME NEW w \in Workers, InsertEvent(w) PROVE KeepsEvidence(m)
  <2>1. event'[m] = event[m]
    BY <1>3, InsertStep DEF Stored
  <2>2. QED BY <1>1, <2>1
<1>4. ASSUME NEW w \in Workers, CommitReadings(w) PROVE KeepsEvidence(m)
  <2>1. CASE m = Message(w)
    BY <1>2, <1>4, <2>1, CommitStep
  <2>2. CASE m # Message(w)
    BY <1>1, <1>4, <2>2, CommitStep
  <2>3. QED BY <2>1, <2>2
<1>5. ASSUME NEW w \in Workers, CommitFailure(w) PROVE KeepsEvidence(m)
  <2>1. CASE m = Message(w)
    BY <1>2, <1>5, <2>1, FailureStep
  <2>2. CASE m # Message(w)
    BY <1>1, <1>5, <2>2, FailureStep
  <2>3. QED BY <2>1, <2>2
<1>6. CASE event' = event
  BY <1>1, <1>6
<1>7. QED BY <1>3, <1>4, <1>5, <1>6, StepKinds DEF dbVars, EditRegistry

(* The envelope of a stored event never changes; its device and schema are *)
(* filled in at most once.                                                 *)
THEOREM EvidenceImmutable == Spec => EvidenceKept
<1> DEFINE All == \A m \in Messages : Stored(m) =>
             /\ event'[m] # Null
             /\ event'[m].envelope = event[m].envelope
             /\ event[m].device # Null => event'[m].device = event[m].device
             /\ event[m].schema # Null => event'[m].schema = event[m].schema
<1>1. IngestionInv /\ [Next]_vars => [All]_vars
  BY EvidenceStep DEF KeepsEvidence
<1>2. QED BY <1>1, Inductive, PTL DEF Spec, EvidenceKept

(* No edit changes a schema, or the identity of a device, that a stored    *)
(* event refers to.                                                        *)
THEOREM ReferencedForever == Spec => ReferencedIsFrozen
<1> DEFINE Frozen(m) ==
      /\ event[m].schema # Null => schema'[event[m].schema] = schema[event[m].schema]
      /\ event[m].device # Null =>
           /\ event[m].device \in LiveDevices'
           /\ device'[event[m].device].localId = device[event[m].device].localId
           /\ device'[event[m].device].deviceType = device[event[m].device].deviceType
<1>1. ASSUME IngestionInv, [Next]_vars, NEW m \in Messages, Stored(m) PROVE Frozen(m)
  <2>1. CASE UNCHANGED registryVars
    <3>1. event[m].device # Null => event[m].device \in LiveDevices
      BY <1>1 DEF IngestionInv, ReferencesExist
    <3>2. QED BY <2>1, <3>1 DEF registryVars, LiveDevices
  <2>2. CASE EditRegistry
    BY <1>1, <2>2, EditFreezes DEF EditRegistry
  <2> HIDE DEF Frozen
  <2>3. ASSUME NEW w \in Workers, InsertEvent(w) \/ CommitReadings(w) \/ CommitFailure(w)
        PROVE  UNCHANGED registryVars
    BY <2>3 DEF InsertEvent, CommitReadings, CommitFailure
  <2>4. QED BY <1>1, <2>1, <2>2, <2>3, StepKinds DEF Frozen
<1> DEFINE All == \A m \in Messages : Stored(m) => Frozen(m)
<1>2. IngestionInv /\ [Next]_vars => [All]_vars
  BY <1>1
<1>3. QED BY <1>2, Inductive, PTL DEF Spec, ReferencedIsFrozen

-----------------------------------------------------------------------------
(* The refinement mapping, entry by entry.                                 *)
Entry(m) == IF event[m] = Null THEN Null
            ELSE [envelope |-> event[m].envelope, status |-> event[m].status,
                  result |-> Rows(m)]
Reply(w) == IF req[w].code \in {"created", "existing"}
            THEN [envelope |-> req[w].envelope, result |-> req[w].ids]
            ELSE Null

LEMMA Mapping ==
  ASSUME IngestionInv
  PROVE  /\ Ledger = [m \in Messages |-> Entry(m)]
         /\ Replies = [w \in Workers |-> Reply(w)]
         /\ \A m \in Messages :
              /\ event[m] = Null <=> Ledger[m] = Null
              /\ event[m] # Null =>
                   Ledger[m] = [envelope |-> event[m].envelope, status |-> event[m].status,
                                result |-> Rows(m)]
<1>1. Ledger = [m \in Messages |-> Entry(m)] /\ Replies = [w \in Workers |-> Reply(w)]
  BY DEF Ledger, Replies, Entry, Reply
<1>2. ASSUME NEW m \in Messages, event[m] # Null
      PROVE  [envelope |-> event[m].envelope, status |-> event[m].status,
              result |-> Rows(m)] # Null
  <2>1. event[m] \in EventRow /\ Rows(m) \in SUBSET ReadingRow
    BY <1>2 DEF IngestionInv, TypeInv, TypeOK, Rows
  <2>2. QED BY <2>1, LedgerAssumption DEF EventRow
<1>3. QED BY <1>1, <1>2 DEF Entry

(* Replies that stay as they were or vanish are a Forget.                  *)
LEMMA ForgetStep ==
  ASSUME IngestionInv, IngestionInv', UNCHANGED <<event, readings>>,
         \A w \in Workers : Reply(w)' = Reply(w) \/ Reply(w)' = Null
  PROVE  Intake!Forget
<1>1. /\ Replies = [w \in Workers |-> Reply(w)]
      /\ Replies' = [w \in Workers |-> Reply(w)']
  BY DEF Replies, Reply
<1>2. Ledger' = Ledger
  BY DEF Ledger, Rows
<1>3. QED BY <1>1, <1>2 DEF Intake!Forget

(* A new event claims its message id.                                      *)
LEMMA ClaimStep ==
  ASSUME IngestionInv, IngestionInv', NEW w \in Workers, InsertEvent(w)
  PROVE  \E env \in Envelopes : Intake!Claim(env)
<1> DEFINE env == req[w].envelope
           e == [envelope |-> env, status |-> "received", result |-> {}]
<1>1. env \in Envelopes /\ Message(w) = env.message
  BY DEF Message, InsertEvent, At, IngestionInv, TypeInv, Engaged
<1>2. /\ Message(w) \in Messages /\ event[Message(w)] = Null
      /\ \A n \in Messages \ {Message(w)} : event'[n] = event[n]
      /\ event'[Message(w)] # Null
      /\ event'[Message(w)].envelope = req[w].envelope
      /\ event'[Message(w)].status = "received"
      /\ UNCHANGED readings
  BY InsertStep
<1>3. Rows(Message(w)) = {}
  BY <1>2 DEF IngestionInv, ReadingsComplete, Processed, Stored
<1>4. \A n : Rows(n)' = Rows(n)
  BY <1>2 DEF Rows
<1>5. \A n \in Messages : Entry(n)' = IF n = Message(w) THEN e ELSE Entry(n)
  BY <1>2, <1>3, <1>4 DEF Entry
<1>6. Ledger = [n \in Messages |-> Entry(n)] /\ Ledger' = [n \in Messages |-> Entry(n)']
  BY DEF Ledger, Entry
<1>7. Ledger' = [Ledger EXCEPT ![Message(w)] = e]
  <2> HIDE DEF e
  <2>1. QED BY <1>2, <1>5, <1>6
<1>8. Ledger[Message(w)] = Null
  BY <1>2, Mapping
<1>9. Replies' = Replies
  <2>1. /\ req \in [Workers -> Request]
        /\ req' = [req EXCEPT ![w] = [req[w] EXCEPT !.pc = "process", !.created = TRUE]]
    BY DEF InsertEvent, IngestionInv, TypeInv, TypeOK
  <2>2. \A v \in Workers : /\ req'[v].code = req[v].code /\ req'[v].ids = req[v].ids
                           /\ req'[v].envelope = req[v].envelope
    BY <2>1 DEF Request
  <2>3. QED BY <2>2 DEF Replies
<1>10. Intake!Claim(env)
  BY <1>1, <1>7, <1>8, <1>9 DEF Intake!Claim
<1>11. QED BY <1>1, <1>10

(* A committed projection completes the message and answers with it.       *)
LEMMA CompleteStep ==
  ASSUME IngestionInv, IngestionInv', NEW w \in Workers, CommitReadings(w)
  PROVE  \E m \in Messages, c \in Workers : Intake!Complete(m, c)
<1> DEFINE m == Message(w)
<1>1. /\ m \in Messages /\ ~Processed(m) /\ Rows(m) = {}
      /\ \A n \in Messages \ {m} : event'[n] = event[n] /\ Rows(n)' = Rows(n)
      /\ event[m] \in EventRow /\ event'[m] \in EventRow
      /\ event'[m] = [event[m] EXCEPT !.device = req[w].device,
                        !.schema = req[w].schema, !.status = "processed"]
      /\ SameEnvelope(event[m], req[w])
      /\ \A n : n = m => Rows(n)' = Projection(w)
  BY CommitStep
<1>2. /\ event'[m].status = "processed" /\ event'[m].envelope = event[m].envelope
      /\ event'[m] # Null /\ event[m] # Null /\ event[m].status # "processed"
      /\ event[m].envelope = req[w].envelope
  BY <1>1, EventRowAssumption DEF EventRow, Processed, Stored, SameEnvelope
<1>3. Ledger = [n \in Messages |-> Entry(n)] /\ Ledger' = [n \in Messages |-> Entry(n)']
  BY DEF Ledger, Entry
<1> HIDE DEF m
<1>4. Ledger[m] # Null /\ Ledger[m].status # "processed" /\ Ledger[m].envelope = event[m].envelope
  BY <1>1, <1>2, Mapping
<1>5. Ledger'[m] = [envelope |-> event'[m].envelope, status |-> event'[m].status,
                    result |-> Projection(w)]
  BY <1>1, <1>2, <1>3 DEF Entry
<1>6. Ledger' = [Ledger EXCEPT ![m] = Ledger'[m]]
  <2>1. \A n \in Messages \ {m} : Entry(n)' = Entry(n)
    BY <1>1 DEF Entry
  <2>2. QED BY <1>1, <1>3, <2>1
<1>7. \A n \in Messages \ {m} :
        Ledger[n] # Null => Ledger'[m].result \cap Ledger[n].result = {}
  <2> SUFFICES ASSUME NEW n \in Messages \ {m}, Ledger[n] # Null
               PROVE  Projection(w) \cap Ledger[n].result = {}
    BY <1>5
  <2>1. Ledger[n].result = Rows(n)
    BY Mapping
  <2>2. (\A r \in Projection(w) : r.message = m) /\ (\A r \in Rows(n) : r.message = n)
    BY DEF Projection, Rows, m
  <2>3. QED BY <2>1, <2>2
<1>8. Replies' = [Replies EXCEPT ![w] = [envelope |-> req[w].envelope, result |-> Projection(w)]]
  <2>1. PICK code \in {"created", "existing"} : Answer(w, code, Projection(w))
    BY DEF CommitReadings
  <2>2. /\ \A v \in Workers \ {w} : req'[v] = req[v]
        /\ req'[w].envelope = req[w].envelope
        /\ req'[w].code = code /\ req'[w].ids = Projection(w)
    <3>1. Projection(w) \in SUBSET ReadingRow
      <4>1. readings' = readings \cup Projection(w) /\ readings' \subseteq ReadingRow
        BY DEF CommitReadings, IngestionInv, TypeInv, TypeOK
      <4>2. QED BY <4>1
    <3>2. req \in [Workers -> Request] /\ code \in Codes
      BY DEF IngestionInv, TypeInv, TypeOK, Codes
    <3>3. QED BY <2>1, <3>1, <3>2, AnswerStep
  <2>3. /\ \A v \in Workers \ {w} : Reply(v)' = Reply(v)
        /\ Reply(w)' = [envelope |-> req[w].envelope, result |-> Projection(w)]
    BY <2>2 DEF Reply
  <2>4. Replies = [v \in Workers |-> Reply(v)] /\ Replies' = [v \in Workers |-> Reply(v)']
    BY DEF Replies, Reply
  <2>5. QED BY <2>3, <2>4
<1>9. Intake!Complete(m, w)
  <2>1. [envelope |-> req[w].envelope, result |-> Projection(w)]
          = [envelope |-> Ledger'[m].envelope, result |-> Ledger'[m].result]
    BY <1>2, <1>5
  <2>2. Ledger'[m].status = "processed" /\ Ledger'[m].envelope = Ledger[m].envelope
    BY <1>2, <1>4, <1>5
  <2>3. PICK n : n = m
    OBVIOUS
  <2>4. Intake!Acceptance(n)' = [envelope |-> Ledger'[m].envelope, result |-> Ledger'[m].result]
    BY <2>3 DEF Intake!Acceptance
  <2>5. Intake!Complete(n, w)
    BY <1>4, <1>6, <1>7, <1>8, <2>1, <2>2, <2>3, <2>4 DEF Intake!Complete, Intake!Rewrites
  <2>6. QED BY <2>3, <2>5
<1>10. QED BY <1>1, <1>9

(* A stored failure changes the status of its message, and nothing else.   *)
LEMMA FailStep ==
  ASSUME IngestionInv, IngestionInv', NEW w \in Workers, CommitFailure(w)
  PROVE  \E m \in Messages : Intake!Fail(m)
<1> DEFINE m == Message(w)
<1>1. /\ m \in Messages /\ ~Processed(m)
      /\ \A n \in Messages \ {m} : event'[n] = event[n]
      /\ event[m] \in EventRow /\ event'[m] \in EventRow
      /\ event'[m] = [event[m] EXCEPT !.device = req[w].device,
                        !.schema = req[w].schema, !.status = "failed"]
      /\ UNCHANGED readings
  BY FailureStep
<1>2. /\ event'[m].status = "failed" /\ event'[m].envelope = event[m].envelope
      /\ event'[m] # Null /\ event[m] # Null /\ event[m].status # "processed"
  BY <1>1, EventRowAssumption DEF EventRow, Processed, Stored
<1>3. Ledger = [n \in Messages |-> Entry(n)] /\ Ledger' = [n \in Messages |-> Entry(n)']
  BY DEF Ledger, Entry
<1>4. \A n : Rows(n)' = Rows(n)
  BY <1>1 DEF Rows
<1> HIDE DEF m
<1>5. Ledger[m] = [envelope |-> event[m].envelope, status |-> event[m].status,
                   result |-> Rows(m)] /\ Ledger[m] # Null
  BY <1>1, <1>2, Mapping
<1>6. Ledger'[m] = [envelope |-> event[m].envelope, status |-> "failed", result |-> Rows(m)]
  BY <1>1, <1>2, <1>3, <1>4 DEF Entry
<1>7. \A n \in Messages \ {m} : Ledger'[n] = Ledger[n]
  BY <1>1, <1>3, <1>4 DEF Entry
<1>8. [Ledger[m] EXCEPT !.status = "failed"] = Ledger'[m]
  BY <1>5, <1>6
<1>9. Ledger' = [Ledger EXCEPT ![m] = [Ledger[m] EXCEPT !.status = "failed"]]
  BY <1>3, <1>7, <1>8
<1>10. Replies' = Replies
  <2>1. Answer(w, "failed", {}) /\ "failed" \in Codes /\ {} \in SUBSET ReadingRow
        /\ req \in [Workers -> Request]
    BY DEF CommitFailure, Codes, IngestionInv, TypeInv, TypeOK
  <2>2. /\ \A v \in Workers \ {w} : req'[v] = req[v]
        /\ req'[w].code = "failed"
    BY <2>1, AnswerStep
  <2>3. req[w].code \notin {"created", "existing"}
    BY CodesAssumption DEF IngestionInv, Orderly, CommitFailure, MayProcess, At, Codes
  <2>4. \A v \in Workers : Reply(v)' = Reply(v)
    BY <2>2, <2>3 DEF Reply
  <2>5. Replies = [v \in Workers |-> Reply(v)] /\ Replies' = [v \in Workers |-> Reply(v)']
    BY DEF Replies, Reply
  <2>6. QED BY <2>4, <2>5
<1>11. Ledger[m].status # "processed"
  BY <1>2, <1>5
<1>12. Intake!Fail(m)
  BY <1>5, <1>9, <1>10, <1>11 DEF Intake!Fail
<1>13. QED BY <1>1, <1>12

(* A thread that only reads repeats what is stored, or forgets a reply.    *)
LEMMA RepeatStep ==
  ASSUME IngestionInv, IngestionInv', NEW w \in Workers, ReadsOnly(w)
  PROVE  (\E m \in Messages, c \in Workers : Intake!Repeat(m, c)) \/ Intake!Forget
<1>1. /\ \A v \in Workers \ {w} : req'[v] = req[v]
      /\ req'[w].code \in {"created", "existing"} =>
           /\ req'[w].envelope = req[w].envelope
           /\ Message(w) \in Messages /\ Processed(Message(w))
           /\ event[Message(w)].envelope = req[w].envelope
           /\ req'[w].ids = Rows(Message(w))
  BY ReadingThread
<1>2. UNCHANGED <<event, readings>>
  BY ReadFrame DEF dbVars
<1>3. \A v \in Workers \ {w} : Reply(v)' = Reply(v)
  BY <1>1 DEF Reply
<1>4. CASE req'[w].code \notin {"created", "existing"}
  <2>1. Reply(w)' = Null
    BY <1>4 DEF Reply
  <2>2. Intake!Forget
    BY <1>2, <1>3, <2>1, ForgetStep
  <2>3. QED BY <2>2
<1>5. CASE req'[w].code \in {"created", "existing"}
  <2> DEFINE m == Message(w)
  <2>1. /\ m \in Messages /\ event[m] # Null /\ event[m].status = "processed"
        /\ event[m].envelope = req[w].envelope
        /\ Reply(w)' = [envelope |-> req[w].envelope, result |-> Rows(m)]
    BY <1>1, <1>5 DEF Reply, Processed, Stored
  <2> HIDE DEF m
  <2>2. /\ Ledger[m] # Null
        /\ Ledger[m] = [envelope |-> event[m].envelope, status |-> event[m].status,
                        result |-> Rows(m)]
    BY <2>1, Mapping
  <2>3. Ledger' = Ledger
    BY <1>2 DEF Ledger, Rows
  <2>4. Replies = [v \in Workers |-> Reply(v)] /\ Replies' = [v \in Workers |-> Reply(v)']
    BY DEF Replies, Reply
  <2>5. Replies' = [Replies EXCEPT ![w] = Intake!Acceptance(m)]
    BY <1>3, <2>1, <2>2, <2>4 DEF Intake!Acceptance
  <2>6. Intake!Repeat(m, w)
    BY <2>1, <2>2, <2>3, <2>5 DEF Intake!Repeat
  <2>7. QED BY <2>1, <2>6
<1>6. QED BY <1>4, <1>5

(* Ingestion implements IdempotentIntake: each step is a step of the       *)
(* abstract ledger or leaves it alone.                                     *)
LEMMA IntakeInit == Init => Intake!Init
  BY CodesAssumption DEF Init, Intake!Init, Ledger, Replies, Idle, Codes

LEMMA IntakeStep ==
  ASSUME IngestionInv, IngestionInv', [Next]_vars
  PROVE  [Intake!Next]_<<Ledger, Replies>>
<1>1. ASSUME NEW w \in Workers, ReadsOnly(w) PROVE Intake!Next
  BY <1>1, RepeatStep DEF Intake!Next
<1>2. ASSUME NEW w \in Workers, InsertEvent(w) PROVE Intake!Next
  BY <1>2, ClaimStep DEF Intake!Next
<1>3. ASSUME NEW w \in Workers, CommitReadings(w) PROVE Intake!Next
  BY <1>3, CompleteStep DEF Intake!Next
<1>4. ASSUME NEW w \in Workers, CommitFailure(w) PROVE Intake!Next
  BY <1>4, FailStep DEF Intake!Next
<1>5. CASE Crash
  <2>1. UNCHANGED <<event, readings>>
    BY <1>5 DEF Crash, dbVars
  <2>2. \A w \in Workers : req'[w] = Idle
    BY <1>5 DEF Crash
  <2>3. \A w \in Workers : Reply(w)' = Null
    BY <2>2, CodesAssumption DEF Reply, Idle, Codes
  <2>4. Intake!Forget
    BY <2>1, <2>3, ForgetStep
  <2>5. QED BY <2>4 DEF Intake!Next
<1>6. CASE EditRegistry \/ UNCHANGED vars
  <2>1. UNCHANGED <<event, readings, req>>
    BY <1>6 DEF EditRegistry, vars, dbVars
  <2>2. UNCHANGED <<Ledger, Replies>>
    BY <2>1 DEF Ledger, Replies, Rows
  <2>3. QED BY <2>2
<1>7. CASE \E w \in Workers : \/ ReadsOnly(w)
                              \/ InsertEvent(w) \/ CommitReadings(w) \/ CommitFailure(w)
  <2>1. Intake!Next
    BY <1>1, <1>2, <1>3, <1>4, <1>7
  <2>2. QED BY <2>1
<1>8. QED BY <1>5, <1>6, <1>7, StepCases

THEOREM Refinement == Spec => KeepsPromise
<1>1. IngestionInv /\ IngestionInv' /\ [Next]_vars => [Intake!Next]_<<Ledger, Replies>>
  BY IntakeStep
<1>2. QED BY <1>1, IntakeInit, Inductive, PTL DEF Spec, KeepsPromise, Intake!Spec

-----------------------------------------------------------------------------
(* Edits only between requests.                                            *)
(*                                                                         *)
(* What Ingestion adds to its promise when superusers edit the             *)
(* configuration only between requests: provenance (ADR-001) and the       *)
(* acceptance of every exact retry, for any number of threads, messages,   *)
(* devices, schemas, edits and crashes.  The proof follows the objects a   *)
(* request resolved: while nobody edits, they describe the tables.         *)

(* The unique keys of the two tables, for a table value.                   *)
DeviceKeysUnique(tab) ==
  \A d, e \in Devices :
    tab[d] \in DeviceRow /\ tab[e] \in DeviceRow /\ tab[d].localId = tab[e].localId => d = e
SchemaKeysUnique(tab) ==
  \A s, t \in Schemas :
    tab[s] \in SchemaRow /\ tab[t] \in SchemaRow /\ SameSchemaKey(tab[s], tab[t]) => s = t

(* The hypothesis of what follows: no edit while a request is in flight,   *)
(* and initial tables that obey their unique keys.                         *)
QuietConfiguration ==
  /\ ~EditsDuringRequests
  /\ \A tab \in InitialDevices : DeviceKeysUnique(tab)
  /\ \A tab \in InitialSchemas : SchemaKeysUnique(tab)

SchemaKey(env, t) == [eventType |-> env.eventType, deviceType |-> t, version |-> env.version]

(* What request q has resolved is what the tables say now.                 *)
FreshRequest(q) ==
  /\ q.pc \in {"gateway", "device"} => q.device = Null
  /\ q.pc \in {"gateway", "device", "schema"} => q.schema = Null
  /\ q.pc = "schema" => q.device # Null
  /\ q.device # Null => /\ q.device \in LiveDevices
                        /\ device[q.device].localId = q.envelope.localId
                        /\ device[q.device].deviceType = q.deviceType
  /\ q.schema # Null => /\ q.device # Null
                        /\ q.schema \in LiveSchemas
                        /\ SameSchemaKey(schema[q.schema], SchemaKey(q.envelope, q.deviceType))
                        /\ schema[q.schema].length = q.length
  /\ q.pc \in {"find", "insert", "process"} =>
       /\ q.device = Null => DevicesAt(q.envelope.localId) = {}
       /\ q.device # Null /\ q.schema = Null =>
            SchemasFor(q.envelope.eventType, q.deviceType, q.envelope.version) = {}
Fresh == \A w \in Workers : InFlight(w) => FreshRequest(req[w])

(* What a stored event refers to is what its envelope names.               *)
RecordedRow(e) ==
  /\ e.device # Null => device[e.device].localId = e.envelope.localId
  /\ e.schema # Null =>
       /\ e.device # Null
       /\ SameSchemaKey(schema[e.schema], SchemaKey(e.envelope, device[e.device].deviceType))
ProjectsRow(e) == Projects(schema[e.schema].length, schema[e.schema].layout,
                           device[e.device].deviceType, e.envelope.payload)
Recorded == \A m \in Messages : Stored(m) => RecordedRow(event[m])
Projected == \A m \in Messages : Processed(m) => ProjectsRow(event[m])

Refused == \A w \in Workers : req[w].code = "idempotency_conflict" =>
             /\ ~At(w, "idle") /\ Stored(Message(w))
             /\ event[Message(w)].envelope # req[w].envelope

QuietInv ==
  /\ QuietConfiguration
  /\ DeviceKeysUnique(device) /\ SchemaKeysUnique(schema)
  /\ Fresh
  /\ Recorded
  /\ Projected
  /\ Refused

-----------------------------------------------------------------------------
(* Every edit respects the unique keys.                                    *)
LEMMA EditKeepsKeys ==
  ASSUME RegistryTypeOK, NEW ud, NEW us, Edit(ud, us),
         DeviceKeysUnique(device), SchemaKeysUnique(schema)
  PROVE  DeviceKeysUnique(device') /\ SchemaKeysUnique(schema')
<1> DEFINE Kept == DeviceKeysUnique(device') /\ SchemaKeysUnique(schema')
<1>1. ASSUME NEW d \in Devices, NEW r \in DeviceRow, LocalIdFree(d, r),
             device' = [device EXCEPT ![d] = r]
      PROVE  DeviceKeysUnique(device')
  BY <1>1 DEF RegistryTypeOK, DeviceKeysUnique, LocalIdFree, LiveDevices
<1>2. ASSUME NEW s \in Schemas, NEW r \in SchemaRow, SchemaValid(s, r),
             schema' = [schema EXCEPT ![s] = r]
      PROVE  SchemaKeysUnique(schema')
  BY <1>2 DEF RegistryTypeOK, SchemaKeysUnique, SchemaValid, LiveSchemas, SameSchemaKey
<1>3. ASSUME NEW b \in BOOLEAN, SetGatewayActive(b) PROVE Kept
  BY <1>3 DEF SetGatewayActive
<1>4. ASSUME NEW d \in Devices, DeleteDevice(d, ud) PROVE Kept
  <2>1. Deleted \notin DeviceRow
    BY RowAssumption
  <2>2. QED BY <1>4, <2>1 DEF DeleteDevice, RegistryTypeOK, DeviceKeysUnique
<1>5. ASSUME NEW d \in Devices, NEW r \in DeviceRow, CreateDevice(d, r) PROVE Kept
  BY <1>1, <1>5 DEF CreateDevice
<1>6. ASSUME NEW d \in Devices, NEW r \in DeviceRow, UpdateDevice(d, r, ud) PROVE Kept
  BY <1>1, <1>6 DEF UpdateDevice
<1>7. ASSUME NEW s \in Schemas, DeleteSchema(s, us) PROVE Kept
  <2>1. Deleted \notin SchemaRow
    BY RowAssumption
  <2>2. QED BY <1>7, <2>1 DEF DeleteSchema, RegistryTypeOK, SchemaKeysUnique
<1>8. ASSUME NEW s \in Schemas, NEW r \in SchemaRow, CreateSchema(s, r) PROVE Kept
  BY <1>2, <1>8 DEF CreateSchema
<1>9. ASSUME NEW s \in Schemas, NEW r \in SchemaRow, UpdateSchema(s, r, us) PROVE Kept
  BY <1>2, <1>9 DEF UpdateSchema
<1>10. ASSUME NEW s \in Schemas, NEW l \in Layouts, EditLayout(s, l, us) PROVE Kept
  <2>1. schema[s] \in SchemaRow
    BY <1>10 DEF EditLayout, LiveSchemas
  <2>2. [schema[s] EXCEPT !.layout = l] \in SchemaRow
    BY <2>1 DEF SchemaRow
  <2>3. schema' = [schema EXCEPT ![s] = [schema[s] EXCEPT !.layout = l]]
    BY <1>10 DEF EditLayout
  <2>4. QED BY <1>2, <1>10, <2>2, <2>3 DEF EditLayout
<1>11. QED BY <1>3, <1>4, <1>5, <1>6, <1>7, <1>8, <1>9, <1>10 DEF Edit

(* A request that finds its own envelope stored is never refused: what the *)
(* event refers to is what the request resolved.                           *)
LEMMA OwnEnvelopeAccepted ==
  ASSUME IngestionInv, QuietInv, NEW w \in Workers,
         req[w].pc \in {"find", "insert", "process"},
         event[Message(w)] # Null, ~SameEnvelope(event[Message(w)], req[w])
  PROVE  event[Message(w)].envelope # req[w].envelope
<1> DEFINE e == event[Message(w)]
           q == req[w]
<1>1. Message(w) \in Messages
  BY MessageType DEF IngestionInv, At
<1>2. FreshRequest(q)
  BY DEF QuietInv, Fresh, InFlight
<1>3. /\ RecordedRow(e)
      /\ e.device \in LiveDevices \cup {Null} /\ e.schema \in LiveSchemas \cup {Null}
  BY <1>1 DEF QuietInv, Recorded, IngestionInv, ReferencesExist, Stored
<1>4. DeviceKeysUnique(device) /\ SchemaKeysUnique(schema)
  BY DEF QuietInv
<1> SUFFICES ASSUME e.envelope = q.envelope PROVE SameEnvelope(e, q)
  OBVIOUS
<1> HIDE DEF e, q
<1>5. e.device # Null => e.device = q.device
  <2> SUFFICES ASSUME e.device # Null PROVE e.device = q.device
    OBVIOUS
  <2>1. e.device \in DevicesAt(q.envelope.localId)
    BY <1>3 DEF RecordedRow, DevicesAt
  <2>2. q.device \in LiveDevices /\ device[q.device].localId = q.envelope.localId
    BY <1>2, <2>1 DEF FreshRequest, q
  <2>3. QED BY <1>4, <2>1, <2>2 DEF DeviceKeysUnique, DevicesAt, LiveDevices
<1>6. e.schema # Null => e.schema = q.schema
  <2> SUFFICES ASSUME e.schema # Null PROVE e.schema = q.schema
    OBVIOUS
  <2>1. q.device # Null /\ device[e.device].deviceType = q.deviceType
    BY <1>2, <1>3, <1>5 DEF RecordedRow, FreshRequest
  <2>2. SameSchemaKey(schema[e.schema], SchemaKey(q.envelope, q.deviceType))
    BY <1>3, <2>1 DEF RecordedRow
  <2>3. e.schema \in SchemasFor(q.envelope.eventType, q.deviceType, q.envelope.version)
    BY <1>3, <2>2 DEF SchemasFor, SchemaKey
  <2>4. /\ q.schema \in LiveSchemas
        /\ SameSchemaKey(schema[q.schema], SchemaKey(q.envelope, q.deviceType))
    BY <1>2, <2>1, <2>3 DEF FreshRequest, q
  <2>5. SameSchemaKey(schema[e.schema], schema[q.schema])
    BY <2>2, <2>4 DEF SameSchemaKey
  <2>6. QED BY <1>3, <1>4, <2>4, <2>5 DEF SchemaKeysUnique, LiveSchemas
<1>7. QED BY <1>5, <1>6 DEF SameEnvelope

-----------------------------------------------------------------------------
(* The record q2 of a request keeps what q resolved and stays between the  *)
(* get of get_or_create and the end.                                       *)
LEMMA FreshAfter ==
  ASSUME NEW q, NEW q2, FreshRequest(q),
         q.pc \in {"find", "insert", "process"}, q2.pc \in {"find", "insert", "process"},
         q2.envelope = q.envelope, q2.device = q.device, q2.deviceType = q.deviceType,
         q2.schema = q.schema, q2.length = q.length
  PROVE  FreshRequest(q2)
BY DEF FreshRequest

(* What a step of thread w that is no write of readings leaves of its      *)
(* request: it is over, or what it resolved is fresh; and if it is refused *)
(* then by an event with another envelope.                                 *)
LEMMA QuietThread ==
  ASSUME IngestionInv, QuietInv, NEW w \in Workers, ReadsOnly(w) \/ InsertEvent(w)
  PROVE  /\ req'[w].pc \in {"idle", "answered"} \/ FreshRequest(req'[w])
         /\ req'[w].code = "idempotency_conflict" =>
              /\ req'[w].pc = "answered" /\ req'[w].envelope = req[w].envelope
              /\ Message(w) \in Messages /\ Stored(Message(w))
              /\ event[Message(w)].envelope # req[w].envelope
<1> DEFINE Good ==
      /\ req'[w].pc \in {"idle", "answered"} \/ FreshRequest(req'[w])
      /\ req'[w].code = "idempotency_conflict" =>
           /\ req'[w].pc = "answered" /\ req'[w].envelope = req[w].envelope
           /\ Message(w) \in Messages /\ Stored(Message(w))
           /\ event[Message(w)].envelope # req[w].envelope
<1>1. /\ req \in [Workers -> Request] /\ req[w] \in Request /\ readings \subseteq ReadingRow
      /\ device \in [Devices -> DeviceRow \cup {Absent, Deleted}]
      /\ schema \in [Schemas -> SchemaRow \cup {Absent, Deleted}]
  BY DEF IngestionInv, TypeInv, TypeOK, RegistryTypeOK
<1>2. Null # "idempotency_conflict"
  BY CodesAssumption DEF Codes
<1>3. ~At(w, "answered") => req[w].code = Null
  BY DEF IngestionInv, Orderly
<1>4. req[w].pc \notin {"idle", "answered"} => FreshRequest(req[w])
  BY DEF QuietInv, Fresh, InFlight
<1>5. ASSUME NEW code \in Codes \ {"idempotency_conflict"}, NEW ids \in SUBSET ReadingRow,
             Answer(w, code, ids)
      PROVE  Good
  BY <1>1, <1>5, AnswerStep
<1>6. ASSUME At(w, "find") \/ At(w, "insert") \/ At(w, "process"),
             event[Message(w)] # Null, ~SameEnvelope(event[Message(w)], req[w]),
             Answer(w, "idempotency_conflict", {})
      PROVE  Good
  <2>1. /\ req'[w].pc = "answered" /\ req'[w].envelope = req[w].envelope
    <3>1. "idempotency_conflict" \in Codes /\ {} \in SUBSET ReadingRow
      BY DEF Codes
    <3>2. QED BY <1>1, <1>6, <3>1, AnswerStep
  <2>2. event[Message(w)].envelope # req[w].envelope
    BY <1>6, OwnEnvelopeAccepted DEF At
  <2>3. Message(w) \in Messages
    BY <1>6, MessageType DEF At, IngestionInv
  <2>4. QED BY <1>6, <2>1, <2>2, <2>3 DEF Stored
<1>7. ASSUME At(w, "find") \/ At(w, "insert"), NEW pc \in {"insert", "process"}, Goto(w, pc)
      PROVE  Good
  <2>1. req'[w] = [req[w] EXCEPT !.pc = pc]
    BY <1>1, <1>7, GotoStep DEF Steps
  <2>2. /\ req'[w].pc = pc /\ req'[w].envelope = req[w].envelope
        /\ req'[w].device = req[w].device /\ req'[w].deviceType = req[w].deviceType
        /\ req'[w].schema = req[w].schema /\ req'[w].length = req[w].length
        /\ req'[w].code = req[w].code
    BY <1>1, <2>1 DEF Request
  <2>3. FreshRequest(req[w]) /\ req[w].pc \in {"find", "insert", "process"} /\ req[w].code = Null
    BY <1>3, <1>4, <1>7 DEF At
  <2>4. FreshRequest(req'[w])
    BY <2>2, <2>3, FreshAfter
  <2>5. QED BY <1>2, <2>2, <2>3, <2>4
<1>8. ASSUME At(w, "find") \/ At(w, "insert"), event[Message(w)] # Null,
             AssertSameEnvelope(w, event[Message(w)])
      PROVE  Good
  <2>1. CASE SameEnvelope(event[Message(w)], req[w])
    BY <1>7, <1>8, <2>1 DEF AssertSameEnvelope
  <2>2. CASE ~SameEnvelope(event[Message(w)], req[w])
    BY <1>6, <1>8, <2>2 DEF AssertSameEnvelope
  <2>3. QED BY <2>1, <2>2
<1>9. ASSUME NEW env \in Envelopes, Receive(w, env) PROVE Good
  <2>1. CASE gatewayActive
    <3>1. req'[w] = [Idle EXCEPT !.pc = "gateway", !.envelope = env]
      BY <1>1, <1>9, <2>1 DEF Receive
    <3>2. /\ req'[w].pc = "gateway" /\ req'[w].device = Null /\ req'[w].schema = Null
          /\ req'[w].code = Null
      BY <3>1 DEF Idle
    <3>3. QED BY <1>2, <3>2 DEF FreshRequest
  <2>2. CASE ~gatewayActive
    BY <1>1, <1>9, <2>2 DEF Receive, Idle
  <2>3. QED BY <2>1, <2>2
<1>10. CASE Deliver(w)
  BY <1>1, <1>2, <1>10 DEF Deliver, Idle
<1>11. CASE CheckRequest(w)
  <2>1. CASE Rejection(req[w].envelope) = Null
    <3>1. req'[w] = [req[w] EXCEPT !.pc = "device"]
      BY <1>1, <1>11, <2>1, GotoStep DEF CheckRequest, Steps
    <3>2. /\ req'[w].pc = "device" /\ req'[w].device = req[w].device
          /\ req'[w].schema = req[w].schema /\ req'[w].code = req[w].code
      BY <1>1, <3>1 DEF Request
    <3>3. req[w].device = Null /\ req[w].schema = Null /\ req[w].code = Null
      BY <1>3, <1>4, <1>11 DEF CheckRequest, At, FreshRequest
    <3>4. QED BY <1>2, <3>2, <3>3 DEF FreshRequest
  <2>2. CASE Rejection(req[w].envelope) # Null
    <3>1. Rejection(req[w].envelope) \in Codes \ {"idempotency_conflict"}
      BY <2>2 DEF Rejection, Codes
    <3>2. QED BY <1>5, <1>11, <2>2, <3>1 DEF CheckRequest
  <2>3. QED BY <2>1, <2>2
<1>12. CASE ResolveDevice(w)
  <2>1. req[w].device = Null /\ req[w].schema = Null /\ req[w].code = Null
    BY <1>3, <1>4, <1>12 DEF ResolveDevice, At, FreshRequest
  <2>2. CASE DevicesAt(req[w].envelope.localId) = {}
    <3>1. req'[w] = [req[w] EXCEPT !.pc = "find"]
      BY <1>1, <1>12, <2>2, GotoStep DEF ResolveDevice, Steps
    <3>2. /\ req'[w].pc = "find" /\ req'[w].device = Null /\ req'[w].schema = Null
          /\ req'[w].code = Null /\ req'[w].envelope = req[w].envelope
      BY <1>1, <2>1, <3>1 DEF Request
    <3>3. QED BY <1>2, <2>2, <3>2 DEF FreshRequest
  <2>3. ASSUME NEW d \in DevicesAt(req[w].envelope.localId),
               req' = [req EXCEPT ![w].pc = "schema", ![w].device = d,
                               ![w].active = device[d].active,
                               ![w].deviceType = device[d].deviceType]
        PROVE  Good
    <3>1. /\ req'[w].pc = "schema" /\ req'[w].device = d /\ req'[w].schema = Null
          /\ req'[w].deviceType = device[d].deviceType
          /\ req'[w].code = Null /\ req'[w].envelope = req[w].envelope
      BY <1>1, <2>1, <2>3 DEF Request
    <3>2. d \in LiveDevices /\ device[d].localId = req[w].envelope.localId /\ d # Null
      BY RegistryAssumption DEF DevicesAt, LiveDevices
    <3>3. QED BY <1>2, <3>1, <3>2 DEF FreshRequest
  <2>4. QED BY <1>12, <2>2, <2>3 DEF ResolveDevice
<1>13. CASE ResolveSchema(w)
  <2> DEFINE env == req[w].envelope
             found == SchemasFor(env.eventType, req[w].deviceType, env.version)
  <2>1. /\ req[w].device # Null /\ req[w].schema = Null /\ req[w].code = Null
        /\ req[w].device \in LiveDevices
        /\ device[req[w].device].localId = env.localId
        /\ device[req[w].device].deviceType = req[w].deviceType
    BY <1>3, <1>4, <1>13 DEF ResolveSchema, At, FreshRequest
  <2>2. CASE found = {}
    <3>1. req'[w] = [req[w] EXCEPT !.pc = "find"]
      BY <1>1, <1>13, <2>2, GotoStep DEF ResolveSchema, Steps
    <3>2. /\ req'[w].pc = "find" /\ req'[w].device = req[w].device /\ req'[w].schema = Null
          /\ req'[w].deviceType = req[w].deviceType
          /\ req'[w].code = Null /\ req'[w].envelope = env
      BY <1>1, <2>1, <3>1 DEF Request
    <3>3. QED BY <1>2, <2>1, <2>2, <3>2 DEF FreshRequest
  <2>3. ASSUME NEW s \in found,
               req' = [req EXCEPT ![w].pc = "find", ![w].schema = s,
                                   ![w].length = schema[s].length]
        PROVE  Good
    <3>1. /\ req'[w].pc = "find" /\ req'[w].device = req[w].device /\ req'[w].schema = s
          /\ req'[w].deviceType = req[w].deviceType /\ req'[w].length = schema[s].length
          /\ req'[w].code = Null /\ req'[w].envelope = env
      BY <1>1, <2>1, <2>3 DEF Request
    <3>2. /\ s \in LiveSchemas /\ s # Null
          /\ SameSchemaKey(schema[s], SchemaKey(env, req[w].deviceType))
      BY RegistryAssumption DEF SchemasFor, SchemaKey, LiveSchemas
    <3>3. QED BY <1>2, <2>1, <3>1, <3>2 DEF FreshRequest
  <2>4. QED BY <1>13, <2>2, <2>3 DEF ResolveSchema
<1>14. CASE FindEvent(w)
  BY <1>7, <1>8, <1>14 DEF FindEvent
<1>15. CASE InsertLost(w)
  BY <1>8, <1>15 DEF InsertLost
<1>16. CASE InsertEvent(w)
  <2>1. /\ req'[w].pc = "process" /\ req'[w].envelope = req[w].envelope
        /\ req'[w].device = req[w].device /\ req'[w].deviceType = req[w].deviceType
        /\ req'[w].schema = req[w].schema /\ req'[w].length = req[w].length
        /\ req'[w].code = req[w].code
    BY <1>1, <1>16 DEF InsertEvent, Request
  <2>2. FreshRequest(req[w]) /\ req[w].pc \in {"find", "insert", "process"} /\ req[w].code = Null
    BY <1>3, <1>4, <1>16 DEF InsertEvent, At
  <2>3. FreshRequest(req'[w])
    BY <2>1, <2>2, FreshAfter
  <2>4. QED BY <1>2, <2>1, <2>2, <2>3
<1>17. CASE AbortDangling(w) \/ DatabaseLocked(w)
  BY <1>5, <1>17 DEF AbortDangling, DatabaseLocked, Codes
<1>18. CASE RefuseEnvelope(w)
  <2>1. event[Message(w)] # Null
    BY <1>18 DEF RefuseEnvelope, At, IngestionInv, TypeInv, Engaged
  <2>2. QED BY <1>6, <1>18, <2>1 DEF RefuseEnvelope
<1>19. CASE ReturnProcessed(w)
  <2>1. Rows(Message(w)) \in SUBSET ReadingRow
    BY <1>1 DEF Rows
  <2>2. QED BY <1>5, <1>19, <2>1 DEF ReturnProcessed, Codes
<1>20. QED BY <1>9, <1>10, <1>11, <1>12, <1>13, <1>14, <1>15, <1>16, <1>17, <1>18, <1>19
         DEF ReadsOnly

-----------------------------------------------------------------------------
(* A step of thread w that leaves the configuration alone keeps every      *)
(* request fresh if it keeps that of w fresh.                              *)
LEMMA FreshFrame ==
  ASSUME Fresh, UNCHANGED registryVars, NEW w \in Workers,
         \A v \in Workers \ {w} : req'[v] = req[v],
         req'[w].pc \in {"idle", "answered"} \/ FreshRequest(req'[w])
  PROVE  Fresh'
<1> SUFFICES ASSUME NEW v \in Workers, req'[v].pc \notin {"idle", "answered"}
             PROVE  FreshRequest(req[v])'
  BY DEF Fresh, InFlight
<1>1. FreshRequest(req'[v])
  BY DEF Fresh, InFlight
<1>2. QED BY <1>1
        DEF FreshRequest, registryVars, LiveDevices, LiveSchemas, DevicesAt, SchemasFor

(* What a step that answers a request with another code leaves of it.      *)
LEMMA AnswerQuiet ==
  ASSUME IngestionInv, NEW w \in Workers, CommitReadings(w) \/ CommitFailure(w)
  PROVE  /\ \A v \in Workers \ {w} : req'[v] = req[v]
         /\ req'[w].pc = "answered" /\ req'[w].code # "idempotency_conflict"
<1>1. req \in [Workers -> Request] /\ readings \subseteq ReadingRow
  BY DEF IngestionInv, TypeInv, TypeOK
<1>2. ASSUME NEW code \in Codes \ {"idempotency_conflict"}, NEW ids \in SUBSET ReadingRow,
             Answer(w, code, ids)
      PROVE  /\ \A v \in Workers \ {w} : req'[v] = req[v]
             /\ req'[w].pc = "answered" /\ req'[w].code # "idempotency_conflict"
  BY <1>1, <1>2, AnswerStep
<1>3. CASE CommitReadings(w)
  <2>1. Projection(w) \in SUBSET ReadingRow
    <3>1. readings' \subseteq ReadingRow
      BY <1>3, WriteTypes DEF IngestionInv, TypeInv, TypeOK
    <3>2. QED BY <1>3, <3>1 DEF CommitReadings
  <2>2. PICK code \in {"created", "existing"} : Answer(w, code, Projection(w))
    BY <1>3 DEF CommitReadings
  <2>3. QED BY <1>2, <2>1, <2>2 DEF Codes
<1>4. CASE CommitFailure(w)
  BY <1>2, <1>4 DEF CommitFailure, Codes
<1>5. QED BY <1>3, <1>4

(* Requests stay fresh: threads look up what is there, and edits wait.     *)
LEMMA FreshStep == ASSUME IngestionInv, QuietInv, [Next]_vars PROVE Fresh'
<1>1. Fresh /\ ~EditsDuringRequests
  BY DEF QuietInv, QuietConfiguration
<1>2. ASSUME NEW w \in Workers, ReadsOnly(w) PROVE Fresh'
  BY <1>1, <1>2, ReadFrame, ReadingThread, QuietThread, FreshFrame
<1>3. ASSUME NEW w \in Workers, InsertEvent(w) PROVE Fresh'
  <2>1. UNCHANGED registryVars /\ \A v \in Workers \ {w} : req'[v] = req[v]
    BY <1>3 DEF InsertEvent, IngestionInv, TypeInv, TypeOK
  <2>2. QED BY <1>1, <1>3, <2>1, QuietThread, FreshFrame
<1>4. ASSUME NEW w \in Workers, CommitReadings(w) \/ CommitFailure(w) PROVE Fresh'
  BY <1>1, <1>4, AnswerQuiet, FreshFrame DEF CommitReadings, CommitFailure
<1>5. CASE Crash
  BY <1>5 DEF Crash, Fresh, InFlight, Idle
<1>6. CASE EditRegistry
  BY <1>1, <1>6 DEF EditRegistry, Fresh, InFlight
<1>7. CASE UNCHANGED vars
  BY <1>1, <1>7 DEF vars, registryVars, Fresh, InFlight, FreshRequest, LiveDevices, LiveSchemas,
                    DevicesAt, SchemasFor
<1>8. QED BY <1>2, <1>3, <1>4, <1>5, <1>6, <1>7, StepCases

(* A refusal stays justified: the envelope stored with a message is final. *)
LEMMA RefusedStep == ASSUME IngestionInv, QuietInv, [Next]_vars PROVE Refused'
<1> SUFFICES ASSUME NEW v \in Workers, req'[v].code = "idempotency_conflict"
             PROVE  /\ req'[v].pc # "idle" /\ Stored(Message(v))'
                    /\ event'[Message(v)'].envelope # req'[v].envelope
  BY DEF Refused, At
<1> DEFINE Just == /\ req'[v].pc # "idle" /\ Stored(Message(v))'
                   /\ event'[Message(v)'].envelope # req'[v].envelope
<1>1. ASSUME NEW m \in Messages, Stored(m), event[m].envelope # req[v].envelope,
             m = Message(v), req'[v].envelope = req[v].envelope, req'[v].pc # "idle"
      PROVE  Just
  BY <1>1, EvidenceStep DEF KeepsEvidence, Stored, Message
<1>2. ASSUME req'[v] = req[v] PROVE Just
  <2>1. /\ ~At(v, "idle") /\ Stored(Message(v))
        /\ event[Message(v)].envelope # req[v].envelope
    BY <1>2 DEF QuietInv, Refused
  <2>2. Message(v) \in Messages
    BY <2>1, MessageType DEF IngestionInv
  <2>3. QED BY <1>1, <1>2, <2>1, <2>2 DEF At
<1>3. ASSUME NEW w \in Workers, ReadsOnly(w) PROVE Just
  <2>1. CASE v # w
    BY <1>2, <1>3, <2>1, ReadingThread
  <2>2. CASE v = w
    BY <1>1, <1>3, <2>2, QuietThread
  <2>3. QED BY <2>1, <2>2
<1>4. ASSUME NEW w \in Workers, InsertEvent(w) PROVE Just
  <2>1. CASE v # w
    BY <1>2, <1>4, <2>1 DEF InsertEvent, IngestionInv, TypeInv, TypeOK
  <2>2. CASE v = w
    BY <1>1, <1>4, <2>2, QuietThread
  <2>3. QED BY <2>1, <2>2
<1>5. ASSUME NEW w \in Workers, CommitReadings(w) \/ CommitFailure(w) PROVE Just
  BY <1>2, <1>5, AnswerQuiet
<1>6. CASE Crash
  <2>1. req'[v] = Idle /\ Null # "idempotency_conflict"
    BY <1>6, CodesAssumption DEF Crash, Codes
  <2>2. QED BY <2>1 DEF Idle
<1>7. CASE EditRegistry \/ UNCHANGED vars
  <2>1. req' = req
    BY <1>7 DEF EditRegistry, vars
  <2>2. QED BY <1>2, <2>1
<1> HIDE DEF Just
<1>8. Just
  <2>1. CASE \E w \in Workers : \/ ReadsOnly(w)
                                \/ InsertEvent(w) \/ CommitReadings(w) \/ CommitFailure(w)
    BY <1>3, <1>4, <1>5, <2>1
  <2>2. CASE Crash \/ EditRegistry \/ UNCHANGED vars
    BY <1>6, <1>7, <2>2 DEF Just
  <2>3. QED BY <2>1, <2>2, StepCases
<1>9. QED BY <1>8 DEF Just

(* What is recorded with an event, and that a processed event projects:    *)
(* true of what a fresh request stores, and frozen from then on.           *)
LEMMA RecordedStep ==
  ASSUME IngestionInv, QuietInv, [Next]_vars
  PROVE  Recorded' /\ Projected'
<1> DEFINE Sound(m) == /\ Stored(m) => RecordedRow(event[m])
                       /\ Processed(m) => ProjectsRow(event[m])
<1> SUFFICES ASSUME NEW m \in Messages PROVE Sound(m)'
  BY DEF Recorded, Projected
<1>1. Sound(m)
  BY DEF QuietInv, Recorded, Projected
<1>2. ASSUME UNCHANGED <<device, schema>>, event'[m] = event[m] PROVE Sound(m)'
  BY <1>1, <1>2 DEF RecordedRow, ProjectsRow, Stored, Processed
<1>3. CASE EditRegistry
  <2>1. UNCHANGED event /\ Edit(UsedDevices, UsedSchemas)
    BY <1>3 DEF EditRegistry, dbVars
  <2>2. Stored(m) =>
          /\ event[m].schema # Null => schema'[event[m].schema] = schema[event[m].schema]
          /\ event[m].device # Null =>
               /\ device'[event[m].device].localId = device[event[m].device].localId
               /\ device'[event[m].device].deviceType = device[event[m].device].deviceType
    BY <2>1, EditFreezes
  <2>3. Processed(m) => event[m].device # Null /\ event[m].schema # Null
    BY DEF IngestionInv, Orderly
  <2>4. Stored(m)' => RecordedRow(event[m])'
    BY <1>1, <2>1, <2>2 DEF RecordedRow, Stored
  <2>5. Processed(m)' => ProjectsRow(event[m])'
    BY <1>1, <2>1, <2>2, <2>3 DEF ProjectsRow, Processed, Stored
  <2>6. QED BY <2>4, <2>5
<1>4. ASSUME NEW w \in Workers, m = Message(w), FreshRequest(req[w]),
             UNCHANGED <<device, schema>>,
             event'[m].envelope = req[w].envelope, event'[m].device = req[w].device,
             event'[m].schema = req[w].schema
      PROVE  RecordedRow(event[m])'
  BY <1>4 DEF FreshRequest, RecordedRow
<1>5. \A w \in Workers : InFlight(w) => FreshRequest(req[w])
  BY DEF QuietInv, Fresh
<1>6. ASSUME NEW w \in Workers, InsertEvent(w) PROVE Sound(m)'
  <2>1. CASE m # Message(w)
    BY <1>2, <1>6, <2>1, InsertStep DEF registryVars
  <2>2. CASE m = Message(w)
    <3>1. event'[m].status = "received" /\ RecordedRow(event[m])'
      BY <1>4, <1>5, <1>6, <2>2, InsertStep DEF InsertEvent, At, InFlight, registryVars
    <3>2. QED BY <3>1 DEF Processed
  <2>3. QED BY <2>1, <2>2
<1>7. ASSUME NEW w \in Workers, CommitReadings(w) PROVE Sound(m)'
  <2>1. CASE m # Message(w)
    BY <1>2, <1>7, <2>1, CommitStep DEF registryVars
  <2>2. CASE m = Message(w)
    <3>1. /\ event[m] \in EventRow /\ event[m].envelope = req[w].envelope
          /\ event'[m] = [event[m] EXCEPT !.device = req[w].device,
                            !.schema = req[w].schema, !.status = "processed"]
          /\ UNCHANGED <<device, schema>>
      BY <1>7, <2>2, CommitStep DEF registryVars, SameEnvelope
    <3>2. /\ event'[m].envelope = req[w].envelope /\ event'[m].device = req[w].device
          /\ event'[m].schema = req[w].schema
      BY <3>1 DEF EventRow
    <3>3. FreshRequest(req[w])
      BY <1>5, <1>7 DEF CommitReadings, MayProcess, At, InFlight
    <3>4. ProjectsRow(event[m])'
      <4>1. Projects(req[w].length, schema[req[w].schema].layout,
                     device[req[w].device].deviceType, req[w].envelope.payload)
            /\ req[w].schema # Null
        BY <1>7 DEF CommitReadings, Processable
      <4>2. req[w].length = schema[req[w].schema].length
        BY <3>3, <4>1 DEF FreshRequest
      <4>3. QED BY <3>1, <3>2, <4>1, <4>2 DEF ProjectsRow
    <3>5. QED BY <1>4, <2>2, <3>1, <3>2, <3>3, <3>4
  <2>3. QED BY <2>1, <2>2
<1>8. ASSUME NEW w \in Workers, CommitFailure(w) PROVE Sound(m)'
  <2>1. CASE m # Message(w)
    BY <1>2, <1>8, <2>1, FailureStep DEF registryVars
  <2>2. CASE m = Message(w)
    <3>1. /\ event[m] \in EventRow /\ event[m].envelope = req[w].envelope
          /\ event'[m] = [event[m] EXCEPT !.device = req[w].device,
                            !.schema = req[w].schema, !.status = "failed"]
          /\ UNCHANGED <<device, schema>>
      BY <1>8, <2>2, FailureStep DEF registryVars, SameEnvelope
    <3>2. /\ event'[m].envelope = req[w].envelope /\ event'[m].device = req[w].device
          /\ event'[m].schema = req[w].schema /\ event'[m].status = "failed"
      BY <3>1 DEF EventRow
    <3>3. FreshRequest(req[w])
      BY <1>5, <1>8 DEF CommitFailure, MayProcess, At, InFlight
    <3>4. QED BY <1>4, <2>2, <3>1, <3>2, <3>3 DEF Processed
  <2>3. QED BY <2>1, <2>2
<1>9. CASE UNCHANGED <<registryVars, dbVars>>
  BY <1>2, <1>9 DEF registryVars, dbVars
<1> HIDE DEF Sound
<1>10. QED BY <1>3, <1>6, <1>7, <1>8, <1>9, StepKinds

(* The unique keys: edits respect them and requests do not write the       *)
(* tables.                                                                 *)
LEMMA KeysStep ==
  ASSUME IngestionInv, QuietInv, [Next]_vars
  PROVE  DeviceKeysUnique(device') /\ SchemaKeysUnique(schema')
<1>1. DeviceKeysUnique(device) /\ SchemaKeysUnique(schema) /\ RegistryTypeOK
  BY DEF QuietInv, IngestionInv, TypeInv, TypeOK
<1>2. CASE EditRegistry
  BY <1>1, <1>2, EditKeepsKeys DEF EditRegistry
<1>3. CASE UNCHANGED registryVars
  BY <1>1, <1>3 DEF registryVars
<1>4. ASSUME NEW w \in Workers, InsertEvent(w) \/ CommitReadings(w) \/ CommitFailure(w)
      PROVE  UNCHANGED registryVars
  BY <1>4 DEF InsertEvent, CommitReadings, CommitFailure
<1>5. QED BY <1>2, <1>3, <1>4, StepKinds

-----------------------------------------------------------------------------
LEMMA QuietInit == QuietConfiguration /\ Init => QuietInv
<1> SUFFICES ASSUME QuietConfiguration, Init PROVE QuietInv
  OBVIOUS
<1>1. DeviceKeysUnique(device) /\ SchemaKeysUnique(schema)
  BY DEF Init, QuietConfiguration
<1>2. Fresh /\ Recorded /\ Projected
  BY DEF Init, Fresh, InFlight, Idle, Recorded, Projected, Processed, Stored
<1>3. Null # "idempotency_conflict"
  BY CodesAssumption DEF Codes
<1>4. Refused
  BY <1>3 DEF Init, Idle, Refused
<1>5. QED BY <1>1, <1>2, <1>4 DEF QuietInv

LEMMA QuietStep == IngestionInv /\ QuietInv /\ [Next]_vars => QuietInv'
<1> SUFFICES ASSUME IngestionInv, QuietInv, [Next]_vars PROVE QuietInv'
  OBVIOUS
<1>1. QuietConfiguration'
  BY DEF QuietInv, QuietConfiguration, DeviceKeysUnique, SchemaKeysUnique
<1>2. DeviceKeysUnique(device)' /\ SchemaKeysUnique(schema)'
  BY KeysStep DEF DeviceKeysUnique, SchemaKeysUnique
<1>3. QED BY <1>1, <1>2, FreshStep, RecordedStep, RefusedStep DEF QuietInv

LEMMA QuietInductive == QuietConfiguration /\ Spec => []QuietInv
<1>1. QED BY QuietInit, QuietStep, Inductive, PTL DEF Spec

(* Schema versions explain historical readings (ADR-001): while edits wait *)
(* for the requests in flight, a processed event's device and schema are   *)
(* for ever those its envelope names, and its payload projects under them. *)
THEOREM ReadingsExplained == QuietConfiguration /\ Spec => []Provenance
<1>1. IngestionInv /\ QuietInv => Provenance
  <2> SUFFICES ASSUME IngestionInv, QuietInv, NEW m \in Messages, Processed(m)
               PROVE  /\ device[event[m].device].localId = event[m].envelope.localId
                      /\ SameSchemaKey(schema[event[m].schema],
                            [eventType |-> event[m].envelope.eventType,
                             deviceType |-> device[event[m].device].deviceType,
                             version |-> event[m].envelope.version])
                      /\ Projects(schema[event[m].schema].length, schema[event[m].schema].layout,
                                  device[event[m].device].deviceType, event[m].envelope.payload)
    BY DEF Provenance
  <2>1. event[m].device # Null /\ event[m].schema # Null
    BY DEF IngestionInv, Orderly
  <2>2. RecordedRow(event[m]) /\ ProjectsRow(event[m])
    BY DEF QuietInv, Recorded, Projected, Processed
  <2>3. QED BY <2>1, <2>2 DEF RecordedRow, ProjectsRow, SchemaKey
<1>2. QED BY <1>1, Inductive, QuietInductive, PTL

(* An exact retry is never answered 409: while edits wait for the requests *)
(* in flight, only another envelope under the same message id is.          *)
THEOREM RetryNeverRefused == QuietConfiguration /\ Spec => []ExactRetryAccepted
<1>1. QuietInv => ExactRetryAccepted
  BY DEF QuietInv, Refused, ExactRetryAccepted
<1>2. QED BY <1>1, QuietInductive, PTL
=============================================================================
