----------------------------- MODULE Ingestion -----------------------------
(***************************************************************************)
(* Raw-first, idempotent ingestion: ingest_event and POST /api/v1/ingest.  *)
(*                                                                         *)
(* Gunicorn threads (Workers) serve requests concurrently.  Outside        *)
(* _process_raw_event every query is a transaction of its own, so the      *)
(* gateway, device and schema a request resolves are remembered objects    *)
(* that may be stale when they are used: req[w] keeps what was read.       *)
(* _process_raw_event is one SQLite transaction: select_for_update locks   *)
(* nothing there, but a transaction that commits saw no commit of another  *)
(* one since its first read, and one that would have seen one fails with   *)
(* "database is locked" (DatabaseLocked).  It is therefore a single step,  *)
(* one action per way it can end.                                          *)
(***************************************************************************)
EXTENDS Registry

CONSTANTS
  Workers,               \* threads of the one Gunicorn worker process
  Messages,              \* message ids of the gateway
  Envelopes,             \* the requests that gateways send
  MaxPayload,            \* MAX_PAYLOAD_BYTES
  InitialDevices,        \* the device tables a behaviour may start from
  InitialSchemas,        \* the schema tables a behaviour may start from
  EditsDuringRequests,   \* superusers edit while requests are in flight
  MaxEdits,              \* bound on the number of edits
  MaxFaults              \* bound on crashes and failed database locks

(* The identity of a request; message stands for (gateway, message_id).    *)
(* The event type named by a request may not exist: Null.                  *)
Envelope == [message : Messages, localId : LocalIds,
             eventType : EventTypes \cup {Null},
             version : Versions, payload : Payloads]

ASSUME IngestionAssumption ==
  /\ Envelopes \subseteq Envelope
  /\ Null \notin Envelopes \cup EventTypes
  /\ MaxPayload \in Nat /\ MaxEdits \in Nat /\ MaxFaults \in Nat
  /\ EditsDuringRequests \in BOOLEAN
  /\ InitialDevices \subseteq [Devices -> DeviceRow \cup {Absent, Deleted}]
  /\ InitialSchemas \subseteq [Schemas -> SchemaRow \cup {Absent, Deleted}]

EventRow == [envelope : Envelopes, device : Devices \cup {Null},
             schema : Schemas \cup {Null},
             status : {"received", "processed", "failed"}]

ASSUME EventRowAssumption == Null \notin EventRow

VARIABLES
  event,      \* event[m]: the RawEvent stored for message m, or Null
  readings,   \* the ParameterReading rows
  nextBatch,  \* AUTOINCREMENT of readings, one number per transaction
  req,        \* req[w]: the request thread w is serving
  created201, \* history: the number of 201 responses per message
  edits, faults

vars == <<registryVars, event, readings, nextBatch, req, created201, edits, faults>>
dbVars == <<event, readings, nextBatch>>

-----------------------------------------------------------------------------
(* A request: the local variables of ingest_event and, once it is          *)
(* answered, the response.  deviceType and active are the columns of the   *)
(* device object, length is the one of the schema object.                  *)
Steps == {"idle", "gateway", "device", "schema", "find", "insert", "process",
          "answered"}
Codes == {"created", "existing", "unauthorized", "invalid_request",
          "inactive_gateway", "unknown_event_type", "idempotency_conflict",
          "failed", "server_error"}

ASSUME CodesAssumption == Null \notin Codes

ReadingRow == [batch : Nat, message : Messages, device : Devices,
               parameter : Parameters]
Request == [pc : Steps, envelope : Envelopes \cup {Null},
            device : Devices \cup {Null}, active : BOOLEAN,
            deviceType : DeviceTypes \cup {Null},
            schema : Schemas \cup {Null}, length : Lengths \cup {Null},
            created : BOOLEAN, code : Codes \cup {Null},
            ids : SUBSET ReadingRow]
Idle == [pc |-> "idle", envelope |-> Null, device |-> Null, active |-> FALSE,
         deviceType |-> Null, schema |-> Null, length |-> Null,
         created |-> FALSE, code |-> Null, ids |-> {}]

At(w, pc) == req[w].pc = pc
Message(w) == req[w].envelope.message
Goto(w, pc) == req' = [req EXCEPT ![w].pc = pc]
(* The response; the local variables of the request are gone.              *)
Answer(w, code, ids) ==
  req' = [req EXCEPT ![w] = [Idle EXCEPT !.pc = "answered",
                                         !.envelope = req[w].envelope,
                                         !.code = code, !.ids = ids]]

Rows(m) == {r \in readings : r.message = m}
(* The rows that raw events (and so readings) refer to.                    *)
UsedSchemasByReadings ==  \* mutant: a failed event does not freeze its schema
  {event[m].schema : m \in {n \in Messages : Rows(n) # {}}}
UsedDevices == {event[m].device : m \in {n \in Messages : event[n] # Null}}
UsedSchemas == {event[m].schema : m \in {n \in Messages : event[n] # Null}}

-----------------------------------------------------------------------------
(* A request arrives and GatewayTokenAuth looks the active gateway up.     *)
Receive(w, env) ==
  /\ At(w, "idle")
  /\ IF gatewayActive
     THEN req' = [req EXCEPT ![w] = [Idle EXCEPT !.pc = "gateway", !.envelope = env]]
     ELSE req' = [req EXCEPT ![w] = [Idle EXCEPT !.pc = "answered", !.envelope = env,
                                                 !.code = "unauthorized"]]
  /\ UNCHANGED <<registryVars, dbVars, created201, edits, faults>>

(* _validate_request, _get_gateway and _get_event_type, in this order.     *)
Rejection(env) ==
  IF Size[env.payload] > MaxPayload THEN "invalid_request"
  ELSE IF ~gatewayActive THEN "inactive_gateway"
  ELSE IF env.eventType \notin EventTypes THEN "unknown_event_type"
  ELSE Null
CheckRequest(w) ==
  /\ At(w, "gateway")
  /\ IF Rejection(req[w].envelope) = Null
     THEN Goto(w, "device")
     ELSE Answer(w, Rejection(req[w].envelope), {})
  /\ UNCHANGED <<registryVars, dbVars, created201, edits, faults>>

ResolveDevice(w) ==
  /\ At(w, "device")
  /\ IF DevicesAt(req[w].envelope.localId) = {}
     THEN Goto(w, "find")
     ELSE \E d \in DevicesAt(req[w].envelope.localId) :
            req' = [req EXCEPT ![w].pc = "schema", ![w].device = d,
                               ![w].active = device[d].active,
                               ![w].deviceType = device[d].deviceType]
  /\ UNCHANGED <<registryVars, dbVars, created201, edits, faults>>

ResolveSchema(w) ==
  /\ At(w, "schema")
  /\ LET env == req[w].envelope
         found == SchemasFor(env.eventType, req[w].deviceType, env.version)
     IN  IF found = {}
         THEN Goto(w, "find")
         ELSE \E s \in found :
                req' = [req EXCEPT ![w].pc = "find", ![w].schema = s,
                                   ![w].length = schema[s].length]
  /\ UNCHANGED <<registryVars, dbVars, created201, edits, faults>>

SameEnvelopeButPayload(e, q) ==  \* mutant: the payload is not compared
  /\ [e.envelope EXCEPT !.payload = q.envelope.payload] = q.envelope
  /\ e.device # Null => e.device = q.device
  /\ e.schema # Null => e.schema = q.schema
SameEnvelopeOrUnresolved(e, q) ==  \* mutant: an unresolved column must stay unresolved
  /\ e.envelope = q.envelope
  /\ e.device = q.device
  /\ e.schema = q.schema
(* _assert_same_envelope, for the row e and what request q resolved.       *)
SameEnvelope(e, q) ==
  /\ e.envelope = q.envelope
  /\ e.device # Null => e.device = q.device
  /\ e.schema # Null => e.schema = q.schema

(* The row e was read: refuse the request or go on to process it.          *)
AssertSameEnvelope(w, e) ==
  IF SameEnvelope(e, req[w]) THEN Goto(w, "process")
                             ELSE Answer(w, "idempotency_conflict", {})

(* get_or_create: the get.                                                 *)
FindEvent(w) ==
  /\ At(w, "find")
  /\ IF event[Message(w)] = Null THEN Goto(w, "insert")
                                 ELSE AssertSameEnvelope(w, event[Message(w)])
  /\ UNCHANGED <<registryVars, dbVars, created201, edits, faults>>

(* The resolved device or schema was deleted since: storing a reference to *)
(* it fails the deferred foreign key check at COMMIT.                      *)
Dangling(w) == \/ req[w].device # Null /\ req[w].device \notin LiveDevices
               \/ req[w].schema # Null /\ req[w].schema \notin LiveSchemas

(* get_or_create: the create.  The unique key decides first (IntegrityError *)
(* and a second get), then the foreign keys.                               *)
InsertWithoutUniqueKey(w) ==  \* mutant: no uniq_gateway_message_id
  /\ At(w, "insert")
  /\ ~Dangling(w)
  /\ event' = [event EXCEPT ![Message(w)] =
                 [envelope |-> req[w].envelope, device |-> req[w].device,
                  schema |-> req[w].schema, status |-> "received"]]
  /\ req' = [req EXCEPT ![w].pc = "process", ![w].created = TRUE]
  /\ UNCHANGED <<registryVars, readings, nextBatch, created201, edits, faults>>
InsertEvent(w) ==
  /\ At(w, "insert")
  /\ event[Message(w)] = Null
  /\ ~Dangling(w)
  /\ event' = [event EXCEPT ![Message(w)] =
                 [envelope |-> req[w].envelope, device |-> req[w].device,
                  schema |-> req[w].schema, status |-> "received"]]
  /\ req' = [req EXCEPT ![w].pc = "process", ![w].created = TRUE]
  /\ UNCHANGED <<registryVars, readings, nextBatch, created201, edits, faults>>

InsertLost(w) ==
  /\ At(w, "insert")
  /\ event[Message(w)] # Null
  /\ AssertSameEnvelope(w, event[Message(w)])
  /\ UNCHANGED <<registryVars, dbVars, created201, edits, faults>>

(* No row to store the failure on (insert) or the failure cannot be stored *)
(* (process): the IntegrityError is answered with 500.                     *)
AbortDangling(w) ==
  /\ \/ At(w, "insert") /\ event[Message(w)] = Null
     \/ /\ At(w, "process")
        /\ SameEnvelope(event[Message(w)], req[w])
        /\ event[Message(w)].status # "processed"
  /\ Dangling(w)
  /\ Answer(w, "server_error", {})
  /\ UNCHANGED <<registryVars, dbVars, created201, edits, faults>>

-----------------------------------------------------------------------------
(* _process_raw_event, by the ways it can end.                             *)

(* The second envelope check, on the row read inside the transaction.      *)
RefuseEnvelope(w) ==
  /\ At(w, "process")
  /\ ~SameEnvelope(event[Message(w)], req[w])
  /\ Answer(w, "idempotency_conflict", {})
  /\ UNCHANGED <<registryVars, dbVars, created201, edits, faults>>

ReturnProcessed(w) ==
  /\ At(w, "process")
  /\ SameEnvelope(event[Message(w)], req[w])
  /\ event[Message(w)].status = "processed"
  /\ Answer(w, "existing", Rows(Message(w)))
  /\ UNCHANGED <<registryVars, dbVars, created201, edits, faults>>

MayProcessAgain(w) ==  \* mutant: the status is not looked at again
  /\ At(w, "process")
  /\ SameEnvelope(event[Message(w)], req[w])
  /\ ~Dangling(w)
(* The transaction gets to process the locked row.                         *)
MayProcess(w) ==
  /\ At(w, "process")
  /\ SameEnvelope(event[Message(w)], req[w])
  /\ event[Message(w)].status # "processed"
  /\ ~Dangling(w)

(* _process_locked_event reaches its end: the resolved objects are there,  *)
(* the device was active when it was resolved, and the payload projects.   *)
(* parse_payload has the expected length of the resolved schema object but *)
(* reads fields, rules and the device of each reading from the database.   *)
Processable(w) ==
  /\ req[w].device # Null
  /\ req[w].active
  /\ req[w].schema # Null
  /\ Projects(req[w].length, schema[req[w].schema].layout,
              device[req[w].device].deviceType, req[w].envelope.payload)

Projection(w) ==
  [batch : {nextBatch}, message : {Message(w)}, device : {req[w].device},
   parameter : Targets[schema[req[w].schema].layout]]

(* uniq_event_device_parameter_reading                                     *)
ReadingsUnique(new) ==
  \A r \in readings, n \in new :
    <<r.message, r.device, r.parameter>> # <<n.message, n.device, n.parameter>>

CommitReadings(w) ==
  /\ MayProcess(w)
  /\ Processable(w)
  /\ ReadingsUnique(Projection(w))
  /\ readings' = readings \cup Projection(w)
  /\ nextBatch' = nextBatch + 1
  /\ event' = [event EXCEPT ![Message(w)].device = req[w].device,
                            ![Message(w)].schema = req[w].schema,
                            ![Message(w)].status = "processed"]
  /\ Answer(w, IF req[w].created THEN "created" ELSE "existing", Projection(w))
  /\ created201' = [created201 EXCEPT ![Message(w)] = IF req[w].created THEN @ + 1 ELSE @]
  /\ UNCHANGED <<registryVars, edits, faults>>

(* Any other end: the inner block is rolled back and _mark_failed commits. *)
(* An unexpected error may end the processing of a good event so too.      *)
CommitFailure(w) ==
  /\ MayProcess(w)
  /\ IF Processable(w) /\ ReadingsUnique(Projection(w))
     THEN faults < MaxFaults /\ faults' = faults + 1
     ELSE UNCHANGED faults
  /\ event' = [event EXCEPT ![Message(w)].device = req[w].device,
                            ![Message(w)].schema = req[w].schema,
                            ![Message(w)].status = "failed"]
  /\ Answer(w, "failed", {})
  /\ UNCHANGED <<registryVars, readings, nextBatch, created201, edits>>

-----------------------------------------------------------------------------
(* A write could not lock the database (another connection is writing, in  *)
(* this model or not): OperationalError, nothing is stored, 500.           *)
DatabaseLocked(w) ==
  /\ faults < MaxFaults
  /\ req[w].pc \in {"insert", "process"}
  /\ Answer(w, "server_error", {})
  /\ faults' = faults + 1
  /\ UNCHANGED <<registryVars, dbVars, created201, edits>>

(* The response leaves the server; the gateway may never see it.           *)
Deliver(w) ==
  /\ At(w, "answered")
  /\ req' = [req EXCEPT ![w] = Idle]
  /\ UNCHANGED <<registryVars, dbVars, created201, edits, faults>>

(* The process dies and restarts: every request in flight is lost and an   *)
(* open transaction is rolled back.                                        *)
Crash ==
  /\ faults < MaxFaults
  /\ \E w \in Workers : ~At(w, "idle")
  /\ req' = [w \in Workers |-> Idle]
  /\ faults' = faults + 1
  /\ UNCHANGED <<registryVars, dbVars, created201, edits>>

InFlight(w) == req[w].pc \notin {"idle", "answered"}

EditRegistry ==
  /\ edits < MaxEdits
  /\ EditsDuringRequests \/ \A w \in Workers : ~InFlight(w)
  /\ Edit(UsedDevices, UsedSchemas)
  /\ edits' = edits + 1
  /\ UNCHANGED <<dbVars, req, created201, faults>>

-----------------------------------------------------------------------------
Init ==
  /\ gatewayActive = TRUE
  /\ device \in InitialDevices
  /\ schema \in InitialSchemas
  /\ event = [m \in Messages |-> Null]
  /\ readings = {}
  /\ nextBatch = 1
  /\ req = [w \in Workers |-> Idle]
  /\ created201 = [m \in Messages |-> 0]
  /\ edits = 0
  /\ faults = 0

(* What the server itself does with request w.                             *)
Serve(w) ==
  \/ CheckRequest(w) \/ ResolveDevice(w) \/ ResolveSchema(w) \/ FindEvent(w)
  \/ InsertEvent(w) \/ InsertLost(w) \/ AbortDangling(w)
  \/ RefuseEnvelope(w) \/ ReturnProcessed(w)
  \/ CommitReadings(w) \/ CommitFailure(w) \/ Deliver(w)

Next ==
  \/ \E w \in Workers :
       \/ \E env \in Envelopes : Receive(w, env)
       \/ Serve(w)
       \/ DatabaseLocked(w)
  \/ Crash
  \/ EditRegistry

Spec == Init /\ [][Next]_vars

(* A live thread serves its request to the end, and a gateway sends every  *)
(* envelope again and again (the documented reaction to an error).         *)
FairSpec ==
  /\ Spec
  /\ \A w \in Workers : WF_vars(Serve(w))
  /\ \A env \in Envelopes : SF_vars(\E w \in Workers : Receive(w, env))

-----------------------------------------------------------------------------
(* Types of all variables.                                                 *)
TypeOK ==
  /\ RegistryTypeOK
  /\ event \in [Messages -> EventRow \cup {Null}]
  /\ readings \subseteq ReadingRow
  /\ nextBatch \in Nat \ {0}
  /\ req \in [Workers -> Request]
  /\ created201 \in [Messages -> Nat]
  /\ edits \in Nat
  /\ faults \in Nat

Stored(m) == event[m] # Null
Processed(m) == Stored(m) /\ event[m].status = "processed"

(* Exactly-once projection: a processed event has one reading for every    *)
(* parameter its schema's rules write, all of the event's device and all   *)
(* of one transaction; an event in any other state has none (a failure     *)
(* rolled all of its readings back).                                       *)
ReadingsComplete ==
  \A m \in Messages :
    IF Processed(m)
    THEN \E b \in 1 .. nextBatch - 1 :
           Rows(m) = [batch : {b}, message : {m}, device : {event[m].device},
                      parameter : Targets[schema[event[m].schema].layout]]
    ELSE Rows(m) = {}

(* No stored event refers to a deleted device or schema, although requests *)
(* store references to rows they looked up earlier.                        *)
ReferencesExist ==
  \A m \in Messages : Stored(m) =>
    /\ event[m].device \in LiveDevices \cup {Null}
    /\ event[m].schema \in LiveSchemas \cup {Null}

(* Every 200 and 201 tells the truth: the message is processed under the   *)
(* very envelope that was sent, and the reading ids are those stored, so   *)
(* all successful answers to a message agree.                              *)
AnswersAgree ==
  \A w \in Workers : req[w].code \in {"created", "existing"} =>
    /\ Processed(Message(w))
    /\ event[Message(w)].envelope = req[w].envelope
    /\ req[w].ids = Rows(Message(w))

(* However many threads race on a message, at most one 201 is answered.    *)
AtMostOneCreated == \A m \in Messages : created201[m] <= 1

(* A processed event is final: its row and its readings never change.      *)
ProcessedIsFinal ==
  [][\A m \in Messages : Processed(m) =>
       event'[m] = event[m] /\ Rows(m)' = Rows(m)]_vars

(* The raw evidence is immutable: a stored envelope never changes, and the *)
(* device and schema recorded with it are never replaced by others.        *)
EvidenceKept ==
  [][\A m \in Messages : Stored(m) =>
       /\ event'[m] # Null
       /\ event'[m].envelope = event[m].envelope
       /\ event[m].device # Null => event'[m].device = event[m].device
       /\ event[m].schema # Null => event'[m].schema = event[m].schema]_vars

(* What an event of any status refers to is frozen: its schema entirely,   *)
(* its device but for the active flag.                                     *)
ReferencedIsFrozen ==
  [][\A m \in Messages : Stored(m) =>
       /\ event[m].schema # Null => schema'[event[m].schema] = schema[event[m].schema]
       /\ event[m].device # Null =>
            /\ event[m].device \in LiveDevices'
            /\ device'[event[m].device].localId = device[event[m].device].localId
            /\ device'[event[m].device].deviceType = device[event[m].device].deviceType]_vars

(* Schema versions explain historical readings (ADR-001): the schema and   *)
(* device of a processed event are those its envelope names, and under     *)
(* that schema its payload projects.                                       *)
Provenance ==
  \A m \in Messages : Processed(m) =>
    LET env == event[m].envelope
        d == device[event[m].device]
        s == schema[event[m].schema]
    IN  /\ d.localId = env.localId
        /\ SameSchemaKey(s, [eventType |-> env.eventType, deviceType |-> d.deviceType,
                             version |-> env.version])
        /\ Projects(s.length, s.layout, d.deviceType, env.payload)

(* 409 means what it says: the message id is stored with an envelope other *)
(* than the one sent.  An exact retry is never refused.                    *)
ExactRetryAccepted ==
  \A w \in Workers : req[w].code = "idempotency_conflict" =>
    event[Message(w)].envelope # req[w].envelope

(* The configuration as it stands accepts the envelope.                    *)
Accepts(env) ==
  /\ Size[env.payload] <= MaxPayload /\ env.eventType \in EventTypes
  /\ gatewayActive
  /\ \E d \in DevicesAt(env.localId) :
       /\ device[d].active
       /\ \E s \in SchemasFor(env.eventType, device[d].deviceType, env.version) :
            Projects(schema[s].length, schema[s].layout, device[d].deviceType, env.payload)

(* A failed event is recoverable (ADR-002): once the missing configuration *)
(* is there to stay, retries get every envelope processed, unless its      *)
(* message id belongs to another envelope.                                 *)
Recoverable ==
  \A env \in Envelopes :
    <>[]Accepts(env) => <>(LET e == event[env.message]
                           IN  e # Null /\ (e.envelope = env => e.status = "processed"))

-----------------------------------------------------------------------------
(* The promise, read off the database and off the responses in flight.     *)
Ledger == [m \in Messages |->
             IF event[m] = Null THEN Null
             ELSE [envelope |-> event[m].envelope, status |-> event[m].status,
                   result |-> Rows(m)]]
Replies == [w \in Workers |->
              IF req[w].code \in {"created", "existing"}
              THEN [envelope |-> req[w].envelope, result |-> req[w].ids]
              ELSE Null]

(* NULL is not mistaken for an entry of the ledger.                        *)
ASSUME LedgerAssumption ==
  Null \notin [envelope : Envelopes, status : {"received", "processed", "failed"},
               result : SUBSET ReadingRow]

Intake == INSTANCE IdempotentIntake
            WITH Clients <- Workers, None <- Null, ledger <- Ledger, reply <- Replies

(* Ingestion, with all its races, crashes and stale reads, keeps the       *)
(* promise of IdempotentIntake.                                            *)
KeepsPromise == Intake!Spec
=============================================================================
