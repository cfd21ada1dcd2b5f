--------------------------- MODULE PacketSimulator ---------------------------
(***************************************************************************)
(* The packet simulator page (PacketSimulatorPage.tsx and the panels it    *)
(* renders): a composer, one simulated receive at a time that takes four   *)
(* timeouts, an automatic stream of them, and the history of receipts.     *)
(*                                                                         *)
(* A receive is an asynchronous function.  It holds its arguments, goes on *)
(* after every timeout whatever the page has become, and belongs to the    *)
(* page only while its number is runRef.  A click handler is one step with *)
(* the effects it causes; its guard includes the disabled attribute of the *)
(* control.                                                                *)
(*                                                                         *)
(* Generation and parsing are operators of PacketCodec given as constants. *)
(* The refs of a page that is mounted anew start again at 0; here runRef   *)
(* goes on, which keeps the runs of the page that is gone apart.           *)
(***************************************************************************)
EXTENDS Naturals, Sequences, FiniteSets

CONSTANTS
  Schemas,            \* ids of the catalog's schemas, a sequence
  Devices,            \* ids of the catalog's devices, a sequence
  Fits(_, _),         \* Fits(d, s): device d is active, as is its gateway, and of s's type
  Drafts(_),          \* Drafts(s): whatever the composer may hold for schema s
  Texts(_),           \* Texts(s): drafts a user may type
  DefaultDrafts(_),   \* createFieldDrafts
  TimeDrafts(_, _),   \* TimeDrafts(s, d): drafts d with the current time filled in
  Gaps,               \* gap bytes, the first of them
  FirstGap,
  Generate(_, _, _),  \* generatePayload
  Parse(_, _),        \* parsePayload
  MaxHistory,         \* receipts kept: 8
  MaxRuns,            \* bound on the receives started and cancelled
  Null

LoadErrors == {"unauthenticated", "forbidden", "request_failed", "invalid_response"}
Waiting == {"receiving", "stored", "parsing", "projecting"}

SchemaIds == {Schemas[i] : i \in DOMAIN Schemas}
DeviceIds == {Devices[i] : i \in DOMAIN Devices}

ASSUME SimulatorAssumption ==
  /\ MaxHistory \in Nat \ {0} /\ MaxRuns \in Nat
  /\ Schemas # <<>> => 1 \in DOMAIN Schemas
  /\ Null \notin SchemaIds \cup DeviceIds
  /\ FirstGap \in Gaps
  /\ \A s \in SchemaIds :
       /\ DefaultDrafts(s) \in Drafts(s) /\ Texts(s) \subseteq Drafts(s)
       /\ \A d \in Drafts(s) : TimeDrafts(s, d) \subseteq Drafts(s)

(* A set of places in the catalog has a first one.                         *)
ASSUME CatalogAssumption ==
  \A places \in SUBSET DOMAIN Devices :
    places # {} => \E i \in places : \A j \in places : i <= j

(* The payloads the generator makes, and what the parser makes of them.    *)
Payloads(s) ==
  {g.value : g \in {h \in {Generate(s, d, gap) : d \in Drafts(s), gap \in Gaps} : h.ok}}
Outcomes == UNION {{Parse(s, p).value : p \in Payloads(s)} : s \in SchemaIds}

RunRow ==
  [run : Nat, at : Waiting, schema : SchemaIds, device : DeviceIds,
   payload : UNION {Payloads(s) : s \in SchemaIds}]
ReceiptRow ==
  [id : Nat, schema : SchemaIds, device : DeviceIds,
   payload : UNION {Payloads(s) : s \in SchemaIds}, status : {"processed"},
   fields : {o.fields : o \in Outcomes}, readings : {o.readings : o \in Outcomes}]

(* The drafts that reproduce what was parsed.                              *)
RawDrafts(s, fields) ==
  IF DOMAIN fields # {} THEN [f \in DOMAIN fields |-> fields[f].raw] ELSE DefaultDrafts(s)

(* What PacketAgreement checks of the codec: what is generated is parsed,  *)
(* and its raw values generate, with any gap byte, what parses the same.   *)
ASSUME CodecAssumption ==
  \A s \in SchemaIds : \A p \in Payloads(s) :
    LET parsed == Parse(s, p)
        raw == RawDrafts(s, parsed.value.fields)
    IN /\ parsed.ok /\ raw \in Drafts(s)
       /\ \A gap \in Gaps :
            LET again == Generate(s, raw, gap)
            IN /\ again.ok /\ Parse(s, again.value).ok
               /\ Parse(s, again.value).value =
                    [fields |-> parsed.value.fields, readings |-> parsed.value.readings]

ASSUME NullAssumption == Null \notin ReceiptRow

VARIABLES
  load,         \* the page: away, loading, ready or why loading failed
  schemaId, deviceId, drafts, gapByte,  \* the composer
  phase,        \* the pipeline strip
  receipts,     \* the history, newest first
  active,       \* the receipt shown
  result,       \* the outcome shown in the composer
  busy,         \* state and ref
  busyRef,
  streaming,
  runRef,
  sequenceRef,
  runs          \* receives that wait for a timeout

composer == <<schemaId, deviceId, drafts, gapByte>>
shown == <<phase, receipts, active, result>>
control == <<busy, busyRef, runRef, runs>>
vars == <<load, composer, shown, control, streaming, sequenceRef>>

-----------------------------------------------------------------------------
(* Array.find: the first device that fits.                                 *)
FirstDevice(s) ==
  LET fitting == {i \in DOMAIN Devices : Fits(Devices[i], s)}
  IN IF fitting = {} THEN Null
     ELSE Devices[CHOOSE i \in fitting : \A j \in fitting : i <= j]

Ready == load = "ready" /\ schemaId # Null
Idle == Ready /\ ~busy /\ ~streaming
Generation == Generate(schemaId, drafts, gapByte)

CanReceive == deviceId # Null /\ Fits(deviceId, schemaId)

Fresh ==
  /\ schemaId = Null /\ deviceId = Null /\ drafts = Null /\ gapByte = FirstGap
  /\ phase = "idle" /\ receipts = <<>> /\ active = Null /\ result = Null
  /\ busy = FALSE /\ streaming = FALSE /\ sequenceRef = 0

Init ==
  /\ load = "away" /\ Fresh
  /\ busyRef = FALSE /\ runRef = 0 /\ runs = {}

Enter ==
  /\ load = "away" /\ load' = "loading"
  /\ UNCHANGED <<composer, shown, control, streaming, sequenceRef>>

(* The cleanup of the loading effect, when the page is left and before     *)
(* another attempt: it cancels the receive in flight.                      *)
Cleanup ==
  /\ runRef < MaxRuns /\ runRef' = runRef + 1
  /\ busyRef' = FALSE
  /\ UNCHANGED runs

Leave ==
  /\ load # "away" /\ load' = "away"
  /\ Cleanup
  /\ schemaId' = Null /\ deviceId' = Null /\ drafts' = Null /\ gapByte' = FirstGap
  /\ phase' = "idle" /\ receipts' = <<>> /\ active' = Null /\ result' = Null
  /\ busy' = FALSE /\ streaming' = FALSE /\ sequenceRef' = 0

CatalogArrives ==
  /\ load = "loading" /\ load' = "ready"
  /\ IF Schemas = <<>>
     THEN schemaId' = Null /\ deviceId' = Null /\ drafts' = Null
     ELSE /\ schemaId' = Schemas[1]
          /\ deviceId' = FirstDevice(Schemas[1])
          /\ drafts' = DefaultDrafts(Schemas[1])
  /\ UNCHANGED <<gapByte, shown, control, streaming, sequenceRef>>

CatalogFails(error) ==
  /\ load = "loading" /\ load' = error
  /\ UNCHANGED <<composer, shown, control, streaming, sequenceRef>>

Retry ==
  /\ load \in LoadErrors /\ load' = "loading"
  /\ Cleanup
  /\ UNCHANGED <<composer, shown, busy, streaming, sequenceRef>>

-----------------------------------------------------------------------------
(* The composer.                                                           *)

SelectSchema(s) ==
  /\ Idle
  /\ schemaId' = s /\ deviceId' = FirstDevice(s) /\ drafts' = DefaultDrafts(s)
  /\ phase' = "idle" /\ result' = Null
  /\ UNCHANGED <<load, gapByte, receipts, active, control, streaming, sequenceRef>>

SelectDevice(d) ==
  /\ Idle /\ Fits(d, schemaId) /\ deviceId' = d
  /\ UNCHANGED <<load, schemaId, drafts, gapByte, shown, control, streaming, sequenceRef>>

EditDrafts(d) ==
  /\ Idle /\ d # drafts /\ drafts' = d
  /\ UNCHANGED <<load, schemaId, deviceId, gapByte, shown, control, streaming, sequenceRef>>

Edit == \/ \E d \in Texts(schemaId) : EditDrafts(d)
        \/ \E d \in TimeDrafts(schemaId, drafts) : EditDrafts(d)
        \/ EditDrafts(DefaultDrafts(schemaId))

SelectGap(g) ==
  /\ Idle /\ gapByte' = g
  /\ UNCHANGED <<load, schemaId, deviceId, drafts, shown, control, streaming, sequenceRef>>

-----------------------------------------------------------------------------
(* A receive.                                                              *)

(* simulateReceive as far as its first timeout.                            *)
SimulateReceive ==
  /\ Ready /\ ~busyRef /\ Generation.ok /\ CanReceive
  /\ runRef < MaxRuns /\ runRef' = runRef + 1
  /\ busyRef' = TRUE /\ busy' = TRUE /\ phase' = "receiving"
  /\ runs' = runs \cup {[run |-> runRef + 1, at |-> "receiving", schema |-> schemaId,
                         device |-> deviceId, payload |-> Generation.value]}

Receive ==
  /\ Idle /\ SimulateReceive
  /\ UNCHANGED <<load, composer, receipts, active, result, streaming, sequenceRef>>

(* The effect of a stream that starts sends at once unless busy.           *)
ToggleStream ==
  /\ Ready /\ Generation.ok /\ CanReceive
  /\ streaming' = ~streaming
  /\ IF streaming \/ busyRef THEN UNCHANGED <<phase, control>> ELSE SimulateReceive
  /\ UNCHANGED <<load, composer, receipts, active, result, sequenceRef>>

Tick ==
  /\ streaming /\ SimulateReceive
  /\ UNCHANGED <<load, composer, receipts, active, result, streaming, sequenceRef>>

Receipt(r, parsed, number) ==
  [id |-> number, schema |-> r.schema, device |-> r.device, payload |-> r.payload,
   status |-> IF parsed.ok THEN "processed" ELSE "failed",
   fields |-> IF parsed.ok THEN parsed.value.fields ELSE Null,
   readings |-> IF parsed.ok THEN parsed.value.readings ELSE Null]

RunResult(receipt) == [status |-> receipt.status, readings |-> receipt.readings]

Keep(receipt) ==
  LET all == <<receipt>> \o receipts
  IN SubSeq(all, 1, IF Len(all) > MaxHistory THEN MaxHistory ELSE Len(all))

(* Mutant: the ref of a receive that succeeded is forgotten.               *)
FinishBusy(r, number) ==
  LET receipt == Receipt(r, Parse(r.schema, r.payload), number)
  IN /\ result' = RunResult(receipt) /\ phase' = receipt.status
     /\ active' = receipt /\ receipts' = Keep(receipt)
     /\ busy' = FALSE /\ UNCHANGED busyRef

Finish(r, number) ==
  LET receipt == Receipt(r, Parse(r.schema, r.payload), number)
  IN /\ result' = RunResult(receipt) /\ phase' = receipt.status
     /\ active' = receipt /\ receipts' = Keep(receipt)
     /\ busyRef' = FALSE /\ busy' = FALSE

Advance(r, at) ==
  /\ runs' = (runs \ {r}) \cup {[r EXCEPT !.at = at]}
  /\ phase' = at
  /\ UNCHANGED <<receipts, active, result, busy, busyRef>>

(* Mutant: a cancelled receive that projects finishes all the same.        *)
ContinueCancelled(r) ==
  /\ IF r.run # runRef /\ r.at # "projecting"
     THEN runs' = runs \ {r} /\ UNCHANGED <<shown, busy, busyRef, sequenceRef>>
     ELSE CASE r.at = "receiving" -> Advance(r, "stored") /\ UNCHANGED sequenceRef
            [] r.at = "stored" -> Advance(r, "parsing") /\ UNCHANGED sequenceRef
            [] r.at = "parsing" -> sequenceRef' = sequenceRef + 1 /\ Advance(r, "projecting")
            [] r.at = "projecting" ->
                 Finish(r, sequenceRef) /\ runs' = runs \ {r} /\ UNCHANGED sequenceRef
  /\ UNCHANGED <<load, composer, streaming, runRef>>

(* A timeout of receive r fires.                                           *)
Continue(r) ==
  /\ IF r.run # runRef
     THEN runs' = runs \ {r} /\ UNCHANGED <<shown, busy, busyRef, sequenceRef>>
     ELSE CASE r.at = "receiving" -> Advance(r, "stored") /\ UNCHANGED sequenceRef
            [] r.at = "stored" -> Advance(r, "parsing") /\ UNCHANGED sequenceRef
            [] r.at = "parsing" ->
                 /\ sequenceRef' = sequenceRef + 1
                 /\ IF Parse(r.schema, r.payload).ok THEN Advance(r, "projecting")
                    ELSE Finish(r, sequenceRef + 1) /\ runs' = runs \ {r}
            [] r.at = "projecting" ->
                 Finish(r, sequenceRef) /\ runs' = runs \ {r} /\ UNCHANGED sequenceRef
  /\ UNCHANGED <<load, composer, streaming, runRef>>

-----------------------------------------------------------------------------
(* The history.                                                            *)

(* Mutant: the receipt in the panel survives.                              *)
ClearHistoryOnly ==
  /\ Ready /\ receipts # <<>>
  /\ streaming' = FALSE
  /\ runRef < MaxRuns /\ runRef' = runRef + 1
  /\ busyRef' = FALSE /\ busy' = FALSE
  /\ phase' = "idle" /\ result' = Null /\ receipts' = <<>> /\ UNCHANGED active
  /\ sequenceRef' = 0
  /\ UNCHANGED <<load, composer, runs>>

ClearSession ==
  /\ Ready /\ receipts # <<>>
  /\ streaming' = FALSE
  /\ runRef < MaxRuns /\ runRef' = runRef + 1
  /\ busyRef' = FALSE /\ busy' = FALSE
  /\ phase' = "idle" /\ result' = Null /\ receipts' = <<>> /\ active' = Null
  /\ sequenceRef' = 0
  /\ UNCHANGED <<load, composer, runs>>

(* Mutant: the composer restores the schema and the device only.           *)
RestoredEmpty(receipt) ==
  [schema |-> receipt.schema, device |-> receipt.device,
   drafts |-> DefaultDrafts(receipt.schema)]

(* The composer that selecting a receipt restores.                         *)
Restored(receipt) ==
  [schema |-> receipt.schema, device |-> receipt.device,
   drafts |-> IF receipt.status = "processed" THEN RawDrafts(receipt.schema, receipt.fields)
              ELSE DefaultDrafts(receipt.schema)]

SelectReceipt(receipt) ==
  /\ Idle
  /\ LET c == Restored(receipt)
     IN schemaId' = c.schema /\ deviceId' = c.device /\ drafts' = c.drafts
  /\ active' = receipt /\ result' = RunResult(receipt) /\ phase' = receipt.status
  /\ UNCHANGED <<load, gapByte, receipts, control, streaming, sequenceRef>>

-----------------------------------------------------------------------------
Next ==
  \/ Enter \/ Leave \/ CatalogArrives \/ Retry
  \/ \E error \in LoadErrors : CatalogFails(error)
  \/ \E s \in SchemaIds : SelectSchema(s)
  \/ \E d \in DeviceIds : SelectDevice(d)
  \/ Edit
  \/ \E g \in Gaps : SelectGap(g)
  \/ Receive \/ ToggleStream \/ Tick
  \/ \E r \in runs : Continue(r)
  \/ ClearSession
  \/ \E i \in DOMAIN receipts : SelectReceipt(receipts[i])

Spec == Init /\ [][Next]_vars

(* Timeouts and intervals fire; nobody has to click.                       *)
Fairness ==
  /\ WF_vars(Tick)
  /\ \A n \in 1..MaxRuns : WF_vars(\E r \in runs : r.run = n /\ Continue(r))

FairSpec == Spec /\ Fairness

-----------------------------------------------------------------------------
Range(s) == {s[i] : i \in DOMAIN s}
Live == {r \in runs : r.run = runRef}

TypeOK ==
  /\ load \in {"away", "loading", "ready"} \cup LoadErrors
  /\ schemaId \in SchemaIds \cup {Null} /\ deviceId \in DeviceIds \cup {Null}
  /\ schemaId # Null => drafts \in Drafts(schemaId)
  /\ gapByte \in Gaps
  /\ phase \in Waiting \cup {"idle", "processed", "failed"}
  /\ receipts \in Seq(ReceiptRow) /\ active \in ReceiptRow \cup {Null}
  /\ busy \in BOOLEAN /\ busyRef \in BOOLEAN /\ streaming \in BOOLEAN
  /\ runRef \in Nat /\ sequenceRef \in Nat
  /\ runs \subseteq RunRow /\ \A r \in runs : r.run <= runRef

(* However receives, the stream, "clear" and the page's coming and going   *)
(* interleave, at most one receive may still act on the page; the buttons  *)
(* are disabled exactly while there is one (busy and busyRef agree), and   *)
(* the pipeline strip shows where it is.  A receive that was cancelled can *)
(* neither finish nor release the next one.                                *)
OneReceiveAtATime ==
  /\ \A r, q \in Live : r = q
  /\ (busy <=> Live # {}) /\ (busyRef <=> busy)
  /\ \A r \in Live : phase = r.at
  /\ Live = {} => phase \notin Waiting
  /\ load # "ready" => Live = {} /\ ~streaming

(* What the page shows is one story: the receipts are numbered without     *)
(* repetition, newest first; the receipt in the panel is one of the        *)
(* history; a terminal phase and the outcome in the composer are those of  *)
(* that receipt, also after the history was searched, cleared or cut; and  *)
(* no receipt shown was cancelled or failed, for only a payload that the   *)
(* generator itself parsed can be received.                                *)
HistoryIsCoherent ==
  /\ Len(receipts) <= MaxHistory
  /\ \A i, j \in DOMAIN receipts : i < j => receipts[i].id > receipts[j].id
  /\ \A i \in DOMAIN receipts :
       receipts[i].id <= sequenceRef /\ receipts[i].status = "processed"
  /\ \A r \in Live : r.at = "projecting" =>
       \A i \in DOMAIN receipts : receipts[i].id < sequenceRef
  /\ receipts = <<>> <=> active = Null
  /\ active # Null => active \in Range(receipts)
  /\ phase \in {"processed", "failed"} =>
       active # Null /\ phase = active.status /\ result = RunResult(active)
  /\ result # Null => active # Null /\ result = RunResult(active)

(* A receipt of the history can be replayed (selectReceipt) whatever was   *)
(* edited since and whichever gap byte is set now: the composer it         *)
(* restores may be received at once, and the payload it then generates     *)
(* reads as the receipt says.                                              *)
ReplayIsFaithful ==
  \A receipt \in Range(receipts), gap \in Gaps :
    LET c == Restored(receipt)
        again == Generate(c.schema, c.drafts, gap)
        parsed == Parse(c.schema, again.value)
    IN /\ Fits(c.device, c.schema)
       /\ again.ok /\ parsed.ok
       /\ parsed.value = [fields |-> receipt.fields, readings |-> receipt.readings]

(* An automatic stream goes on delivering until someone stops it, and a    *)
(* receive that was started comes to an end: no cancelled or finished      *)
(* receive leaves busyRef set behind.                                      *)
StreamDelivers ==
  /\ \A n \in 0..MaxRuns :
       (streaming /\ sequenceRef = n)
         ~> (~streaming \/ sequenceRef # n \/ runRef = MaxRuns)
  /\ busy ~> ~busy
=============================================================================
