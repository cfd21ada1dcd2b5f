------------------------ MODULE PacketSimulatorProofs ------------------------
(***************************************************************************)
(* Proofs about PacketSimulator, for any catalog, any codec that reads     *)
(* what it writes, and any number of receives and receipts.                *)
(***************************************************************************)
EXTENDS PacketSimulator, TLAPS

-----------------------------------------------------------------------------
(* Every receive and every receipt is of a payload the generator made, for *)
(* a device that fits, and a receipt says what the parser says.            *)
Sound(x) == x.payload \in Payloads(x.schema) /\ Fits(x.device, x.schema)
Faithful(x) ==
  /\ Sound(x)
  /\ x.fields = Parse(x.schema, x.payload).value.fields
  /\ x.readings = Parse(x.schema, x.payload).value.readings

Genuine ==
  /\ \A r \in runs : Sound(r)
  /\ \A i \in DOMAIN receipts : Faithful(receipts[i])

Inv == TypeOK /\ Genuine /\ OneReceiveAtATime /\ HistoryIsCoherent

LEMMA KeepIsPrefix ==
  ASSUME receipts \in Seq(ReceiptRow), NEW x \in ReceiptRow
  PROVE  /\ Keep(x) \in Seq(ReceiptRow) /\ Len(Keep(x)) \in 1..MaxHistory
         /\ Keep(x)[1] = x
         /\ \A i \in 2..Len(Keep(x)) : i - 1 \in DOMAIN receipts /\ Keep(x)[i] = receipts[i - 1]
<1> DEFINE all == <<x>> \o receipts
           n == IF Len(all) > MaxHistory THEN MaxHistory ELSE Len(all)
<1>1. all \in Seq(ReceiptRow) /\ Len(all) = Len(receipts) + 1 /\ all[1] = x
      /\ \A i \in 2..Len(all) : all[i] = receipts[i - 1]
  OBVIOUS
<1>2. n \in 1..Len(all) /\ n <= MaxHistory BY <1>1, SimulatorAssumption
<1>3. Keep(x) = SubSeq(all, 1, n) BY DEF Keep
<1> HIDE DEF all, n
<1>4. SubSeq(all, 1, n) \in Seq(ReceiptRow) /\ Len(SubSeq(all, 1, n)) = n
      /\ \A i \in 1..n : SubSeq(all, 1, n)[i] = all[i]
  BY <1>1, <1>2
<1>5. QED BY <1>1, <1>2, <1>3, <1>4

LEMMA NoReceipts == <<>> \in Seq(ReceiptRow)
OBVIOUS

LEMMA PhaseFacts == Waiting \cap {"idle", "processed", "failed"} = {} /\ "receiving" \in Waiting
                    /\ Waiting \cap LoadErrors = {}
BY DEF Waiting, LoadErrors

-----------------------------------------------------------------------------
(* A receive starts.                                                       *)
LEMMA Starts ==
  ASSUME Inv, SimulateReceive, streaming' \in BOOLEAN,
         UNCHANGED <<load, composer, receipts, active, result, sequenceRef>>
  PROVE  Inv'
<1> DEFINE new == [run |-> runRef + 1, at |-> "receiving", schema |-> schemaId,
                   device |-> deviceId, payload |-> Generation.value]
<1> USE DEF composer
<1>1. load = "ready" /\ schemaId \in SchemaIds /\ deviceId \in DeviceIds /\ Fits(deviceId, schemaId)
  BY DEF SimulateReceive, Ready, CanReceive, Inv, TypeOK
<1>2. Generation.value \in Payloads(schemaId)
  <2>1. drafts \in Drafts(schemaId) /\ gapByte \in Gaps
    BY <1>1, SimulatorAssumption DEF Inv, TypeOK
  <2>2. Generation \in {Generate(schemaId, d, gap) : d \in Drafts(schemaId), gap \in Gaps}
    BY <2>1 DEF Generation
  <2>3. Generation.ok BY DEF SimulateReceive
  <2>4. QED BY <2>2, <2>3 DEF Payloads
<1>3. new \in RunRow /\ new.run = runRef + 1 /\ new.at = "receiving" /\ Sound(new)
  <2>1. runRef + 1 \in Nat BY DEF Inv, TypeOK
  <2>2. Generation.value \in UNION {Payloads(s) : s \in SchemaIds} BY <1>1, <1>2
  <2>3. new \in RunRow BY <1>1, <2>1, <2>2, PhaseFacts DEF RunRow
  <2>4. QED BY <1>1, <1>2, <2>3 DEF Sound
<1>4. /\ runRef' = runRef + 1 /\ phase' = "receiving" /\ runs' = runs \cup {new}
  BY DEF SimulateReceive
<1>5. busy' = TRUE /\ busyRef' = TRUE /\ ~busyRef BY DEF SimulateReceive
<1> HIDE DEF new
<1>6. Live' = {new} BY <1>3, <1>4 DEF Live, Inv, TypeOK, RunRow
<1>7. TypeOK'
  <2>1. runs' \subseteq RunRow /\ \A r \in runs' : r.run <= runRef'
    BY <1>3, <1>4 DEF Inv, TypeOK, RunRow
  <2>2. busy' \in BOOLEAN /\ busyRef' \in BOOLEAN BY <1>5
  <2>3. phase' \in Waiting BY <1>4, PhaseFacts
  <2>4. QED BY <1>4, <2>1, <2>2, <2>3 DEF Inv, TypeOK
<1>8. Genuine' BY <1>3, <1>4 DEF Inv, Genuine, Sound, Faithful
<1>9. OneReceiveAtATime'
  BY <1>1, <1>3, <1>4, <1>5, <1>6 DEF OneReceiveAtATime
<1>10. HistoryIsCoherent'
  <2>1. new.at # "projecting" BY <1>3
  <2>2. phase' \notin {"processed", "failed"} BY <1>4
  <2>3. QED BY <1>6, <2>1, <2>2 DEF Inv, HistoryIsCoherent, Range, RunResult
<1>11. QED BY <1>7, <1>8, <1>9, <1>10 DEF Inv

(* The receive in flight is cancelled.                                     *)
LEMMA Cancels ==
  ASSUME Inv, runRef' = runRef + 1, runs' = runs, busyRef' = FALSE, busy' = FALSE
  PROVE  /\ Live' = {} /\ busyRef' \in BOOLEAN /\ busy' \in BOOLEAN /\ runRef' \in Nat
         /\ runs' \subseteq RunRow /\ \A r \in runs' : r.run <= runRef'
<1>1. runRef' \in Nat /\ runs' \subseteq RunRow /\ \A r \in runs' : r.run <= runRef' /\ r.run # runRef'
  BY DEF Inv, TypeOK, RunRow
<1>2. busyRef' \in BOOLEAN /\ busy' \in BOOLEAN OBVIOUS
<1>3. Live' = {} BY <1>1 DEF Live
<1>4. QED BY <1>1, <1>2, <1>3

(* The page is left, or loaded once more, or the session is cleared.       *)
LEMMA Resets ==
  ASSUME Inv, Leave \/ Retry \/ ClearSession
  PROVE  Inv'
<1> USE DEF composer, shown, control
<1>1. CASE Leave
  <2>1. /\ runRef' = runRef + 1 /\ runs' = runs /\ busyRef' = FALSE /\ busy' = FALSE
        /\ load' = "away" /\ schemaId' = Null /\ deviceId' = Null /\ gapByte' = FirstGap
        /\ phase' = "idle" /\ receipts' = <<>> /\ active' = Null /\ result' = Null
        /\ streaming' = FALSE /\ sequenceRef' = 0
    BY <1>1 DEF Leave, Cleanup
  <2>2. streaming' \in BOOLEAN BY <2>1
  <2>3. TypeOK' BY <2>1, <2>2, Cancels, NoReceipts, SimulatorAssumption DEF TypeOK
  <2>4. Genuine' BY <2>1 DEF Inv, Genuine, Sound
  <2>5. OneReceiveAtATime' BY <2>1, Cancels, PhaseFacts DEF OneReceiveAtATime
  <2>6. HistoryIsCoherent' BY <2>1, Cancels, SimulatorAssumption DEF HistoryIsCoherent
  <2>7. QED BY <2>3, <2>4, <2>5, <2>6 DEF Inv
<1>2. CASE Retry
  <2>1. /\ runRef' = runRef + 1 /\ runs' = runs /\ busyRef' = FALSE /\ busy' = busy
        /\ load \in LoadErrors /\ load' = "loading"
        /\ UNCHANGED <<schemaId, deviceId, drafts, gapByte, phase, receipts, active, result, streaming, sequenceRef>>
    BY <1>2 DEF Retry, Cleanup
  <2>2. load # "ready" /\ ~busy /\ Live = {} BY <2>1 DEF Inv, OneReceiveAtATime, LoadErrors
  <2>3. busy' = FALSE BY <2>1, <2>2 DEF Inv, TypeOK
  <2>4. TypeOK' BY <2>1, <2>3, Cancels DEF Inv, TypeOK
  <2>5. Genuine' BY <2>1 DEF Inv, Genuine, Sound, Faithful
  <2>6. OneReceiveAtATime' BY <2>1, <2>2, <2>3, Cancels DEF Inv, OneReceiveAtATime
  <2>7. HistoryIsCoherent' BY <2>1, <2>3, Cancels DEF Inv, HistoryIsCoherent, Range, RunResult
  <2>8. QED BY <2>4, <2>5, <2>6, <2>7 DEF Inv
<1>3. CASE ClearSession
  <2>1. /\ runRef' = runRef + 1 /\ runs' = runs /\ busyRef' = FALSE /\ busy' = FALSE
        /\ load = "ready" /\ phase' = "idle" /\ receipts' = <<>> /\ active' = Null /\ result' = Null
        /\ streaming' = FALSE /\ sequenceRef' = 0
        /\ UNCHANGED <<load, schemaId, deviceId, drafts, gapByte>>
    BY <1>3 DEF ClearSession, Ready
  <2>2. streaming' \in BOOLEAN BY <2>1
  <2>3. TypeOK' BY <2>1, <2>2, Cancels, NoReceipts DEF Inv, TypeOK
  <2>4. Genuine' BY <2>1 DEF Inv, Genuine, Sound
  <2>5. OneReceiveAtATime' BY <2>1, Cancels, PhaseFacts DEF OneReceiveAtATime
  <2>6. HistoryIsCoherent' BY <2>1, Cancels, SimulatorAssumption DEF HistoryIsCoherent
  <2>7. QED BY <2>3, <2>4, <2>5, <2>6 DEF Inv
<1>4. QED BY <1>1, <1>2, <1>3

-----------------------------------------------------------------------------
(* A receive goes on.                                                      *)

LEMMA Finishes ==
  ASSUME Inv, NEW r \in runs, r.run = runRef, NEW number \in Nat, number = sequenceRef,
         r.at = "projecting", Finish(r, number), runs' = runs \ {r},
         UNCHANGED <<load, composer, streaming, runRef, sequenceRef>>
  PROVE  Inv'
<1> DEFINE x == Receipt(r, Parse(r.schema, r.payload), number)
<1> USE DEF composer
<1>1. /\ r \in RunRow /\ r \in Live /\ Sound(r) /\ receipts \in Seq(ReceiptRow)
      /\ TypeOK /\ Genuine /\ OneReceiveAtATime /\ HistoryIsCoherent
  BY DEF Inv, TypeOK, Live, Genuine
<1>2. Parse(r.schema, r.payload).ok /\ Parse(r.schema, r.payload).value \in Outcomes
  <2>1. r.schema \in SchemaIds /\ r.payload \in Payloads(r.schema) BY <1>1 DEF Sound, RunRow
  <2>2. Parse(r.schema, r.payload).ok BY <2>1, CodecAssumption
  <2>3. Parse(r.schema, r.payload).value \in {Parse(r.schema, p).value : p \in Payloads(r.schema)}
    BY <2>1
  <2>4. QED BY <2>1, <2>2, <2>3 DEF Outcomes
<1>3. x \in ReceiptRow /\ x.id = number /\ x.status = "processed" /\ Faithful(x)
  <2>1. x = [id |-> number, schema |-> r.schema, device |-> r.device, payload |-> r.payload,
             status |-> "processed", fields |-> Parse(r.schema, r.payload).value.fields,
             readings |-> Parse(r.schema, r.payload).value.readings]
    BY <1>2 DEF Receipt
  <2>2. x \in ReceiptRow BY <1>1, <1>2, <2>1 DEF ReceiptRow, RunRow
  <2>3. QED BY <1>1, <2>1, <2>2 DEF Faithful, Sound
<1>4. /\ result' = RunResult(x) /\ phase' = x.status /\ active' = x /\ receipts' = Keep(x)
  BY DEF Finish
<1>5. busyRef' = FALSE /\ busy' = FALSE BY DEF Finish
<1> HIDE DEF x
<1>6. Live' = {} BY <1>1 DEF Live, OneReceiveAtATime
<1>7. /\ receipts' \in Seq(ReceiptRow) /\ Len(receipts') \in 1..MaxHistory /\ receipts'[1] = x
      /\ \A i \in 2..Len(receipts') : i - 1 \in DOMAIN receipts /\ receipts'[i] = receipts[i - 1]
  BY <1>1, <1>3, <1>4, KeepIsPrefix
<1>8. TypeOK'
  <2>1. busy' \in BOOLEAN /\ busyRef' \in BOOLEAN BY <1>5
  <2>2. runs' \subseteq RunRow /\ \A q \in runs' : q.run <= runRef' BY <1>1 DEF TypeOK
  <2>3. phase' \in {"processed", "failed"} BY <1>3, <1>4
  <2>4. QED BY <1>1, <1>3, <1>4, <1>7, <2>1, <2>2, <2>3 DEF TypeOK
<1>9. Genuine'
  <2>1. \A i \in DOMAIN receipts' : i = 1 \/ i \in 2..Len(receipts') BY <1>7
  <2>2. \A i \in DOMAIN receipts' : Faithful(receipts'[i]) BY <1>1, <1>3, <1>7, <2>1 DEF Genuine
  <2>3. QED BY <1>1, <2>2 DEF Genuine, Sound, Faithful
<1>10. OneReceiveAtATime'
  <2>1. load = "ready" BY <1>1 DEF OneReceiveAtATime
  <2>2. phase' \notin Waiting BY <1>3, <1>4, PhaseFacts
  <2>3. QED BY <1>5, <1>6, <2>1, <2>2 DEF OneReceiveAtATime
<1>11. HistoryIsCoherent'
  <2>1. \A i \in DOMAIN receipts : receipts[i].id < number BY <1>1 DEF HistoryIsCoherent
  <2>2. \A i, j \in DOMAIN receipts' : i < j => receipts'[i].id > receipts'[j].id
    <3>1. SUFFICES ASSUME NEW i \in DOMAIN receipts', NEW j \in DOMAIN receipts', i < j
                   PROVE  receipts'[i].id > receipts'[j].id
      OBVIOUS
    <3>2. i \in 1..Len(receipts') /\ j \in 2..Len(receipts') BY <1>7, <3>1
    <3>3. j - 1 \in DOMAIN receipts /\ receipts'[j] = receipts[j - 1] BY <1>7, <3>2
    <3>4. CASE i = 1 BY <1>3, <1>7, <2>1, <3>3, <3>4
    <3>5. CASE i # 1
      <4>1. i - 1 \in DOMAIN receipts /\ receipts'[i] = receipts[i - 1] BY <1>7, <3>2, <3>5
      <4>2. i - 1 < j - 1 BY <3>1, <3>2
      <4>3. QED BY <1>1, <3>3, <4>1, <4>2 DEF HistoryIsCoherent
    <3>6. QED BY <3>4, <3>5
  <2>3. \A i \in DOMAIN receipts' : receipts'[i].id <= sequenceRef' /\ receipts'[i].status = "processed"
    <3>1. SUFFICES ASSUME NEW i \in DOMAIN receipts'
                   PROVE  receipts'[i].id <= sequenceRef' /\ receipts'[i].status = "processed"
      OBVIOUS
    <3>2. CASE i = 1 BY <1>3, <1>7, <3>2
    <3>3. CASE i # 1
      <4>1. i \in 2..Len(receipts') BY <1>7, <3>3
      <4>2. QED BY <1>1, <1>7, <4>1 DEF HistoryIsCoherent
    <3>4. QED BY <3>2, <3>3
  <2>4. receipts' # <<>> /\ active' # Null /\ active' \in Range(receipts')
    <3>1. 1 \in DOMAIN receipts' BY <1>7
    <3>2. receipts' # <<>> BY <1>7
    <3>3. QED BY <1>3, <1>4, <1>7, <3>1, <3>2, NullAssumption DEF Range
  <2>5. QED BY <1>4, <1>6, <1>7, <2>2, <2>3, <2>4 DEF HistoryIsCoherent, RunResult
<1>12. QED BY <1>8, <1>9, <1>10, <1>11 DEF Inv

LEMMA Advances ==
  ASSUME Inv, NEW r \in runs, r.run = runRef, r.at # "projecting", NEW at \in Waiting,
         at = "projecting" => sequenceRef' = sequenceRef + 1,
         at # "projecting" => sequenceRef' = sequenceRef,
         Advance(r, at), UNCHANGED <<load, composer, streaming, runRef>>
  PROVE  Inv'
<1> DEFINE q == [r EXCEPT !.at = at]
<1> USE DEF composer
<1>1. /\ r \in RunRow /\ r \in Live /\ Sound(r)
      /\ TypeOK /\ Genuine /\ OneReceiveAtATime /\ HistoryIsCoherent
  BY DEF Inv, TypeOK, Live, Genuine
<1>2. q \in RunRow /\ q.run = runRef /\ q.at = at /\ Sound(q) BY <1>1 DEF RunRow, Sound
<1>3. runs' = (runs \ {r}) \cup {q} /\ phase' = at
      /\ UNCHANGED <<receipts, active, result, busy, busyRef>>
  BY DEF Advance
<1> HIDE DEF q
<1>4. Live' = {q} BY <1>1, <1>2, <1>3 DEF Live, OneReceiveAtATime
<1>5. sequenceRef' \in Nat /\ sequenceRef <= sequenceRef' BY <1>1 DEF TypeOK
<1>6. TypeOK'
  <2>1. runs' \subseteq RunRow /\ \A x \in runs' : x.run <= runRef'
    BY <1>1, <1>2, <1>3 DEF TypeOK
  <2>2. QED BY <1>1, <1>3, <1>5, <2>1 DEF TypeOK
<1>7. Genuine' BY <1>1, <1>2, <1>3 DEF Genuine, Sound, Faithful
<1>8. OneReceiveAtATime'
  <2>1. load = "ready" /\ busy /\ busyRef BY <1>1 DEF OneReceiveAtATime
  <2>2. busy' /\ busyRef' BY <1>3, <2>1
  <2>3. QED BY <1>2, <1>3, <1>4, <2>1, <2>2 DEF OneReceiveAtATime
<1>9. HistoryIsCoherent'
  <2>1. \A i \in DOMAIN receipts : receipts[i] \in ReceiptRow /\ receipts[i].id \in Nat
    <3>1. \A i \in DOMAIN receipts : receipts[i] \in ReceiptRow BY <1>1 DEF TypeOK
    <3>2. \A x \in ReceiptRow : x.id \in Nat BY DEF ReceiptRow
    <3>3. QED BY <3>1, <3>2
  <2>2. \A i \in DOMAIN receipts' : receipts'[i].id <= sequenceRef' /\ receipts'[i].status = "processed"
    BY <1>1, <1>3, <1>5, <2>1 DEF HistoryIsCoherent, TypeOK
  <2>3. at = "projecting" => \A i \in DOMAIN receipts' : receipts'[i].id < sequenceRef'
    BY <1>1, <1>3, <2>1 DEF HistoryIsCoherent, TypeOK
  <2>4. phase' \notin {"processed", "failed"} BY <1>3, PhaseFacts
  <2>5. QED BY <1>1, <1>2, <1>3, <1>4, <2>2, <2>3, <2>4 DEF HistoryIsCoherent, Range, RunResult
<1>10. QED BY <1>6, <1>7, <1>8, <1>9 DEF Inv

LEMMA Continues ==
  ASSUME Inv, NEW r \in runs, Continue(r)
  PROVE  Inv'
<1>1. /\ r \in RunRow /\ Parse(r.schema, r.payload).ok
      /\ UNCHANGED <<load, composer, streaming, runRef>>
  <2>1. r \in RunRow /\ Sound(r) BY DEF Inv, TypeOK, Genuine
  <2>2. Parse(r.schema, r.payload).ok BY <2>1, CodecAssumption DEF Sound, RunRow
  <2>3. QED BY <2>1, <2>2 DEF Continue
<1>2. CASE r.run # runRef
  <2>1. runs' = runs \ {r} /\ UNCHANGED <<shown, busy, busyRef, sequenceRef>>
    BY <1>2 DEF Continue
  <2>2. Live' = Live BY <1>1, <1>2, <2>1 DEF Live
  <2> USE DEF composer, shown
  <2>3. TypeOK' BY <1>1, <2>1 DEF Inv, TypeOK
  <2>4. Genuine' BY <2>1 DEF Inv, Genuine, Sound, Faithful
  <2>5. OneReceiveAtATime' BY <1>1, <2>1, <2>2 DEF Inv, OneReceiveAtATime
  <2>6. HistoryIsCoherent' BY <2>1, <2>2 DEF Inv, HistoryIsCoherent, Range, RunResult
  <2>7. QED BY <2>3, <2>4, <2>5, <2>6 DEF Inv
<1>3. CASE r.run = runRef
  <2>1. CASE r.at = "receiving"
    BY <1>1, <1>3, <2>1, Advances DEF Continue, Waiting
  <2>2. CASE r.at = "stored"
    BY <1>1, <1>3, <2>2, Advances DEF Continue, Waiting
  <2>3. CASE r.at = "parsing"
    BY <1>1, <1>3, <2>3, Advances DEF Continue, Waiting
  <2>4. CASE r.at = "projecting"
    <3>1. Finish(r, sequenceRef) /\ runs' = runs \ {r} /\ sequenceRef' = sequenceRef
      BY <1>3, <2>4 DEF Continue
    <3>2. QED BY <1>1, <1>3, <2>4, <3>1, Finishes DEF Inv, TypeOK
  <2>5. QED BY <1>1, <2>1, <2>2, <2>3, <2>4 DEF RunRow, Waiting
<1>4. QED BY <1>2, <1>3

-----------------------------------------------------------------------------
(* The composer and the history.                                           *)

(* What the composer holds may change while nothing is received.           *)
LEMMA Composes ==
  ASSUME Inv,
         schemaId' \in SchemaIds \cup {Null}, deviceId' \in DeviceIds \cup {Null},
         schemaId' # Null => drafts' \in Drafts(schemaId'), gapByte' \in Gaps,
         load' \in {"away", "loading", "ready"} \cup LoadErrors,
         load' # "ready" => Live = {} /\ ~streaming,
         UNCHANGED <<shown, control, streaming, sequenceRef>>
  PROVE  Inv'
<1> USE DEF shown, control
<1>1. TypeOK' BY DEF Inv, TypeOK
<1>2. Genuine' BY DEF Inv, Genuine, Sound, Faithful
<1>3. Live' = Live BY DEF Live
<1>4. OneReceiveAtATime' BY <1>3 DEF Inv, OneReceiveAtATime
<1>5. HistoryIsCoherent' BY <1>3 DEF Inv, HistoryIsCoherent, Range, RunResult
<1>6. QED BY <1>1, <1>2, <1>4, <1>5 DEF Inv

LEMMA FirstDeviceFits == \A s : FirstDevice(s) \in DeviceIds \cup {Null}
<1> TAKE s
<1> DEFINE fitting == {i \in DOMAIN Devices : Fits(Devices[i], s)}
<1>1. \A i \in fitting : Devices[i] \in DeviceIds BY DEF DeviceIds
<1>2. CASE fitting = {} BY <1>2 DEF FirstDevice
<1>3. CASE fitting # {}
  <2>1. \E i \in fitting : \A j \in fitting : i <= j BY <1>3, CatalogAssumption
  <2>2. (CHOOSE i \in fitting : \A j \in fitting : i <= j) \in fitting BY <2>1
  <2>3. FirstDevice(s) = Devices[CHOOSE i \in fitting : \A j \in fitting : i <= j]
    BY <1>3 DEF FirstDevice
  <2>4. QED BY <1>1, <2>2, <2>3
<1>4. QED BY <1>2, <1>3

(* Every step of the composer, the history's selection and the catalog.    *)
LEMMA Clicks ==
  ASSUME Inv,
         \/ Enter \/ CatalogArrives \/ (\E error \in LoadErrors : CatalogFails(error))
         \/ (\E s \in SchemaIds : SelectSchema(s))
         \/ (\E d \in DeviceIds : SelectDevice(d))
         \/ Edit \/ (\E g \in Gaps : SelectGap(g))
  PROVE  Inv'
<1> USE DEF composer, shown, control
<1>1. TypeOK /\ OneReceiveAtATime /\ HistoryIsCoherent /\ Genuine BY DEF Inv
<1>2. CASE Enter
  <2>1. load = "away" /\ load' = "loading"
        /\ UNCHANGED <<composer, shown, control, streaming, sequenceRef>> BY <1>2 DEF Enter
  <2>2. Live = {} /\ ~streaming BY <1>1, <2>1 DEF OneReceiveAtATime
  <2>3. QED BY <1>1, <2>1, <2>2, Composes DEF TypeOK
<1>3. CASE CatalogArrives
  <2>1. load' = "ready" /\ UNCHANGED <<gapByte, shown, control, streaming, sequenceRef>>
    BY <1>3 DEF CatalogArrives
  <2>2. gapByte' \in Gaps BY <1>1, <2>1 DEF TypeOK
  <2>3. CASE Schemas = <<>>
    <3>1. schemaId' = Null /\ deviceId' = Null BY <1>3, <2>3 DEF CatalogArrives
    <3>2. QED BY <2>1, <2>2, <3>1, Composes
  <2>4. CASE Schemas # <<>>
    <3>1. Schemas[1] \in SchemaIds BY <2>4, SimulatorAssumption DEF SchemaIds
    <3>2. schemaId' = Schemas[1] /\ deviceId' = FirstDevice(Schemas[1])
          /\ drafts' = DefaultDrafts(Schemas[1])
      BY <1>3, <2>4 DEF CatalogArrives
    <3>3. DefaultDrafts(Schemas[1]) \in Drafts(Schemas[1]) BY <3>1, SimulatorAssumption
    <3>4. drafts' \in Drafts(schemaId') BY <3>2, <3>3
    <3>5. schemaId' \in SchemaIds \cup {Null} /\ deviceId' \in DeviceIds \cup {Null}
      BY <3>1, <3>2, FirstDeviceFits
    <3>6. QED BY <2>1, <2>2, <3>4, <3>5, Composes
  <2>5. QED BY <2>3, <2>4
<1>4. ASSUME NEW error \in LoadErrors, CatalogFails(error) PROVE Inv'
  <2>1. load = "loading" /\ load' = error
        /\ UNCHANGED <<composer, shown, control, streaming, sequenceRef>>
    BY <1>4 DEF CatalogFails
  <2>2. Live = {} /\ ~streaming BY <1>1, <2>1 DEF OneReceiveAtATime
  <2>3. QED BY <1>1, <2>1, <2>2, Composes DEF TypeOK
<1>5. ASSUME NEW s \in SchemaIds, SelectSchema(s) PROVE Inv'
  <2>1. /\ load = "ready" /\ ~busy
        /\ schemaId' = s /\ deviceId' = FirstDevice(s) /\ drafts' = DefaultDrafts(s)
        /\ phase' = "idle" /\ result' = Null
        /\ UNCHANGED <<load, gapByte, receipts, active, control, streaming, sequenceRef>>
    BY <1>5 DEF SelectSchema, Idle, Ready
  <2>2. Live' = Live /\ Live = {} BY <1>1, <2>1 DEF Live, OneReceiveAtATime
  <2>3. drafts' \in Drafts(schemaId') BY <2>1, SimulatorAssumption
  <2>4. schemaId' \in SchemaIds \cup {Null} /\ deviceId' \in DeviceIds \cup {Null}
    BY <2>1, FirstDeviceFits
  <2>5. TypeOK' BY <1>1, <2>1, <2>3, <2>4 DEF TypeOK
  <2>6. Genuine' BY <1>1, <2>1 DEF Genuine, Sound, Faithful
  <2>7. OneReceiveAtATime' BY <1>1, <2>1, <2>2, PhaseFacts DEF OneReceiveAtATime
  <2>8. HistoryIsCoherent' BY <1>1, <2>1, <2>2 DEF HistoryIsCoherent, Range, RunResult
  <2>9. QED BY <2>5, <2>6, <2>7, <2>8 DEF Inv
<1>6. ASSUME NEW d \in DeviceIds, SelectDevice(d) PROVE Inv'
  <2>1. load = "ready" /\ deviceId' = d
        /\ UNCHANGED <<load, schemaId, drafts, gapByte, shown, control, streaming, sequenceRef>>
    BY <1>6 DEF SelectDevice, Idle, Ready
  <2>2. QED BY <1>1, <2>1, Composes DEF TypeOK
<1>7. CASE Edit
  <2>1. PICK d : EditDrafts(d) /\ (d \in Texts(schemaId) \/ d \in TimeDrafts(schemaId, drafts)
                                  \/ d = DefaultDrafts(schemaId))
    BY <1>7 DEF Edit
  <2>2. load = "ready" /\ schemaId # Null /\ drafts' = d
        /\ UNCHANGED <<load, schemaId, deviceId, gapByte, shown, control, streaming, sequenceRef>>
    BY <2>1 DEF EditDrafts, Idle, Ready
  <2>3. schemaId \in SchemaIds /\ drafts \in Drafts(schemaId) BY <1>1, <2>2 DEF TypeOK
  <2>4. d \in Drafts(schemaId) BY <2>1, <2>3, SimulatorAssumption
  <2>5. QED BY <1>1, <2>2, <2>3, <2>4, Composes DEF TypeOK
<1>8. ASSUME NEW g \in Gaps, SelectGap(g) PROVE Inv'
  <2>1. load = "ready" /\ gapByte' = g
        /\ UNCHANGED <<load, schemaId, deviceId, drafts, shown, control, streaming, sequenceRef>>
    BY <1>8 DEF SelectGap, Idle, Ready
  <2>2. QED BY <1>1, <2>1, Composes DEF TypeOK
<1>9. QED BY <1>2, <1>3, <1>4, <1>5, <1>6, <1>7, <1>8

(* A receipt of the history is selected.                                   *)
LEMMA Selects ==
  ASSUME Inv, NEW i \in DOMAIN receipts, SelectReceipt(receipts[i])
  PROVE  Inv'
<1> USE DEF control
<1> DEFINE x == receipts[i]
<1>1. TypeOK /\ OneReceiveAtATime /\ HistoryIsCoherent /\ Genuine BY DEF Inv
<1>2. x \in ReceiptRow /\ x.status = "processed" /\ Faithful(x) /\ x \in Range(receipts)
  BY <1>1 DEF TypeOK, HistoryIsCoherent, Genuine, Range
<1>3. /\ load = "ready" /\ ~busy
      /\ schemaId' = x.schema /\ deviceId' = x.device /\ drafts' = RawDrafts(x.schema, x.fields)
      /\ active' = x /\ result' = RunResult(x) /\ phase' = x.status
      /\ UNCHANGED <<load, gapByte, receipts, control, streaming, sequenceRef>>
  BY <1>2 DEF SelectReceipt, Restored, Idle, Ready
<1>4. x.schema \in SchemaIds /\ x.device \in DeviceIds BY <1>2 DEF ReceiptRow
<1> HIDE DEF x
<1>5. RawDrafts(x.schema, x.fields) \in Drafts(x.schema)
  <2>1. x.payload \in Payloads(x.schema) BY <1>2 DEF Faithful, Sound
  <2>2. RawDrafts(x.schema, Parse(x.schema, x.payload).value.fields) \in Drafts(x.schema)
    BY <1>4, <2>1, CodecAssumption
  <2>3. x.fields = Parse(x.schema, x.payload).value.fields BY <1>2 DEF Faithful
  <2>4. QED BY <2>2, <2>3
<1>6. Live' = Live /\ Live = {} BY <1>1, <1>3 DEF Live, OneReceiveAtATime
<1>7. TypeOK' BY <1>1, <1>2, <1>3, <1>4, <1>5 DEF TypeOK
<1>8. Genuine' BY <1>1, <1>3 DEF Genuine, Sound, Faithful
<1>9. OneReceiveAtATime'
  <2>1. phase' \notin Waiting BY <1>2, <1>3, PhaseFacts
  <2>2. QED BY <1>1, <1>3, <1>6, <2>1 DEF OneReceiveAtATime
<1>10. HistoryIsCoherent'
  <2>1. active' # Null /\ receipts # <<>> BY <1>2, <1>3, NullAssumption DEF Range
  <2>2. QED BY <1>1, <1>2, <1>3, <1>6, <2>1 DEF HistoryIsCoherent, Range, RunResult
<1>11. QED BY <1>7, <1>8, <1>9, <1>10 DEF Inv

-----------------------------------------------------------------------------
(* The invariant.                                                          *)
LEMMA InvInit == Init => Inv
<1> SUFFICES ASSUME Init PROVE Inv
  OBVIOUS
<1>1. /\ load = "away" /\ schemaId = Null /\ deviceId = Null /\ gapByte = FirstGap
      /\ phase = "idle" /\ receipts = <<>> /\ active = Null /\ result = Null
      /\ sequenceRef = 0 /\ runRef = 0 /\ runs = {}
  BY DEF Init, Fresh
<1>2. busy = FALSE /\ busyRef = FALSE /\ streaming = FALSE BY DEF Init, Fresh
<1>3. Live = {} BY <1>1 DEF Live
<1>4. busy \in BOOLEAN /\ busyRef \in BOOLEAN /\ streaming \in BOOLEAN BY <1>2
<1>5. TypeOK BY <1>1, <1>4, NoReceipts, SimulatorAssumption DEF TypeOK
<1>6. Genuine BY <1>1 DEF Genuine
<1>7. OneReceiveAtATime BY <1>1, <1>2, <1>3, PhaseFacts DEF OneReceiveAtATime
<1>8. HistoryIsCoherent BY <1>1, <1>3, SimulatorAssumption DEF HistoryIsCoherent
<1>9. QED BY <1>5, <1>6, <1>7, <1>8 DEF Inv

LEMMA InvStep == Inv /\ [Next]_vars => Inv'
<1> SUFFICES ASSUME Inv, [Next]_vars PROVE Inv'
  OBVIOUS
<1>1. CASE \/ Enter \/ CatalogArrives \/ (\E error \in LoadErrors : CatalogFails(error))
           \/ (\E s \in SchemaIds : SelectSchema(s))
           \/ (\E d \in DeviceIds : SelectDevice(d))
           \/ Edit \/ (\E g \in Gaps : SelectGap(g))
  BY <1>1, Clicks
<1>2. CASE Leave \/ Retry \/ ClearSession BY <1>2, Resets
<1>3. CASE Receive
  <2>1. streaming' \in BOOLEAN BY <1>3 DEF Receive, Inv, TypeOK
  <2>2. SimulateReceive /\ UNCHANGED <<load, composer, receipts, active, result, sequenceRef>>
    BY <1>3 DEF Receive, composer
  <2>3. QED BY <2>1, <2>2, Starts
<1>4. CASE ToggleStream
  <2>1. load = "ready" /\ UNCHANGED <<load, composer, receipts, active, result, sequenceRef>>
    BY <1>4 DEF ToggleStream, Ready
  <2>2. streaming' \in BOOLEAN BY <1>4 DEF ToggleStream
  <2>3. CASE streaming \/ busyRef
    <3>1. UNCHANGED <<phase, control>> BY <1>4, <2>3 DEF ToggleStream
    <3> USE DEF composer, control
    <3>2. TypeOK' BY <2>1, <2>2, <3>1 DEF Inv, TypeOK
    <3>3. Genuine' BY <2>1, <3>1 DEF Inv, Genuine, Sound, Faithful
    <3>4. Live' = Live BY <3>1 DEF Live
    <3>5. OneReceiveAtATime' BY <2>1, <3>1, <3>4 DEF Inv, OneReceiveAtATime
    <3>6. HistoryIsCoherent' BY <2>1, <3>1, <3>4 DEF Inv, HistoryIsCoherent, Range, RunResult
    <3>7. QED BY <3>2, <3>3, <3>5, <3>6 DEF Inv
  <2>4. CASE ~(streaming \/ busyRef)
    <3>1. SimulateReceive BY <1>4, <2>4 DEF ToggleStream
    <3>2. QED BY <2>1, <2>2, <3>1, Starts
  <2>5. QED BY <2>3, <2>4
<1>5. CASE Tick
  <2>1. streaming' \in BOOLEAN BY <1>5 DEF Tick, Inv, TypeOK
  <2>2. SimulateReceive /\ UNCHANGED <<load, composer, receipts, active, result, sequenceRef>>
    BY <1>5 DEF Tick, composer
  <2>3. QED BY <2>1, <2>2, Starts
<1>6. ASSUME NEW r \in runs, Continue(r) PROVE Inv' BY <1>6, Continues
<1>7. ASSUME NEW i \in DOMAIN receipts, SelectReceipt(receipts[i]) PROVE Inv'
  BY <1>7, Selects
<1>8. CASE UNCHANGED vars
  <2> USE DEF vars, composer, shown, control
  <2>1. TypeOK' BY <1>8 DEF Inv, TypeOK
  <2>2. Genuine' BY <1>8 DEF Inv, Genuine, Sound, Faithful
  <2>3. Live' = Live BY <1>8 DEF Live
  <2>4. OneReceiveAtATime' BY <1>8, <2>3 DEF Inv, OneReceiveAtATime
  <2>5. HistoryIsCoherent' BY <1>8, <2>3 DEF Inv, HistoryIsCoherent, Range, RunResult
  <2>6. QED BY <2>1, <2>2, <2>4, <2>5 DEF Inv
<1>9. QED BY <1>1, <1>2, <1>3, <1>4, <1>5, <1>6, <1>7, <1>8 DEF Next

(* The types of the page's state: what it composes and receives exists in  *)
(* the catalog and came out of the generator and the parser.               *)
THEOREM TypeCorrect == Spec => []TypeOK
<1>1. Inv => TypeOK BY DEF Inv
<1>2. QED BY <1>1, InvInit, InvStep, PTL DEF Spec

(* However many receives are started, cancelled and streamed, at most one  *)
(* may act on the page, and the page's busy state and pipeline say so.     *)
THEOREM OneReceiveAlways == Spec => []OneReceiveAtATime
<1>1. Inv => OneReceiveAtATime BY DEF Inv
<1>2. QED BY <1>1, InvInit, InvStep, PTL DEF Spec

(* The history, the receipt in the panel and the outcome in the composer   *)
(* tell one story, for a history of any length.                            *)
THEOREM HistoryAlwaysCoherent == Spec => []HistoryIsCoherent
<1>1. Inv => HistoryIsCoherent BY DEF Inv
<1>2. QED BY <1>1, InvInit, InvStep, PTL DEF Spec

(* Any receipt of the history can be received again, with any gap byte,    *)
(* and says the same: this takes of the codec what CodecAssumption states. *)
THEOREM ReplayAlwaysFaithful == Spec => []ReplayIsFaithful
<1>1. Inv => ReplayIsFaithful
  <2> SUFFICES ASSUME Inv, NEW x \in Range(receipts), NEW gap \in Gaps
               PROVE  LET c == Restored(x)
                          again == Generate(c.schema, c.drafts, gap)
                          parsed == Parse(c.schema, again.value)
                      IN /\ Fits(c.device, c.schema)
                         /\ again.ok /\ parsed.ok
                         /\ parsed.value = [fields |-> x.fields, readings |-> x.readings]
    BY DEF ReplayIsFaithful
  <2>1. x \in ReceiptRow /\ x.status = "processed" /\ Faithful(x)
    BY DEF Inv, TypeOK, HistoryIsCoherent, Genuine, Range
  <2>2. x.schema \in SchemaIds BY <2>1 DEF ReceiptRow
  <2>3. x.payload \in Payloads(x.schema) /\ Fits(x.device, x.schema)
        /\ x.fields = Parse(x.schema, x.payload).value.fields
        /\ x.readings = Parse(x.schema, x.payload).value.readings
    BY <2>1 DEF Faithful, Sound
  <2> DEFINE again == Generate(x.schema, RawDrafts(x.schema, x.fields), gap)
  <2>4. again.ok /\ Parse(x.schema, again.value).ok
        /\ Parse(x.schema, again.value).value = [fields |-> x.fields, readings |-> x.readings]
    BY <2>2, <2>3, CodecAssumption
  <2>5. Restored(x) = [schema |-> x.schema, device |-> x.device,
                       drafts |-> RawDrafts(x.schema, x.fields)]
    BY <2>1 DEF Restored
  <2>6. QED BY <2>3, <2>4, <2>5
<1>2. QED BY <1>1, InvInit, InvStep, PTL DEF Spec
=============================================================================
