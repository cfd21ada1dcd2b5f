---------------------------- MODULE MCIngestion ----------------------------
(***************************************************************************)
(* Small instances of Ingestion for TLC.                                   *)
(***************************************************************************)
EXTENDS Ingestion, TLC

CONSTANTS w1, w2, d1, s1, m1, m2, temp, t1, t2, l1, l2, telemetry, bare, full,
          good, bad, huge

(* Payload good decodes under layout full, bad has the right length but    *)
(* does not decode, huge exceeds the request limit.                        *)
MCLayouts == {bare, full}
MCPayloads == {good, bad, huge}
MCSize == [p \in MCPayloads |-> IF p = huge THEN 3 ELSE 2]
MCExtent == (bare :> 0) @@ (full :> 2)
MCTargets == (bare :> {}) @@ (full :> {temp})
MCDecodes == (bare :> MCPayloads) @@ (full :> {good})
(* Device type t2 does not support the parameter the rules write.          *)
MCAssigned == [t \in DeviceTypes |-> IF t = t1 THEN {temp} ELSE {}]

Telemetry(m, p) == [message |-> m, localId |-> l1, eventType |-> telemetry,
                    version |-> 1, payload |-> p]
MCEnvelopes == {Telemetry(m1, good), Telemetry(m1, bad)}
MCRejected == {Telemetry(m1, huge), [Telemetry(m1, good) EXCEPT !.eventType = Null]}
MCAnyRequest == MCEnvelopes \cup MCRejected

Sensor == [localId |-> l1, deviceType |-> t1, active |-> TRUE]
Version(v) == [eventType |-> telemetry, deviceType |-> t1, version |-> v,
               length |-> 2, layout |-> full]
NoDevice == {[d \in Devices |-> Absent]}
NoSchema == {[s \in Schemas |-> Absent]}
OneDevice == {[d \in Devices |-> IF d = d1 THEN Sensor ELSE Absent]}
OneSchema == {[s \in Schemas |-> IF s = s1 THEN Version(1) ELSE Absent]}
MaybeDevice == NoDevice \cup OneDevice
MaybeSchema == NoSchema \cup OneSchema

Symmetry == Permutations(Workers)
=============================================================================
