SPECIFICATION Spec
CONSTANTS
  w1 = w1
  w2 = w2
  d1 = d1
  s1 = s1
  m1 = m1
  m2 = m2
  temp = temp
  t1 = t1
  t2 = t2
  l1 = l1
  l2 = l2
  telemetry = telemetry
  bare = bare
  full = full
  good = good
  bad = bad
  huge = huge
  Absent = Absent
  Deleted = Deleted
  Null = Null
  Workers = {w1, w2}
  Devices = {d1}
  Schemas = {s1}
  LocalIds = {l1, l2}
  DeviceTypes = {t1, t2}
  EventTypes = {telemetry}
  Versions = {1, 2}
  Lengths = {2}
  Layouts <- MCLayouts
  Bare = bare
  Payloads <- MCPayloads
  Parameters = {temp}
  Size <- MCSize
  Extent <- MCExtent
  Targets <- MCTargets
  Decodes <- MCDecodes
  Assigned <- MCAssigned
  Messages = {m1}
  Envelopes <- MCEnvelopes
  MaxPayload = 2
  InitialDevices <- MaybeDevice
  InitialSchemas <- MaybeSchema
  EditsDuringRequests = TRUE
  MaxEdits = 2
  MaxFaults = 1
SYMMETRY Symmetry
INVARIANTS
  ReadingsComplete
  AnswersAgree
PROPERTIES
  ProcessedIsFinal
  EvidenceKept
  ReferencedIsFrozen
  KeepsPromise
