SPECIFICATION Spec
CONSTANTS
  t1 = t1
  t2 = t2
  p1 = p1
  p2 = p2
  s1 = s1
  s2 = s2
  f1 = f1
  f2 = f2
  q1 = q1
  q2 = q2
  g1 = g1
  c1 = c1
  e1 = e1
  e2 = e2
  k1 = k1
  k2 = k2
  Absent = Absent
  Null = Null
  EventTypes = {e1, e2}
  DeviceTypes = {t1, t2}
  Parameters = {p1, p2}
  Schemas = {s1, s2}
  Fields = {f1, f2}
  Rules = {q1, q2}
  Tabs = {g1}
  Charts = {c1}
  Codes = {k1, k2}
  Versions = {1}
  MaxRows = 8
  Lengths = {1}
  Codecs = {"integer", "utf8"}
  Roles = {"metric", "timestamp"}
  ValueTypes = {"integer", "datetime", "string"}
  Spans <- MCSpans
SYMMETRY Symmetry
INVARIANTS
  FieldsStayClean
  RulesStayClean
  ReadingsStayClean
  NothingDangles
PROPERTIES
  UsedIsFrozen
