SPECIFICATION Spec
CONSTANTS
  f1 = f1
  f2 = f2
  PerSecond = 10
  PerMilli = 10
  MaxExact = 639
  Microseconds <- MCMicroseconds
  MinSecond <- MCMinSecond
  MaxSecond = 90
  MaxSafe = 950
  MaxBigint = 980
  MaxPayload = 6
  Null = Null
  Alphabet <- MCAlphabet
  Schemas <- MCSchemas
  Draft <- MCDraft
  Payloads <- MCPayloads
  Gaps <- MCGaps
  Nows <- MCNows
CHECK_DEADLOCK FALSE
INVARIANTS DecodersAgree GeneratedIsAccepted ReplayRestores EditorStartsValid
