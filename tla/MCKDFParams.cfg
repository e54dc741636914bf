CONSTANTS
  Base = 8
  Wide = 16777216
  IntBits = 7
  Pow2 <- Powers
  KiB = 4
  Block = 2
  MaxKDFMemBytes = 2048
  MaxArgonTimeParam = 4
  MaxArgonThreadsParam = 2
  MinArgonMemKiB = 2
  MinScryptLogN = 1
  MaxScryptLogN = 6
  MaxScryptR = 32
  MaxScryptP = 2
  Configured <- SomeKDFs
SPECIFICATION Spec
INVARIANTS AcceptedIsBounded AcceptedDerives ParametersSurvive
