CONSTANTS
  Base = 6
  Magic <- Signature
  FormatVersion = 1
  IDLen = 1
  HKDFSaltLen = 1
  NonceLen = 1
  MaxKDFParamsLen = 2
  MaxSaltLen = 1
  MaxChallengeLen = 1
  MaxLabelLen = 6
  WrappedOverhead = 1
  MaxWrappedLen = 3
  MaxSlotCount = 2
  MaxEnvelopeLen = 90
  ParamsLen = 1
  Affordable <- Bounds
  Written <- SomeEnvelopes
  Stray <- SomeStray
SPECIFICATION Spec
INVARIANTS TypeOK ReaderStaysInBody ParsedIsCanonical WrittenIsRead
  DamagedLengthIsRefused
