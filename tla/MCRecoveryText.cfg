CONSTANTS
  RecoveryCodeLen = 7
  Codes <- SomeCodes
  Wrong <- SomeWrong
  MaxSlips = 2
SPECIFICATION Spec
INVARIANTS EnteredAsPrinted LostSymbolIsRefused ReadAsItselfOnly
