\* An application opens a contract with an ABI of the library.
SPECIFICATION Spec
CONSTANTS
  MaxCalls = 1
  MaxAsks = 0
  Slot <- MCSlot
  Fresh = 1
  MaxTime = 0
  Uses <- ShippedUses
  Scale = 10
  GasPerSat <- MCGasPerSat
  Fees <- MCFees
  Challenge <- MCChallenge
  Workers = 2
  Refusals <- MCRefusals
INVARIANTS
  ContractOpens
CHECK_DEADLOCK FALSE
