CONSTANTS
  Burst = 8
  SramWords = 1024
  NBank = 32
  Latency = 4
  Overhead = 16
  MaxResets = 1
  MaxCycles = 40
  BankXor <- BitXor
  Descriptors <- MCDescriptors
SPECIFICATION DmaSpec
INVARIANTS
  BurstsAsModelled
  FixedOverhead
  OneWritePerBank
  HashedBanksMeetAtFolds
PROPERTIES
  ImplementsCopy
  TransferFinishes
