\* Prices of messages and of precompiled contracts, around every threshold of
\* 8-bit words.
SPECIFICATION Spec
CONSTANTS
  Inputs <- MCInputs
  Submitted <- MCSubmitted
  None = None
  BaseGas <- MCBaseGas
  UnitGas <- MCUnitGas
  Discounts <- MCDiscounts
  DiscountBase = 10
  MinModExpGas = 5
  IsHomestead = TRUE
  IsEIP158 = TRUE
  IsIstanbul = TRUE
  IsLondon = TRUE
  IsShanghai = TRUE
  IsCancun = TRUE
  NoBaseFee = FALSE
  BaseFee = 3
  BlobBaseFee = 1
  GasPerBlob = 1
  MaxU64 = 255
  U256 = 1024
  TxGas = 48
  TxGasContractCreation = 64
  NonZeroGasFrontier = 4
  NonZeroGasEIP2028 = 32
  ZeroGas = 1
  InitCodeWordGas = 16
  WordBytes = 32
  AddressGas = 2
  StorageKeyGas = 1
INVARIANTS
  PricesAgree
  IntrinsicGasExact
  WorkIsPaid
  OperandsInPlace
  ForksKeepAnswers
