\* Since Cancun: base fee, blobs, init code limit; the host checks accounts.
SPECIFICATION Spec
CONSTANTS
  alice = alice
  miner = miner
  wallet = wallet
  c0 = c0
  c1 = c1
  None = None
  Addr <- MCAddr
  Coinbase = miner
  CreateAddr <- MCCreateAddr
  HasStorage = {}
  Txs <- MCTxs
  SkipChoices = {FALSE}
  IsHomestead = TRUE
  IsEIP158 = TRUE
  IsIstanbul = TRUE
  IsLondon = TRUE
  IsShanghai = TRUE
  IsCancun = TRUE
  NoBaseFee = FALSE
  BaseFee = 2
  BlobBaseFee = 1
  GasPerBlob = 1
  MaxU64 = 15
  U256 = 64
  TxGas = 3
  TxGasContractCreation = 4
  NonZeroGasFrontier = 4
  NonZeroGasEIP2028 = 1
  ZeroGas = 1
  InitCodeWordGas = 1
  WordBytes = 4
  AddressGas = 1
  StorageKeyGas = 1
  MaxInitCodeSize = 3
  MaxCodeSize = 2
  CreateDataGas = 1
  CodeSizes = {0, 1, 3}
  RefundCounters = {0, 1, 9}
  RefundQuotient = 2
  RefundQuotientEIP3529 = 5
  InitBalances <- MCBalances
  InitNonces <- MCInitNonces
  InitCode <- MCInitCode
  InitPools = {0, 14}
INVARIANTS
  TypeOK
  FundsReserved
  GasAccounted
  TipNotNegative
  NonceCoversMessages
  NonceAdvancesOnce
  IntrinsicGasStaysPaid
PROPERTIES
  NoReplay
  SettlesMessages
\* A panic ends the process, and no transaction of the instance need be left.
CHECK_DEADLOCK FALSE
