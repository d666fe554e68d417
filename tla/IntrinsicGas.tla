---------------------------- MODULE IntrinsicGas ----------------------------
(***************************************************************************)
(* core/state_transition.go, IntrinsicGas and toWordSize: the gas a        *)
(* message pays before anything runs.  A payload is abstracted to its      *)
(* number of non-zero and of zero bytes, an access list to its number of   *)
(* addresses and of storage keys (a nil list is one with neither).  uint64 *)
(* is the range 0..MaxU64: additions and products wrap, and the guards of  *)
(* the code that are there to see it coming are kept as they are written.  *)
(***************************************************************************)
EXTENDS ChainRules

CONSTANTS
  TxGas,                  \* params.TxGas
  TxGasContractCreation,  \* params.TxGasContractCreation
  NonZeroGasFrontier,     \* params.TxDataNonZeroGasFrontier
  NonZeroGasEIP2028,      \* params.TxDataNonZeroGasEIP2028
  ZeroGas,                \* params.TxDataZeroGas
  InitCodeWordGas,        \* params.InitCodeWordGas
  WordBytes,              \* 32
  AddressGas,             \* params.TxAccessListAddressGas
  StorageKeyGas           \* params.TxAccessListStorageKeyGas

ASSUME IntrinsicAssumption ==
  /\ {NonZeroGasFrontier, NonZeroGasEIP2028, ZeroGas,
      InitCodeWordGas, WordBytes} \subseteq Nat \ {0}
  /\ (MaxU64 + 1) % WordBytes = 0
  /\ {AddressGas, StorageKeyGas} \subseteq Nat
  /\ {TxGas, TxGasContractCreation} \subseteq 0..MaxU64

(* The result of IntrinsicGas when one of its overflow guards fires.       *)
GasUintOverflow == -1

-----------------------------------------------------------------------------
ToWordSize(size) ==
  IF size > MaxU64 - (WordBytes - 1)
  THEN MaxU64 \div WordBytes + 1
  ELSE (size + (WordBytes - 1)) \div WordBytes

(* if (math.MaxUint64-gas)/price < count { return 0, ErrGasUintOverflow }  *)
(* gas += count * price                                                    *)
PricedMutant(gas, count, price) ==
  IF gas = GasUintOverflow \/ MaxU64 \div price < count
  THEN GasUintOverflow
  ELSE Uint64(gas + count * price)

Priced(gas, count, price) ==
  IF gas = GasUintOverflow \/ (MaxU64 - gas) \div price < count
  THEN GasUintOverflow
  ELSE Uint64(gas + count * price)

DataGas(base, nz, z, creation) ==
  LET nonZeroGas == IF IsIstanbul THEN NonZeroGasEIP2028 ELSE NonZeroGasFrontier
      bytes      == Priced(Priced(base, nz, nonZeroGas), z, ZeroGas)
  IN  IF creation /\ IsShanghai
      THEN Priced(bytes, ToWordSize(nz + z), InitCodeWordGas)
      ELSE bytes

(* The access list is added without a guard: the sum wraps.                *)
IntrinsicGas(nz, z, addresses, keys, creation) ==
  LET base == IF creation /\ IsHomestead THEN TxGasContractCreation ELSE TxGas
      gas  == IF nz + z > 0 THEN DataGas(base, nz, z, creation) ELSE base
  IN  IF gas = GasUintOverflow THEN GasUintOverflow
      ELSE Uint64(gas + addresses * AddressGas + keys * StorageKeyGas)
=============================================================================
