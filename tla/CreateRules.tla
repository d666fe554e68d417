----------------------------- MODULE CreateRules -----------------------------
(***************************************************************************)
(* The decisions of EVM.create (core/vm/evm.go) that do not depend on who  *)
(* called it: when an address is taken, with which error a deployment      *)
(* ends, and the gas it leaves.  Shared by the modules that create         *)
(* contracts.  The witness gas of EIP-4762 is not modelled: every chain    *)
(* considered here has IsEIP4762 = FALSE.                                  *)
(***************************************************************************)
EXTENDS ChainRules

CONSTANTS
  MaxCodeSize,     \* params.MaxCodeSize
  CreateDataGas,   \* params.CreateDataGas, per byte of code
  CodeSizes        \* lengths of code that init code may return

ASSUME CreateAssumption ==
  {MaxCodeSize, CreateDataGas} \subseteq Nat /\ CodeSizes \subseteq Nat

NoError == "nil"

(* The errors of create and those it can receive from Interpreter.Run.  An *)
(* error of an instruction other than a revert is "ErrExecution".          *)
RunErrors == {NoError, "ErrExecutionReverted", "ErrExecution"}
EarlyErrors == {"ErrDepth", "ErrInsufficientBalance", "ErrNonceUintOverflow"}
DeployErrors == {"ErrMaxCodeSizeExceeded", "ErrInvalidCode", "ErrCodeStoreOutOfGas"}
CreateErrors ==
  RunErrors \cup EarlyErrors \cup DeployErrors \cup {"ErrContractAddressCollision"}

-----------------------------------------------------------------------------
(* An address is taken when its nonce, its code or its storage is not empty.*)
AddressTaken(nonce, hasCode, hasStorage) == nonce # 0 \/ hasCode \/ hasStorage

(* What init code that was given this much gas can have done when Run      *)
(* returns: the gas it left, Run's error, the length of the returned code  *)
(* and whether that starts with the byte 0xEF.                             *)
RunResults(gas) ==
  [gas : 0..gas, err : RunErrors, size : CodeSizes, startsEF : BOOLEAN]

CodeCost(run) == run.size * CreateDataGas

DeployError(run) ==
  IF run.err # NoError THEN run.err
  ELSE IF IsEIP158 /\ run.size > MaxCodeSize THEN "ErrMaxCodeSizeExceeded"
  ELSE IF IsLondon /\ run.size >= 1 /\ run.startsEF THEN "ErrInvalidCode"
  ELSE IF run.gas < CodeCost(run) THEN "ErrCodeStoreOutOfGas"
  ELSE NoError

(* The error clears the frame: revert to the snapshot and, unless the      *)
(* code asked to revert, burn what is left.                                *)
Undoes(err) == err # NoError /\ (IsHomestead \/ err # "ErrCodeStoreOutOfGas")

GasAfterDeploy(run) ==
  LET err == DeployError(run) IN
  IF err = NoError THEN run.gas - CodeCost(run)
  ELSE IF Undoes(err) /\ err # "ErrExecutionReverted" THEN 0
  ELSE run.gas
=============================================================================
