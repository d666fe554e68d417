----------------------------- MODULE Deployment -----------------------------
(***************************************************************************)
(* What one contract creation promises to whoever asked for it, in terms   *)
(* of what EVM.create (core/vm/evm.go) returns and what it leaves in the   *)
(* state: gas goes in and only ever shrinks, whatever the init code calls; *)
(* code is left only by a creation without an error, and only code that    *)
(* was paid for; and every error says what became of the gas.  Nothing     *)
(* here says how create finds out which of these it is.                    *)
(*                                                                         *)
(* Both sides meet here: the interpreter, with all its nested frames,      *)
(* provides this, and the message pipeline asks for no more.               *)
(***************************************************************************)
EXTENDS CreateRules

VARIABLES
  running,   \* a creation has been asked for and has not returned
  gas, err,  \* the gas in hand, and in the end what create returns
  stored     \* the new account has code

deployment == <<running, gas, err, stored>>

DeploymentInit == running = FALSE

(* Between deployments the gas and the error belong to the host.           *)
Outside == ~running /\ ~running'

Enter == ~running /\ running' /\ gas' \in Nat

Spend ==
  /\ running /\ running'
  /\ gas' \in 0..gas
  /\ UNCHANGED <<err, stored>>

Return == running /\ ~running'

(* Nothing was tried, and nothing is charged.                              *)
Refused == Return /\ err' \in EarlyErrors /\ gas' = gas /\ ~stored'

(* The code is within the limit and paid for.                              *)
Succeeded ==
  /\ Return
  /\ err' = NoError
  /\ \E size \in CodeSizes :
       /\ IsEIP158 => size <= MaxCodeSize
       /\ stored' = (size > 0)
       /\ gas' \in 0..(gas - size * CreateDataGas)

(* The code asked to revert, or cannot be paid for under the first rules:  *)
(* the caller gets the rest back.                                          *)
Kept ==
  /\ Return
  /\ \/ err' = "ErrExecutionReverted"
     \/ ~IsHomestead /\ err' = "ErrCodeStoreOutOfGas"
  /\ gas' \in 0..gas
  /\ ~stored'

(* Any other error takes everything.                                       *)
Burnt ==
  /\ Return
  /\ \/ err' \in {"ErrExecution", "ErrContractAddressCollision"}
     \/ IsHomestead /\ err' = "ErrCodeStoreOutOfGas"
     \/ IsEIP158 /\ err' = "ErrMaxCodeSizeExceeded"
     \/ IsLondon /\ err' = "ErrInvalidCode"
  /\ gas' = 0
  /\ ~stored'

DeploymentNext ==
  Outside \/ Enter \/ Spend \/ Refused \/ Succeeded \/ Kept \/ Burnt

DeploymentSpec == DeploymentInit /\ [][DeploymentNext]_deployment
=============================================================================
