----------------------------- MODULE ChainRules -----------------------------
(***************************************************************************)
(* The rules of the block a message runs in (params.Rules and ChainConfig  *)
(* of go-ethereum, as core/ and core/vm/ consult them) and the widths of   *)
(* the machine integers the code computes with.  One EVM has one set of    *)
(* rules for its whole life, so they are constants.  IsEIP4762 (verkle     *)
(* witnesses) is FALSE throughout.                                         *)
(***************************************************************************)
EXTENDS Integers

CONSTANTS
  IsHomestead, IsEIP158, IsIstanbul, IsLondon, IsShanghai, IsCancun,
  MaxU64,    \* math.MaxUint64
  U256       \* 2^256, the first amount that does not fit uint256.Int

ASSUME RulesAssumption ==
  /\ {IsHomestead, IsEIP158, IsIstanbul, IsLondon, IsShanghai, IsCancun}
       \subseteq BOOLEAN
  /\ IsShanghai => IsLondon
  /\ IsCancun => IsLondon
  /\ MaxU64 \in Nat \ {0}
  /\ U256 \in Nat \ {0}

(* Conversions to the machine types: both drop the bits that do not fit.   *)
Uint64(n)  == n % (MaxU64 + 1)
Uint256(n) == n % U256
=============================================================================
