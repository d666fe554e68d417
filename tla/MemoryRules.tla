----------------------------- MODULE MemoryRules -----------------------------
(***************************************************************************)
(* core/vm/common.go and the rounding of Interpreter.Run: from an offset   *)
(* and a length on the stack, both 256-bit words, to the bytes the memory  *)
(* must have.  uint64 is 0..MaxU64, and sums and products wrap.            *)
(***************************************************************************)
EXTENDS ChainRules

CONSTANT WordBytes    \* 32

ASSUME MemoryAssumption ==
  /\ WordBytes \in Nat \ {0}
  /\ \E words \in 0..(MaxU64 + 1) : MaxU64 + 1 = words * WordBytes

TooBig == -1     \* the overflow result

(* The sum wraps, and is then smaller than its parts.                      *)
CalcMemSizeMutant(off, len) ==
  IF len = 0 THEN 0
  ELSE IF len > MaxU64 \/ off > MaxU64 THEN TooBig
  ELSE (off + len) % (MaxU64 + 1)

CalcMemSize(off, len) ==
  IF len = 0 THEN 0
  ELSE IF len > MaxU64 \/ off > MaxU64 \/ (off + len) % (MaxU64 + 1) < off THEN TooBig
  ELSE (off + len) % (MaxU64 + 1)

ToWordSize(size) ==
  IF size > MaxU64 - (WordBytes - 1)
  THEN MaxU64 \div WordBytes + 1
  ELSE (size + (WordBytes - 1)) \div WordBytes

(* What Run resizes to: whole words, or an overflow of either computation. *)
MemorySize(off, len) ==
  LET size  == CalcMemSize(off, len)
      bytes == ToWordSize(size) * WordBytes
  IN  IF size = TooBig \/ bytes > MaxU64 THEN TooBig ELSE bytes
=============================================================================
