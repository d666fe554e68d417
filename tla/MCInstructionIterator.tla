----------------------- MODULE MCInstructionIterator -----------------------
(* Every code of up to four bytes over a STOP, a byte that is no opcode,   *)
(* the opcode with three names, and the opcodes on both sides of either    *)
(* end of the pushes; a longest push with one byte too few, with its whole *)
(* argument, and with a byte after it.                                     *)
EXTENDS InstructionIterator

MCBytes == {\h00, \h0C, \h44, \h5E, \h5F, \h60, \h61, \h7F, \h80}

MCCodes ==
  UNION {[1..n -> MCBytes] : n \in 0..4}
  \cup {<<\h7F>> \o [i \in 1..n |-> \h60] : n \in 31..33}
=============================================================================
