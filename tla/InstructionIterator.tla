------------------------- MODULE InstructionIterator -------------------------
(***************************************************************************)
(* core/asm/asm.go: the iterator that walks a code instruction by          *)
(* instruction, skipping the arguments of PUSH opcodes, and the loop of    *)
(* PrintDisassembled and Disassemble around it, with the names             *)
(* core/vm/opcode.go gives.  A code is a sequence of bytes.                *)
(***************************************************************************)
EXTENDS Opcodes, SequencesExt

CONSTANT Codes           \* the codes that are walked

ASSUME IteratorAssumption == Codes \subseteq Seq(Bytes)

VARIABLES
  code, pc, arg, error, started,  \* the fields of the iterator
  instrs,                         \* the lines so far, printed or collected
  ended                           \* the loop has seen Next return false

vars == <<code, pc, arg, error, started, instrs, ended>>

Byte(i) == code[i + 1]            \* it.code[i]

ArgLength(op) == IF IsPush(op) THEN op - OpCode["PUSH0"] ELSE 0

Init ==
  /\ code \in Codes
  /\ pc = 0
  /\ arg = <<>>
  /\ error = FALSE
  /\ started = FALSE
  /\ instrs = <<>>
  /\ ended = FALSE

-----------------------------------------------------------------------------
(* Next, in the order of its returns.  The first two return false.         *)
Exhausted == error \/ Len(code) <= pc

NextPCMutant == IF started THEN pc + Len(arg) ELSE pc

NextPC == IF started THEN pc + Len(arg) + 1 ELSE pc

ReturnExhausted ==
  /\ ~ended
  /\ Exhausted
  /\ ended' = TRUE
  /\ UNCHANGED <<code, pc, arg, error, started, instrs>>

ReturnEnd ==
  /\ ~ended
  /\ ~Exhausted
  /\ Len(code) <= NextPC
  /\ pc' = NextPC
  /\ arg' = <<>>
  /\ started' = TRUE
  /\ ended' = TRUE
  /\ UNCHANGED <<code, error, instrs>>

Incomplete(at) ==
  IsPush(Byte(at)) /\ Len(code) < at + 1 + ArgLength(Byte(at))

ReturnIncomplete ==
  /\ ~ended
  /\ ~Exhausted
  /\ NextPC < Len(code)
  /\ Incomplete(NextPC)
  /\ pc' = NextPC
  /\ arg' = <<>>
  /\ started' = TRUE
  /\ error' = TRUE
  /\ ended' = TRUE
  /\ UNCHANGED <<code, instrs>>

(* A listing has no more lines than the code has bytes.  The bound is on   *)
(* the model; Terminates fails where it is reached.                        *)
MoreLines == Len(instrs) < Len(code)

(* it.code[it.pc+1 : u], and the line: an empty argument is left out.      *)
Argument(at) == SubSeq(code, at + 2, at + 1 + ArgLength(Byte(at)))

ReturnInstruction ==
  /\ ~ended
  /\ ~Exhausted
  /\ NextPC < Len(code)
  /\ ~Incomplete(NextPC)
  /\ MoreLines
  /\ pc' = NextPC
  /\ arg' = Argument(NextPC)
  /\ started' = TRUE
  /\ instrs' = Append(instrs, [pc |-> NextPC, op |-> String(Byte(NextPC)),
                               arg |-> Argument(NextPC)])
  /\ UNCHANGED <<code, error, ended>>

(* What Disassemble returns: no lines with an error.                       *)
Disassembled == IF error THEN <<>> ELSE instrs

Next == ReturnExhausted \/ ReturnEnd \/ ReturnIncomplete \/ ReturnInstruction

(* The loop of Disassemble calls Next until it returns false.              *)
Spec == Init /\ [][Next]_vars /\ WF_vars(Next)

-----------------------------------------------------------------------------
(* What an instruction boundary is, said without an iterator: the first    *)
(* byte, and each byte that follows an instruction and its argument.       *)
IsBoundary ==
  LET boundary[i \in 0..Len(code)] ==
        \/ i = 0
        \/ \E j \in 0..(i - 1) : i = j + 1 + ArgLength(Byte(j)) /\ boundary[j]
  IN  boundary

CutOff(i) == IsBoundary[i] /\ i + 1 + ArgLength(Byte(i)) > Len(code)

(* A listing put together again, with the names looked up in the other     *)
(* table.                                                                  *)
Assembled(lines) ==
  FlattenSeq([i \in DOMAIN lines |-> <<StringToOp(lines[i].op)>> \o lines[i].arg])

(* The code up to a boundary; a byte that is no opcode has come back as a  *)
(* STOP, but stays what it is inside an argument.                          *)
Recovered(end) ==
  [i \in 1..end |->
     IF IsBoundary[i - 1] /\ opCodeToString[code[i]] = ""
     THEN OpCode["STOP"] ELSE code[i]]

(* Disassembling loses nothing: the lines returned assemble to the code,   *)
(* each shown at the place it takes, on every code.  The iterator fails    *)
(* exactly when an argument is cut off by the end of the code, and then at *)
(* that instruction; Disassemble returns nothing then, and the lines of    *)
(* PrintDisassembled are those of all the instructions before it.          *)
ListingRebuilds ==
  ended =>
    /\ error <=> \E i \in 0..(Len(code) - 1) : CutOff(i)
    /\ error => CutOff(pc) /\ Assembled(instrs) = Recovered(pc)
    /\ ~error => Assembled(Disassembled) = Recovered(Len(code))
    /\ \A i \in DOMAIN instrs :
         instrs[i].pc = Len(Assembled(SubSeq(instrs, 1, i - 1)))

(* The walk comes to an end, on every code.                                *)
Terminates == <>ended
=============================================================================
