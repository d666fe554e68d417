------------------------------- MODULE RegPool -------------------------------
(***************************************************************************)
(* core/vm/reg_pool.go and the constructor of core/vm/reg.go.  Before it   *)
(* executes an instruction the interpreter appends a register for it, and  *)
(* the register is known from then on by its index: the call depth, the    *)
(* program counter and how often that pair has come up before.             *)
(*                                                                         *)
(* Depths and program counters come in any order: loops, calls and sibling *)
(* calls at one depth all feed the one pool.  An operation is known here   *)
(* by its minStack.                                                        *)
(***************************************************************************)
EXTENDS Integers, Sequences

CONSTANTS
  Depths, PCs,    \* depths and program counters that occur
  MinStacks,      \* the operations, by the stack items they need
  Slots,          \* places of a Reg for stack items: L, M, R0 to R4, seven
  MaxRegs         \* bound on the length of a run

ASSUME PoolAssumption ==
  /\ Depths \subseteq Nat
  /\ PCs \subseteq Nat
  /\ MinStacks \subseteq Nat
  /\ Slots \in Nat
  /\ MaxRegs \in Nat

VARIABLES
  regkeyList,        \* the indices of the registers, in order
  loopLookUpTable,   \* <<depth, pc>> -> the last loop given out
  panicked

vars == <<regkeyList, loopLookUpTable, panicked>>

Keys == Depths \X PCs
Index == [depth : Depths, pc : PCs, loop : Nat]

TypeOK ==
  /\ regkeyList \in Seq(Index)
  /\ DOMAIN loopLookUpTable \subseteq Keys
  /\ \A k \in DOMAIN loopLookUpTable : loopLookUpTable[k] \in Nat
  /\ panicked \in BOOLEAN

Init ==
  /\ regkeyList = <<>>
  /\ loopLookUpTable = [k \in {} |-> 0]
  /\ panicked = FALSE

-----------------------------------------------------------------------------
LookupMutant(k) == IF k \in DOMAIN loopLookUpTable THEN loopLookUpTable[k] ELSE 0

LookupFromOneMutant(k) ==
  IF k \in DOMAIN loopLookUpTable THEN loopLookUpTable[k] + 1 ELSE 1

Lookup(k) ==
  IF k \in DOMAIN loopLookUpTable THEN loopLookUpTable[k] + 1 ELSE 0

Looked(k) ==
  [j \in DOMAIN loopLookUpTable \cup {k} |->
     IF j = k THEN Lookup(k) ELSE loopLookUpTable[j]]

(* Append: look the loop up, build the register, add it to the list.  The  *)
(* constructor panics at the first stack item it has no place for, after   *)
(* the table was changed.                                                  *)
AppendReg(d, p, minStack) ==
  LET k == <<d, p>> IN
  /\ ~panicked
  /\ Len(regkeyList) < MaxRegs
  /\ loopLookUpTable' = Looked(k)
  /\ IF minStack <= Slots
     THEN /\ regkeyList' = Append(regkeyList, [depth |-> d, pc |-> p, loop |-> Lookup(k)])
          /\ UNCHANGED panicked
     ELSE panicked' = TRUE /\ UNCHANGED regkeyList

Next == \E d \in Depths, p \in PCs, n \in MinStacks : AppendReg(d, p, n)

Spec == Init /\ [][Next]_vars

-----------------------------------------------------------------------------
(* "We index a unique reg by depth, pc, loop" (reg.go:6): no two registers *)
(* share an index, however calls and loops are interleaved.                *)
IndexUnique ==
  \A i, j \in 1..Len(regkeyList) :
    i # j => regkeyList[i] # regkeyList[j]

(* The loops of one place count up from 0 in the order of execution, with  *)
(* no gap: the last register of a place says how often it was executed.    *)
LoopsInOrder ==
  \A j \in 1..Len(regkeyList) :
    \A n \in 0..(regkeyList[j].loop - 1) :
      \E i \in 1..(j - 1) : regkeyList[i] = [regkeyList[j] EXCEPT !.loop = n]

(* Why indices are unique: the table is ahead of every register given out. *)
PoolInv ==
  /\ TypeOK
  /\ \A i \in 1..Len(regkeyList) :
       LET k == <<regkeyList[i].depth, regkeyList[i].pc>> IN
       k \in DOMAIN loopLookUpTable /\ regkeyList[i].loop <= loopLookUpTable[k]
  /\ IndexUnique
=============================================================================
