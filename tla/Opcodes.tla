------------------------------ MODULE Opcodes ------------------------------
(***************************************************************************)
(* core/vm/opcode.go: the opcodes, and the two tables between a byte and   *)
(* the name a listing shows for it.  Every entry of both tables is written *)
(* X: "X" or "X": X, so a table is known by the constants it has an entry  *)
(* for.                                                                    *)
(***************************************************************************)
EXTENDS Integers, Sequences, TLC

(* The constants of one block, which follow one another from first on.     *)
Block(first, names) ==
  [name \in {names[i] : i \in DOMAIN names} |->
     first + (CHOOSE i \in DOMAIN names : names[i] = name) - 1]

Numbered(mnemonic, from, count) ==
  [i \in 1..count |-> mnemonic \o ToString(from + i - 1)]

OpCode ==
  Block(\h00, <<"STOP", "ADD", "MUL", "SUB", "DIV", "SDIV", "MOD", "SMOD", "ADDMOD",
                "MULMOD", "EXP", "SIGNEXTEND">>)
  @@ Block(\h10, <<"LT", "GT", "SLT", "SGT", "EQ", "ISZERO", "AND", "OR", "XOR", "NOT",
                   "BYTE", "SHL", "SHR", "SAR">>)
  @@ Block(\h20, <<"KECCAK256">>)
  @@ Block(\h30, <<"ADDRESS", "BALANCE", "ORIGIN", "CALLER", "CALLVALUE",
                   "CALLDATALOAD", "CALLDATASIZE", "CALLDATACOPY", "CODESIZE",
                   "CODECOPY", "GASPRICE", "EXTCODESIZE", "EXTCODECOPY",
                   "RETURNDATASIZE", "RETURNDATACOPY", "EXTCODEHASH">>)
  @@ Block(\h40, <<"BLOCKHASH", "COINBASE", "TIMESTAMP", "NUMBER", "DIFFICULTY",
                   "GASLIMIT", "CHAINID", "SELFBALANCE", "BASEFEE", "BLOBHASH",
                   "BLOBBASEFEE">>)
  @@ Block(\h44, <<"RANDOM">>) @@ Block(\h44, <<"PREVRANDAO">>)
  @@ Block(\h50, <<"POP", "MLOAD", "MSTORE", "MSTORE8", "SLOAD", "SSTORE", "JUMP",
                   "JUMPI", "PC", "MSIZE", "GAS", "JUMPDEST", "TLOAD", "TSTORE",
                   "MCOPY", "PUSH0">>)
  @@ Block(\h60, Numbered("PUSH", 1, 32))
  @@ Block(\h80, Numbered("DUP", 1, 16))
  @@ Block(\h90, Numbered("SWAP", 1, 16))
  @@ Block(\hA0, Numbered("LOG", 0, 5))
  @@ Block(\hF0, <<"CREATE", "CALL", "CALLCODE", "RETURN", "DELEGATECALL", "CREATE2">>)
  @@ Block(\hFA, <<"STATICCALL">>)
  @@ Block(\hFD, <<"REVERT", "INVALID", "SELFDESTRUCT">>)

Bytes == 0..255

(* The constants that the table of a byte's name has an entry for, and     *)
(* those that the table of a name's byte has one for, which are written    *)
(* down apart: in either, all but two of the three names of one opcode.    *)
Written == DOMAIN OpCode \ {"RANDOM", "PREVRANDAO"}

(* The opcode that was added last is missing from the second table.        *)
ListedMutant == DOMAIN OpCode \ {"RANDOM", "PREVRANDAO", "PUSH0"}

Listed == DOMAIN OpCode \ {"RANDOM", "PREVRANDAO"}

opCodeToString ==
  [op \in Bytes |-> IF \E name \in Written : OpCode[name] = op
                    THEN CHOOSE name \in Written : OpCode[name] = op ELSE ""]

(* OpCode.String; %#x is the fallback.                                     *)
Digits == <<"0", "1", "2", "3", "4", "5", "6", "7", "8", "9", "a", "b", "c", "d",
            "e", "f">>

Hex(op) ==
  "0x" \o (IF op < 16 THEN "" ELSE Digits[(op \div 16) + 1]) \o Digits[(op % 16) + 1]

String(op) == IF opCodeToString[op] # "" THEN opCodeToString[op] ELSE Hex(op)

(* No fallback reads like a name, and a STOP and a PUSH0 are bytes.        *)
ASSUME TablesAssumption ==
  /\ \A op \in Bytes : Hex(op) \notin Listed
  /\ {OpCode["STOP"], OpCode["PUSH0"]} \subseteq Bytes

(* A lookup in the Go map: an unknown name gives the zero value, STOP.     *)
IsValidString(name) == name \in Listed

StringToOp(name) == IF IsValidString(name) THEN OpCode[name] ELSE OpCode["STOP"]

IsPush(op) == OpCode["PUSH0"] <= op /\ op <= OpCode["PUSH32"]
=============================================================================
