---------------------------- MODULE MCInterpreter ----------------------------
EXTENDS Interpreter

(* A push, an operation on one item that needs memory and pays in two      *)
(* parts, and two that end their frame for nothing, of which one has more   *)
(* operands than a register has places.                                    *)
MCOperations ==
  {[minStack |-> 0, pushes |-> 1, maxStack |-> 1, constantGas |-> 1, dynamic |-> FALSE],
   [minStack |-> 1, pushes |-> 0, maxStack |-> 3, constantGas |-> 1, dynamic |-> TRUE],
   [minStack |-> 1, pushes |-> 0, maxStack |-> 3, constantGas |-> 0, dynamic |-> FALSE],
   [minStack |-> 2, pushes |-> 0, maxStack |-> 4, constantGas |-> 0, dynamic |-> FALSE]}
=============================================================================
