------------------------------- MODULE Opcode -------------------------------
(***************************************************************************)
(* The instructions that the compiler of `nvs bc` writes and its machine   *)
(* reads (src/internal/bytecode/opcode.go): an opcode of one byte, behind  *)
(* it an operand of two bytes for some.  Addresses count from 0.           *)
(***************************************************************************)
EXTENDS Integers, Sequences

Opcodes == <<"Constant", "Add", "Sub", "Mul", "Div", "Mod", "Pow", "Equal",
             "NotEqual", "Greater", "Less", "GreaterEq", "LessEq", "Minus",
             "Bang", "True", "False", "Null", "Pop", "Jump", "JumpNotTruthy",
             "SetGlobal", "GetGlobal", "Print", "Len", "Array", "Halt">>
Code(op) == (CHOOSE i \in DOMAIN Opcodes : Opcodes[i] = op) - 1
OperandWidth(op) == IF op \in {"Constant", "Jump", "JumpNotTruthy", "SetGlobal",
                               "GetGlobal", "Array", "Print"} THEN 2 ELSE 0
Bytes(n) == <<(n \div 256) % 256, n % 256>>
ReadUint16(ins, ip) == ins[ip + 1] * 256 + ins[ip + 2]
=============================================================================
