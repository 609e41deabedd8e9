------------------------------- MODULE ByteCode -------------------------------
(* The instructions of the scripts, shared by the scene compiler (the enum of  *)
(* class ByteCode in Code.h) and by the player (ByteCode.java, generated from  *)
(* it). The instructions of the old format, the floats and the strings are     *)
(* numbered but not used by the models.                                        *)
EXTENDS Integers, Sequences

\* The opcodes in the order of their enum: the first one is 0.
Opcodes == <<
  "NOP", "JUMP_COMPAT", "JUMP_ZERO_COMPAT", "LABEL_COMPAT", "EXT_CALL",
  "INT_CALL", "RETURN", "LOAD_REG_INT", "LOAD_REG_FLT", "LOAD_REG_STR",
  "MOVE_REG_REG", "FIELD_PUSH", "FIELD_POP", "FIELD_USE_INT",
  "FIELD_IDX_REG", "FIELD_GET_INT_REG", "FIELD_SET_INT_REG",
  "ADD_REG_REG", "SUB_REG_REG", "MUL_REG_REG", "DIV_REG_REG", "MOD_REG_REG",
  "TEST_EQU", "TEST_NEQ", "TEST_GRT", "TEST_GRE", "TEST_LES", "TEST_LEE",
  "TEST_AND", "TEST_OR", "BIT_AND", "BIT_OR", "BIT_XOR", "BIT_INV", "BIT_LS",
  "BIT_RS", "BIT_RRS", "JUMP", "JUMP_ZERO", "JUMP_NZERO" >>

ENDOFCODE == 255

\* The byte of an opcode, and the opcode of a byte.
Asm(name) == IF name = "ENDOFCODE" THEN ENDOFCODE
             ELSE (CHOOSE i \in DOMAIN Opcodes : Opcodes[i] = name) - 1

Opcode(byte) == IF byte = ENDOFCODE THEN "ENDOFCODE"
                ELSE IF byte + 1 \in DOMAIN Opcodes THEN Opcodes[byte + 1]
                ELSE "UNKNOWN"

\* The instructions that replace a register by an operation on two registers.
BinaryOps == { "ADD_REG_REG", "SUB_REG_REG", "MUL_REG_REG", "DIV_REG_REG",
               "MOD_REG_REG", "TEST_EQU", "TEST_NEQ", "TEST_GRT", "TEST_GRE",
               "TEST_LES", "TEST_LEE", "BIT_AND", "BIT_OR", "BIT_XOR",
               "BIT_LS", "BIT_RS", "BIT_RRS" }

\* The instructions the models execute.
Instructions == BinaryOps \cup
  { "NOP", "EXT_CALL", "INT_CALL", "RETURN", "LOAD_REG_INT", "MOVE_REG_REG",
    "FIELD_PUSH", "FIELD_POP", "FIELD_USE_INT", "FIELD_IDX_REG",
    "FIELD_GET_INT_REG", "FIELD_SET_INT_REG", "BIT_INV", "JUMP", "JUMP_ZERO",
    "JUMP_NZERO", "ENDOFCODE" }

\* The number of operand bytes behind an opcode.
Operands(op) ==
  CASE op \in {"NOP", "FIELD_PUSH", "FIELD_POP", "ENDOFCODE"} -> 0
    [] op \in {"RETURN", "FIELD_USE_INT", "FIELD_IDX_REG", "BIT_INV"} -> 1
    [] op \in BinaryOps \cup {"INT_CALL", "LOAD_REG_INT", "MOVE_REG_REG", "JUMP",
                              "FIELD_GET_INT_REG", "FIELD_SET_INT_REG"} -> 2
    [] op \in {"JUMP_ZERO", "JUMP_NZERO"} -> 3
    [] op = "EXT_CALL" -> 4
===============================================================================
