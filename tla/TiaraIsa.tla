------------------------------- MODULE TiaraIsa -------------------------------
(***************************************************************************)
(* The instruction set both executors share: rtl/include/tiara_pkg.svh     *)
(* (generated from sw/asm/tiara_isa.py), and the two implementations of    *)
(* COMPUTE, rtl/tiara_nic/tiara_alu.sv and `compute` of                    *)
(* web/src/engine/vm.ts.                                                   *)
(*                                                                         *)
(* The 64-bit words and 40-bit immediates of the code are WIDTH-bit words  *)
(* and IMMW-bit immediates here; an instruction word is a record of its    *)
(* decoded fields, imm being the raw immediate field.                      *)
(***************************************************************************)
EXTENDS Integers, FiniteSetsExt

CONSTANTS WIDTH,      \* bits of a register
          IMMW,       \* bits of an immediate field
          NUM_REGS    \* registers (16 in the code)

ASSUME IsaAssumption ==
    /\ WIDTH \in Nat \ {0}
    /\ IMMW \in 1 .. WIDTH
    /\ NUM_REGS \in Nat \ {0}

Word == 0 .. 2^WIDTH - 1
ImmField == 0 .. 2^IMMW - 1
Regs == 0 .. NUM_REGS - 1

TwoWordOps == {"MEMCPY", "CAS", "CAA"}
Ops == TwoWordOps \cup {"NOP", "LOAD", "STORE", "JUMP", "LOOP", "WAIT", "RET",
                        "COMPUTE", "BAD"}
Subs == {"ADD", "SUB", "AND", "OR", "XOR", "SHL", "SHR", "MUL", "ADDI",
         "ANDI", "SHLI", "SHRI", "LI", "EQ", "LT", "GE"}

(* An instruction word.  sub names the ALU operation of COMPUTE and the     *)
(* flags of MEMCPY; "BAD" as op is any byte that encodes no opcode.    *)
Ins(op, rd, rs1, rs2, sub, imm) ==
    [op |-> op, rd |-> rd, rs1 |-> rs1, rs2 |-> rs2, sub |-> sub, imm |-> imm]
NopWord == Ins("NOP", 0, 0, 0, "ADD", 0)
IsTwoWord(w) == w.op \in TwoWordOps

CopyFlags == {"SYNC", "ASYNC", "LEN_FROM_REG", "ASYNC_LEN_FROM_REG"}
Instructions == [op : Ops, rd : Regs, rs1 : Regs, rs2 : Regs,
                 sub : Subs \cup CopyFlags, imm : ImmField]
IsAsync(w) == w.sub \in {"ASYNC", "ASYNC_LEN_FROM_REG"}
LenFromReg(w) == w.sub \in {"LEN_FROM_REG", "ASYNC_LEN_FROM_REG"}

(* sext40: the immediate as a signed number.                               *)
SignedImm(imm) == IF imm >= 2^(IMMW - 1) THEN imm - 2^IMMW ELSE imm
Wrap(x) == x % 2^WIDTH

Bits(x) == {i \in 0 .. WIDTH - 1 : (x \div 2^i) % 2 = 1}
FromBits(S) == MapThenSumSet(LAMBDA i : 2^i, S)

(* Shift counts use the low bits of the operand only (6 of 64).            *)
ShiftCount(x) == x % WIDTH
BoolWord(b) == IF b THEN 1 ELSE 0

(***************************************************************************)
(* What the two executors agree on, given the second operand of the *I     *)
(* forms as a word: tiara_alu.sv 48-67, vm.ts 521-558.                     *)
(***************************************************************************)
AluWith(sub, a, b, imm) ==
    CASE sub = "ADD"  -> Wrap(a + b)
      [] sub = "SUB"  -> Wrap(a - b)
      [] sub = "AND"  -> FromBits(Bits(a) \cap Bits(b))
      [] sub = "OR"   -> FromBits(Bits(a) \cup Bits(b))
      [] sub = "XOR"  -> FromBits((Bits(a) \cup Bits(b)) \ (Bits(a) \cap Bits(b)))
      [] sub = "SHL"  -> Wrap(a * 2^ShiftCount(b))
      [] sub = "SHR"  -> a \div 2^ShiftCount(b)
      [] sub = "MUL"  -> Wrap(a * b)
      [] sub = "ADDI" -> Wrap(a + imm)
      [] sub = "ANDI" -> FromBits(Bits(a) \cap Bits(imm))
      [] sub = "SHLI" -> Wrap(a * 2^ShiftCount(imm))
      [] sub = "SHRI" -> a \div 2^ShiftCount(imm)
      [] sub = "LI"   -> imm
      [] sub = "EQ"   -> BoolWord(a = b)
      [] sub = "LT"   -> BoolWord(a < b)
      [] sub = "GE"   -> BoolWord(a >= b)

(* The ALU (tiara_alu.sv) is given the sign-extended immediate for all of   *)
(* them; its MUL result is the pipeline register, modelled in TiaraMP.      *)
RtlAlu(sub, a, b, imm) == AluWith(sub, a, b, Wrap(SignedImm(imm)))

(* The interpreter (vm.ts) zero-extends the immediate of ANDI.             *)
VmAlu(sub, a, b, imm) ==
    AluWith(sub, a, b, IF sub = "ANDI" THEN imm ELSE Wrap(SignedImm(imm)))
=============================================================================
